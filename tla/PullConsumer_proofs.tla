------------------------- MODULE PullConsumer_proofs -------------------------
(***************************************************************************)
(* No poll of a PullConsumer is left asleep next to leasable items, or     *)
(* beyond its hold in a drain, for any numbers of polls, producers and     *)
(* requests.  The invariant adds to the queue's own (IInv, with its proofs *)
(* in LeaseQueue_proofs) the shape of the polls; what a poll saw stays     *)
(* true until a notify_waiters call is owed, because every call of the     *)
(* queue that makes an item leasable owes one (WakeStep, AckWake).         *)
(***************************************************************************)
EXTENDS PullConsumer, LeaseQueue_proofs

-----------------------------------------------------------------------------
(* What a request that can be read asks for.                               *)

\* A member that can be read has an integer.
LEMMA ToldIntegers ==
    ASSUME NEW members, NEW key \in Keywords,
           \A i \in DOMAIN members : members[i][2] \in Int \cup {NoInteger},
           FormReadable(members) \/ JsonReadable(members)
    PROVE  Told(members, key) \subseteq Int
  BY DEF Told, FormReadable, JsonReadable

LEMMA ParamInteger ==
    ASSUME NEW req \in Requests, Readable(req), NEW key \in Keywords
    PROVE  Param(req, key) \subseteq Int
<1>1. Told(req.query, key) \subseteq Int
  BY RequestsAssumption, ToldIntegers DEF Readable
<1>2. Told(req.body, key) \subseteq Int
  <2>1. CASE req.type = "none"
    <3>1. req.body = <<>>
      BY <2>1, RequestsAssumption
    <3> QED
      BY <3>1 DEF Told
  <2>2. CASE req.type # "none"
    BY <2>2, RequestsAssumption, ToldIntegers DEF Readable
  <2> QED
    BY <2>1, <2>2
<1> QED
  BY <1>1, <1>2 DEF Param

\* The limit and the timeout of a poll are within their bounds, whatever the
\* request says.
LEMMA ParamsInBounds ==
    ASSUME NEW req \in Requests, Readable(req)
    PROVE  /\ Params(req).offset \in Int
           /\ Params(req).limit \in 1 .. MaxLimit
           /\ Params(req).timeout \in 0 .. MaxTimeout
<1>1. ASSUME NEW opt \in SUBSET Int, NEW d \in Int PROVE OrElse(opt, d) \in Int
  BY DEF OrElse
<1>2. ASSUME NEW n \in Int, NEW low \in Int, NEW high \in Int, low <= high
      PROVE  Clamp(n, low, high) \in low .. high
  BY <1>2 DEF Clamp
<1>3. /\ "offset" \in Keywords /\ "limit" \in Keywords /\ "timeout" \in Keywords
  BY DEF Keywords
<1>4. /\ MaxLimit \in Int /\ 1 <= MaxLimit /\ MaxTimeout \in Int /\ 0 <= MaxTimeout
  BY GetUpdatesAssumption
<1>5. /\ OrElse(Param(req, "offset"), 0) \in Int
      /\ OrElse(Param(req, "limit"), MaxLimit) \in Int
      /\ OrElse(Param(req, "timeout"), 0) \in Int
  BY <1>1, <1>3, <1>4, ParamInteger
<1>6. /\ Params(req).offset = OrElse(Param(req, "offset"), 0)
      /\ Params(req).limit = Clamp(OrElse(Param(req, "limit"), MaxLimit), 1, MaxLimit)
      /\ Params(req).timeout = Clamp(OrElse(Param(req, "timeout"), 0), 0, MaxTimeout)
  BY DEF Params
<1>7. /\ Clamp(OrElse(Param(req, "limit"), MaxLimit), 1, MaxLimit) \in 1 .. MaxLimit
      /\ Clamp(OrElse(Param(req, "timeout"), 0), 0, MaxTimeout) \in 0 .. MaxTimeout
  <2>1. 0 \in Int /\ 1 \in Int
    OBVIOUS
  <2> QED
    BY <1>2, <1>4, <1>5, <2>1
<1> QED
  BY <1>5, <1>6, <1>7

-----------------------------------------------------------------------------
(* The polls.                                                              *)

\* A poll has its fields, and an instance that asks.
PollsOK ==
    /\ poll \in [Polls -> Poll]
    /\ \A c \in Polls : poll[c].pc # "idle" => poll[c].holder \in Holders
    /\ owedWakes \in 0 .. MaxOwed

\* The poll saw nothing to lease and has not been told since.
Waits(c) == poll[c].pc \in {"decide", "parked"} /\ ~poll[c].told

PullInv == IInv /\ PollsOK /\ ItemsHeard

\* A step that changes one poll at most.
OnlyPoll(c) == poll' = [poll EXCEPT ![c] = poll'[c]]

\* It leaves the poll with its fields, and not waiting unless it sees
\* nothing to lease.
PollMoves(c) ==
    /\ OnlyPoll(c) /\ poll'[c] \in Poll
    /\ poll'[c].pc # "idle" => poll'[c].holder \in Holders
    /\ owedWakes' = owedWakes

LEMMA PollMovesOK ==
    ASSUME PollsOK, NEW c \in Polls, PollMoves(c)
    PROVE  PollsOK' /\ \A d \in Polls : d # c => poll'[d] = poll[d]
  BY DEF PollsOK, PollMoves, OnlyPoll

LEMMA IdlePollOK == IdlePoll \in Poll /\ IdlePoll.pc = "idle" /\ ~IdlePoll.told
  BY DEF IdlePoll, Poll

LEMMA AnswerMoves ==
    ASSUME PollsOK, NEW c \in Polls, Answer(c), owedWakes' = owedWakes
    PROVE  PollMoves(c) /\ ~Waits(c)'
<1>1. OnlyPoll(c) /\ poll'[c] = IdlePoll
  BY DEF PollsOK, Answer, OnlyPoll
<1> QED
  BY <1>1, IdlePollOK DEF PollMoves, Waits

LEMMA GotoMoves ==
    ASSUME PollsOK, NEW c \in Polls, poll[c].pc # "idle", owedWakes' = owedWakes,
           NEW pc \in {"look", "decide"}, Goto(c, pc)
    PROVE  PollMoves(c) /\ poll'[c].pc = pc
<1>1. OnlyPoll(c) /\ poll'[c] = [poll[c] EXCEPT !.pc = pc]
  BY DEF PollsOK, Goto, OnlyPoll
<1>2. poll[c] \in Poll /\ poll[c].holder \in Holders
  BY DEF PollsOK
<1>3. poll'[c] \in Poll /\ poll'[c].pc = pc /\ poll'[c].holder = poll[c].holder
  BY <1>1, <1>2 DEF Poll
<1> QED
  BY <1>1, <1>2, <1>3 DEF PollMoves

LEMMA LoopMoves ==
    ASSUME PollsOK, NEW c \in Polls, poll[c].pc # "idle", owedWakes' = owedWakes, Loop(c)
    PROVE  PollMoves(c) /\ ~Waits(c)'
<1>1. /\ OnlyPoll(c)
      /\ poll'[c] = [poll[c] EXCEPT !.pc = "enable", !.offset = 0, !.at = 0, !.until = 0,
                                    !.told = FALSE]
  BY DEF PollsOK, Loop, OnlyPoll
<1>2. poll[c] \in Poll /\ poll[c].holder \in Holders
  BY DEF PollsOK
<1>3. poll'[c] \in Poll /\ poll'[c].pc = "enable" /\ poll'[c].holder = poll[c].holder
  <2>1. PICK q : q = [poll[c] EXCEPT !.pc = "enable", !.told = FALSE]
    OBVIOUS
  <2>2. q \in Poll /\ q.pc = "enable" /\ q.holder = poll[c].holder
    BY <1>2, <2>1 DEF Poll
  <2>3. 0 \in Int /\ 0 \in Nat
    OBVIOUS
  <2>4. poll'[c] = [q EXCEPT !.offset = 0, !.at = 0, !.until = 0]
    BY <1>1, <1>2, <2>1 DEF Poll
  <2> QED
    BY <2>2, <2>3, <2>4 DEF Poll
<1> QED
  BY <1>1, <1>2, <1>3 DEF PollMoves, Waits

\* What the poll does not change keeps the other polls' wake-ups.
LEMMA OthersKeep ==
    ASSUME PullInv, NEW c \in Polls, PollMoves(c), IInv', paused' = paused,
           owed' >= owed, Candidates = {} /\ Candidates' # {} => owed' > owed,
           Waits(c)' => (paused \/ Candidates' = {} \/ Waits(c))
    PROVE  PullInv'
<1>1. owed \in Nat /\ owed' \in Nat /\ owedWakes \in Nat
  BY BoundAssumption DEF PullInv, IInv, CallTypeOK, PollsOK
<1>2. PollsOK' /\ owedWakes' = owedWakes /\ \A d \in Polls : d # c => poll'[d] = poll[d]
  BY PollMovesOK DEF PullInv, PollMoves
<1>3. ASSUME NEW d \in Polls, Waits(d)', Candidates' # {}, ~paused'
      PROVE  owed' > 0 \/ owedWakes' > 0
  <2>1. Waits(d)
    BY <1>2, <1>3 DEF Waits
  <2>2. CASE Candidates = {}
    BY <1>1, <1>3, <2>2
  <2>3. CASE Candidates # {}
    <3>1. owed > 0 \/ owedWakes > 0
      BY <1>3, <2>1, <2>3 DEF PullInv, ItemsHeard, Waits
    <3> QED
      BY <1>1, <1>2, <3>1
  <2> QED
    BY <2>2, <2>3
<1> QED
  BY <1>2, <1>3 DEF PullInv, ItemsHeard, Waits

\* Nothing of the queue changes.
LEMMA SameQueue ==
    ASSUME IInv, UNCHANGED vars
    PROVE  IInv' /\ owed' = owed /\ Candidates' = Candidates /\ owed' >= owed
<1>1. IInv'
  BY NextIInv
<1>2. owed' = owed /\ Candidates' = Candidates
  BY DEF vars, innerVars, Candidates
<1>3. owed \in Nat
  BY BoundAssumption DEF IInv, CallTypeOK
<1> QED
  BY <1>1, <1>2, <1>3

LEMMA BeginKeeps ==
    ASSUME PullInv, NEW c \in Polls, NEW h \in Holders, NEW offset \in Int, NEW limit \in Nat,
           NEW timeout \in Nat, Begin(c, h, offset, limit, timeout)
    PROVE  PullInv'
<1>1. IInv /\ PollsOK /\ now \in Nat /\ owed \in Nat
  BY BoundAssumption DEF PullInv, IInv, CallTypeOK
<1>2. /\ Ack(h, offset) /\ paused' = paused /\ owedWakes' = owedWakes
  BY DEF Begin
<1>3. /\ IInv' /\ owed' >= owed
      /\ Candidates = {} /\ Candidates' # {} => owed' > owed
  <2>1. CASE UNCHANGED vars
    BY <1>1, <2>1, SameQueue
  <2>2. CASE AckWhere(Acked(h, offset))
    <3>0. PICK S : S = Acked(h, offset)
      OBVIOUS
    <3>1. S \in SUBSET Seqs
      <4>1. leases[h] \subseteq Seqs
        BY <1>1, LeasedByHolder DEF IInv
      <4>2. offset = 0 \/ offset > 0 \/ offset < 0
        OBVIOUS
      <4> QED
        BY <3>0, <4>1, <4>2 DEF Acked
    <3>2. AckWhere(S)
      BY <2>2, <3>0
    <3>3. IInv'
      BY <1>1, <3>1, <3>2, AckIInv
    <3>4. owed' >= owed
      BY <1>1, <3>2 DEF AckWhere, Owe
    <3> QED
      BY <1>1, <3>1, <3>2, <3>3, <3>4, AckWake
  <2> QED
    BY <1>2, <2>1, <2>2 DEF Ack
<1>4. PollMoves(c) /\ ~Waits(c)'
  <2>1. PICK deadline \in Nat :
            deadline = IF now + timeout > MaxInstant THEN now ELSE now + timeout
    BY <1>1
  <2>2. /\ OnlyPoll(c)
        /\ poll'[c] = [IdlePoll EXCEPT !.pc = "held", !.holder = h, !.offset = offset,
                          !.limit = limit, !.at = now, !.deadline = deadline]
    BY <1>1, <2>1 DEF PollsOK, Begin, OnlyPoll
  <2>3. poll'[c] \in Poll /\ poll'[c].pc = "held" /\ poll'[c].holder = h
    <3>1. PICK q : q = [IdlePoll EXCEPT !.pc = "held", !.holder = h, !.offset = offset]
      OBVIOUS
    <3>2. q \in Poll /\ q.pc = "held" /\ q.holder = h
      BY <3>1 DEF IdlePoll, Poll
    <3>3. poll'[c] = [q EXCEPT !.limit = limit, !.at = now, !.deadline = deadline]
      BY <2>2, <3>1 DEF IdlePoll
    <3> QED
      BY <1>1, <3>2, <3>3 DEF Poll
  <2> QED
    BY <1>2, <2>2, <2>3 DEF PollMoves, Waits
<1> QED
  BY <1>2, <1>3, <1>4, OthersKeep

LEMMA GetUpdatesKeeps ==
    ASSUME PullInv, NEW c \in Polls, NEW req \in Requests, GetUpdates(c, req)
    PROVE  PullInv'
<1>1. PICK h \in Instance(req) :
          Begin(c, h, Params(req).offset, Params(req).limit, Params(req).timeout)
  BY DEF GetUpdates
<1>2. h \in Holders
  BY RequestsAssumption
<1>3. /\ Params(req).offset \in Int /\ Params(req).limit \in Nat /\ Params(req).timeout \in Nat
  BY ParamsInBounds, GetUpdatesAssumption DEF GetUpdates
<1> QED
  BY <1>1, <1>2, <1>3, BeginKeeps

LEMMA RedeliverKeeps ==
    ASSUME PullInv, NEW c \in Polls, Redeliver(c)
    PROVE  PullInv'
<1>1. /\ IInv /\ PollsOK /\ poll[c].pc = "held" /\ poll[c].holder \in Holders
      /\ poll[c].at \in Nat /\ owed \in Nat
  BY BoundAssumption DEF PullInv, IInv, CallTypeOK, Redeliver, PollsOK, Poll
<1>2. PICK h \in Holders : h = poll[c].holder
  BY <1>1
<1>3. /\ Held(h, poll[c].offset, poll[c].at) /\ paused' = paused /\ owedWakes' = owedWakes
      /\ Answer(c) \/ Loop(c)
  BY <1>2 DEF Redeliver
<1>4. IInv'
  BY <1>1, <1>3, HeldIInv
<1>5. owed' = owed /\ Candidates' = Candidates
  BY <1>3 DEF Held, Candidates
<1>6. PollMoves(c) /\ ~Waits(c)'
  BY <1>1, <1>3, AnswerMoves, LoopMoves
<1> QED
  BY <1>1, <1>3, <1>4, <1>5, <1>6, OthersKeep

\* A step of a poll that does not touch the queue.
LEMMA AloneKeeps ==
    ASSUME PullInv, NEW c \in Polls, PollMoves(c), UNCHANGED <<vars, paused>>,
           Waits(c)' => (paused \/ Waits(c))
    PROVE  PullInv'
<1>1. IInv' /\ owed' = owed /\ Candidates' = Candidates /\ owed' >= owed
  BY SameQueue DEF PullInv
<1> QED
  BY <1>1, OthersKeep

LEMMA LookKeeps ==
    ASSUME PullInv, NEW c \in Polls, Look(c)
    PROVE  PullInv'
<1>1. /\ PollsOK /\ poll[c].pc = "look" /\ poll[c] \in Poll /\ poll[c].holder \in Holders
      /\ UNCHANGED <<vars, paused, owedWakes>> /\ now \in Nat
  BY BoundAssumption DEF PullInv, Look, PollsOK, IInv, CallTypeOK
<1>2. PICK pc \in {"decide", "lease"} : pc = IF paused THEN "decide" ELSE "lease"
  OBVIOUS
<1>3. OnlyPoll(c) /\ poll'[c] = [poll[c] EXCEPT !.pc = pc, !.at = now]
  BY <1>2, <1>1 DEF PollsOK, Look, OnlyPoll
<1>4. poll'[c] \in Poll /\ poll'[c].pc = pc /\ poll'[c].holder = poll[c].holder
  BY <1>1, <1>3 DEF Poll
<1>5. PollMoves(c)
  BY <1>1, <1>3, <1>4 DEF PollMoves
<1>6. Waits(c)' => paused
  BY <1>2, <1>4 DEF Waits
<1> QED
  BY <1>1, <1>5, <1>6, AloneKeeps

LEMMA LeaseNewKeeps ==
    ASSUME PullInv, NEW c \in Polls, LeaseNew(c)
    PROVE  PullInv'
<1>1. /\ IInv /\ PollsOK /\ poll[c].pc = "lease" /\ poll[c].holder \in Holders
      /\ poll[c].at \in Nat /\ owed \in Nat
      /\ paused' = paused /\ owedWakes' = owedWakes
  BY BoundAssumption DEF PullInv, IInv, CallTypeOK, LeaseNew, PollsOK, Poll
<1>2. CASE Candidates = {} /\ Goto(c, "decide") /\ UNCHANGED vars
  <2>1. IInv' /\ owed' = owed /\ Candidates' = {} /\ owed' >= owed
    BY <1>1, <1>2, SameQueue
  <2>2. PollMoves(c)
    BY <1>1, <1>2, GotoMoves
  <2> QED
    BY <1>1, <2>1, <2>2, OthersKeep
<1>3. CASE Candidates # {} /\ Answer(c) /\ Lease(poll[c].holder, poll[c].limit, poll[c].at)
  <2>1. IInv'
    BY <1>1, <1>3, LeaseIInv
  <2>2. owed' = owed
    BY <1>3 DEF Lease
  <2>3. PollMoves(c) /\ ~Waits(c)'
    BY <1>1, <1>3, AnswerMoves
  <2> QED
    BY <1>1, <1>3, <2>1, <2>2, <2>3, OthersKeep
<1> QED
  BY <1>2, <1>3 DEF LeaseNew

LEMMA DecideKeeps ==
    ASSUME PullInv, NEW c \in Polls, Decide(c)
    PROVE  PullInv'
<1>1. /\ PollsOK /\ poll[c].pc = "decide" /\ poll[c] \in Poll /\ poll[c].holder \in Holders
      /\ UNCHANGED <<vars, paused, owedWakes>>
  BY DEF PullInv, Decide, PollsOK
<1>2. CASE Answer(c)
  BY <1>1, <1>2, AnswerMoves, AloneKeeps
<1>3. CASE poll' = [poll EXCEPT ![c] = [@ EXCEPT !.pc = "parked", !.at = 0, !.hold = Hold(c),
                                                 !.until = Until(c)]]
  <2>1. Hold(c) \in Nat \cup {NoDeadline} /\ Until(c) \in Nat
    BY <1>1, PollAssumption DEF Hold, Until, Poll
  <2>2. /\ OnlyPoll(c)
        /\ poll'[c] = [poll[c] EXCEPT !.pc = "parked", !.at = 0, !.hold = Hold(c),
                                      !.until = Until(c)]
    BY <1>1, <1>3 DEF PollsOK, OnlyPoll
  <2>3. PICK hold, until : hold = Hold(c) /\ until = Until(c)
    OBVIOUS
  <2>4. 0 \in Nat /\ poll'[c] = [poll[c] EXCEPT !.pc = "parked", !.at = 0, !.hold = hold,
                                               !.until = until]
    BY <2>2, <2>3
  <2>5. /\ poll'[c] \in Poll /\ poll'[c].pc = "parked" /\ poll'[c].holder = poll[c].holder
        /\ poll'[c].told = poll[c].told
    BY <1>1, <2>1, <2>3, <2>4 DEF Poll
  <2>6. PollMoves(c) /\ (Waits(c)' => Waits(c))
    BY <1>1, <2>2, <2>5 DEF PollMoves, Waits
  <2> QED
    BY <1>1, <2>6, AloneKeeps
<1> QED
  BY <1>2, <1>3 DEF Decide

LEMMA PollStepKeeps ==
    ASSUME PullInv, NEW c \in Polls, PollStep(c) \/ CancelPoll(c)
    PROVE  PullInv'
<1>1. PollsOK
  BY DEF PullInv
<1>2. CASE Enable(c)
  <2>1. PollMoves(c) /\ poll'[c].pc = "look"
    BY <1>1, <1>2, GotoMoves DEF Enable
  <2>2. ~Waits(c)' /\ UNCHANGED <<vars, paused>>
    BY <1>2, <2>1 DEF Waits, Enable
  <2> QED
    BY <2>1, <2>2, AloneKeeps
<1>3. CASE Wake(c)
  <2>1. PollMoves(c) /\ ~Waits(c)' /\ UNCHANGED <<vars, paused>>
    BY <1>1, <1>3, LoopMoves DEF Wake
  <2> QED
    BY <2>1, AloneKeeps
<1>4. CASE TimeOut(c) \/ CancelPoll(c)
  <2>1. PollMoves(c) /\ ~Waits(c)' /\ UNCHANGED <<vars, paused>>
    BY <1>1, <1>4, AnswerMoves DEF TimeOut, CancelPoll
  <2> QED
    BY <2>1, AloneKeeps
<1> QED
  BY <1>2, <1>3, <1>4, RedeliverKeeps, LookKeeps, LeaseNewKeeps, DecideKeeps DEF PollStep

-----------------------------------------------------------------------------
(* What happens around the polls.                                          *)

\* notify_waiters tells every poll that waits.
LEMMA TellAll ==
    ASSUME PollsOK, Tell
    PROVE  /\ poll' \in [Polls -> Poll]
           /\ \A c \in Polls : /\ poll'[c].pc = poll[c].pc
                               /\ poll'[c].holder = poll[c].holder
                               /\ ~Waits(c)'
<1>1. ASSUME NEW c \in Polls
      PROVE  /\ poll'[c] \in Poll /\ poll'[c].pc = poll[c].pc
             /\ poll'[c].holder = poll[c].holder /\ ~Waits(c)'
  <2>1. poll[c] \in Poll
    BY DEF PollsOK
  <2>2. CASE c \in Enabled
    <3>1. poll'[c] = [poll[c] EXCEPT !.told = TRUE]
      BY <2>2 DEF Tell
    <3>2. /\ poll'[c] \in Poll /\ poll'[c].pc = poll[c].pc
          /\ poll'[c].holder = poll[c].holder /\ poll'[c].told = TRUE
      BY <2>1, <3>1 DEF Poll
    <3> QED
      BY <3>2 DEF Waits
  <2>3. CASE c \notin Enabled
    <3>1. poll'[c] = poll[c]
      BY <2>3 DEF Tell
    <3>2. poll[c].pc \notin {"decide", "parked"}
      BY <2>3 DEF Enabled
    <3> QED
      BY <2>1, <3>1, <3>2 DEF Waits
  <2> QED
    BY <2>2, <2>3
<1>2. poll' \in [Polls -> Poll]
  BY <1>1 DEF Tell
<1> QED
  BY <1>1, <1>2

LEMMA NobodyWaits ==
    ASSUME \A c \in Polls : ~Waits(c)'
    PROVE  ItemsHeard'
  BY DEF ItemsHeard, Waits

LEMMA NotifyKeeps ==
    ASSUME PullInv, NotifyPolls \/ WakePolls
    PROVE  PullInv'
<1>1. IInv /\ PollsOK /\ Tell /\ owedWakes \in 0 .. MaxOwed
  BY DEF PullInv, PollsOK, NotifyPolls, WakePolls
<1>2. IInv'
  <2>1. [Next]_vars
    BY DEF NotifyPolls, WakePolls, Next
  <2> QED
    BY <1>1, <2>1, NextIInv
<1>3. owedWakes' \in 0 .. MaxOwed
  BY <1>1, BoundAssumption DEF NotifyPolls, WakePolls
<1>4. PollsOK' /\ ItemsHeard'
  BY <1>1, <1>3, TellAll, NobodyWaits DEF PollsOK
<1> QED
  BY <1>2, <1>4 DEF PullInv

\* The flags.
LEMMA FlagKeeps ==
    ASSUME PullInv, BeginDrain \/ EndDrain \/ Pause \/ Resume
    PROVE  PullInv'
<1>1. /\ IInv /\ PollsOK /\ UNCHANGED <<vars, poll>> /\ owedWakes \in 0 .. MaxOwed
  BY DEF PullInv, PollsOK, BeginDrain, EndDrain, Pause, Resume
<1>2. IInv' /\ owed' = owed /\ Candidates' = Candidates
  BY <1>1, SameQueue
<1>3. CASE OweWake
  <2>1. owedWakes' \in 0 .. MaxOwed /\ owedWakes' > 0
    BY <1>1, <1>3, BoundAssumption DEF OweWake
  <2> QED
    BY <1>1, <1>2, <2>1 DEF PullInv, PollsOK, ItemsHeard
<1>4. CASE owedWakes' = owedWakes /\ (paused' = paused \/ paused' = TRUE)
  BY <1>1, <1>2, <1>4 DEF PullInv, PollsOK, ItemsHeard
<1> QED
  BY <1>3, <1>4 DEF BeginDrain, EndDrain, Pause, Resume

\* Only NotifyWaiters takes back a notify_waiters call that is owed.
LEMMA OwedStays ==
    ASSUME IInv,
           \/ \E p \in Producers : ProducerStep(p)
           \/ \E at \in 0 .. now : Expire(at)
           \/ Purge
           \/ \E S \in SUBSET available : PurgeWhere(S)
           \/ DrainAll
           \/ \E c \in Configs : SetConfig(c)
           \/ Tick
    PROVE  owed' >= owed /\ [Next]_vars
<1>1. owed \in Nat
  BY BoundAssumption DEF IInv, CallTypeOK
<1>2. owed' = owed \/ owed' = owed + 1
  BY DEF ProducerStep, TryReserve, Grant, Refuse, Evict, Cancel, FinishCancel, Commit,
     Expire, Purge, PurgeWhere, DrainAll, SetConfig, Tick, Owe
<1> QED
  BY <1>1, <1>2 DEF Next

LEMMA OutsideKeeps ==
    ASSUME PullInv,
           (\E p \in Producers : Admission(p)) \/ Expiry \/ Operator \/ Clock
    PROVE  PullInv'
<1>1. IInv /\ UNCHANGED <<poll, paused, owedWakes>> /\ owed \in Nat
  BY BoundAssumption DEF PullInv, IInv, CallTypeOK, Admission, Expiry, Operator, Clock,
     pullVars
<1>2. owed' >= owed /\ [Next]_vars
  BY <1>1, OwedStays DEF Admission, Expiry, Operator, Clock
<1>3. IInv'
  BY <1>1, <1>2, NextIInv
<1>4. owed' \in Nat
  BY <1>3, BoundAssumption DEF IInv, CallTypeOK
<1>5. Candidates = {} /\ Candidates' # {} => owed' > owed
  BY <1>1, <1>2, <1>3, WakeStep
<1>6. ItemsHeard'
  BY <1>1, <1>2, <1>4, <1>5 DEF PullInv, ItemsHeard
<1> QED
  BY <1>1, <1>3, <1>6 DEF PullInv, PollsOK

-----------------------------------------------------------------------------
(* Drains.                                                                 *)

\* DrainHeard for one poll, but for the wake-up on its way.
Heard(c) ==
    draining /\ poll[c].pc = "parked" /\ ~poll[c].told =>
        poll[c].hold # NoDeadline /\ poll[c].until <= poll[c].hold

\* A poll that decides reads the flag, and parks for its drain hold at most.
LEMMA DecideHears ==
    ASSUME PollsOK, NEW c \in Polls, Decide(c)
    PROVE  OnlyPoll(c) /\ Heard(c)'
<1>1. /\ poll[c].pc = "decide" /\ poll[c] \in Poll /\ draining' = draining
  BY DEF Decide, PollsOK
<1>2. CASE Answer(c)
  <2>1. OnlyPoll(c) /\ poll'[c] = IdlePoll
    BY <1>2 DEF PollsOK, Answer, OnlyPoll
  <2> QED
    BY <2>1 DEF Heard, IdlePoll
<1>3. CASE poll' = [poll EXCEPT ![c] = [@ EXCEPT !.pc = "parked", !.at = 0, !.hold = Hold(c),
                                                 !.until = Until(c)]]
  <2>1. PICK hold, until : hold = Hold(c) /\ until = Until(c)
    OBVIOUS
  <2>2. OnlyPoll(c) /\ poll'[c] = [poll[c] EXCEPT !.pc = "parked", !.at = 0, !.hold = hold,
                                                  !.until = until]
    BY <1>3, <2>1 DEF PollsOK, OnlyPoll
  <2>3. poll'[c].hold = hold /\ poll'[c].until = until
    BY <1>1, <2>2 DEF Poll
  <2>4. draining => hold # NoDeadline /\ until <= hold
    BY <1>1, <2>1, PollAssumption, SentinelAssumption DEF Hold, Until, Poll
  <2> QED
    BY <1>1, <2>2, <2>3, <2>4 DEF Heard
<1> QED
  BY <1>2, <1>3 DEF Decide

\* Any other step of a poll does not park it.
LEMMA OthersHear ==
    ASSUME PollsOK, NEW c \in Polls,
           \/ \E req \in Requests : GetUpdates(c, req)
           \/ PollStep(c) /\ ~Decide(c)
           \/ CancelPoll(c)
    PROVE  OnlyPoll(c) /\ Heard(c)'
<1>1. poll \in [Polls -> Poll] /\ poll[c] \in Poll
  BY DEF PollsOK
<1>2. CASE Answer(c)
  <2>1. OnlyPoll(c) /\ poll'[c] = IdlePoll
    BY <1>1, <1>2 DEF Answer, OnlyPoll
  <2> QED
    BY <2>1 DEF Heard, IdlePoll
<1>3. CASE Loop(c)
  <2>1. OnlyPoll(c) /\ poll'[c].pc = "enable"
    BY <1>1, <1>3 DEF Loop, OnlyPoll, Poll
  <2> QED
    BY <2>1 DEF Heard
<1>4. ASSUME NEW pc \in {"look", "decide"}, Goto(c, pc)
      PROVE  OnlyPoll(c) /\ Heard(c)'
  <2>1. OnlyPoll(c) /\ poll'[c].pc = pc
    BY <1>1, <1>4 DEF Goto, OnlyPoll, Poll
  <2> QED
    BY <2>1 DEF Heard
<1>5. CASE Look(c)
  <2>1. PICK pc \in {"decide", "lease"} : pc = IF paused THEN "decide" ELSE "lease"
    OBVIOUS
  <2>2. OnlyPoll(c) /\ poll'[c].pc = pc
    BY <1>1, <1>5, <2>1 DEF Look, OnlyPoll, Poll
  <2> QED
    BY <2>2 DEF Heard
<1>6. ASSUME NEW req \in Requests, GetUpdates(c, req)
      PROVE  OnlyPoll(c) /\ Heard(c)'
  <2>1. PICK h \in Instance(req) :
            Begin(c, h, Params(req).offset, Params(req).limit, Params(req).timeout)
    BY <1>6 DEF GetUpdates
  <2>2. PICK deadline :
            poll' = [poll EXCEPT ![c] =
                [IdlePoll EXCEPT !.pc = "held", !.holder = h, !.offset = Params(req).offset,
                     !.limit = Params(req).limit, !.at = now, !.deadline = deadline]]
    BY <2>1 DEF Begin
  <2>3. OnlyPoll(c) /\ poll'[c].pc = "held"
    BY <1>1, <2>2 DEF OnlyPoll, IdlePoll
  <2> QED
    BY <2>3 DEF Heard
<1> QED
  BY <1>2, <1>3, <1>4, <1>5, <1>6
     DEF PollStep, Redeliver, Enable, LeaseNew, Wake, TimeOut, CancelPoll

LEMMA DrainNext ==
    ASSUME PollsOK, DrainHeard, [PullNext]_allVars
    PROVE  DrainHeard'
<1>1. owedWakes \in Nat
  BY BoundAssumption DEF PollsOK
<1>2. ASSUME NEW c \in Polls, OnlyPoll(c), Heard(c)', draining' = draining,
             owedWakes' = owedWakes
      PROVE  DrainHeard'
  <2>1. \A d \in Polls : d # c => poll'[d] = poll[d]
    BY <1>2 DEF PollsOK, OnlyPoll
  <2> QED
    BY <1>2, <2>1 DEF DrainHeard, Heard
<1>3. ASSUME NEW c \in Polls,
             (\E req \in Requests : GetUpdates(c, req)) \/ PollStep(c) \/ CancelPoll(c)
      PROVE  DrainHeard'
  <2>1. draining' = draining /\ owedWakes' = owedWakes
    BY <1>3 DEF GetUpdates, Begin, PollStep, Redeliver, Enable, Look, LeaseNew, Decide, Wake,
       TimeOut, CancelPoll
  <2>2. OnlyPoll(c) /\ Heard(c)'
    BY <1>3, DecideHears, OthersHear
  <2> QED
    BY <1>2, <2>1, <2>2
<1>4. CASE NotifyPolls \/ WakePolls
  BY <1>4, TellAll DEF DrainHeard, Waits, NotifyPolls, WakePolls
<1>5. CASE BeginDrain
  BY <1>1, <1>5 DEF DrainHeard, BeginDrain, OweWake
<1>6. CASE EndDrain
  BY <1>6 DEF DrainHeard, EndDrain
<1>7. CASE Resume
  BY <1>1, <1>7 DEF DrainHeard, Resume, OweWake
<1>8. CASE UNCHANGED <<poll, draining, owedWakes>>
  BY <1>8 DEF DrainHeard
<1> QED
  BY <1>3, <1>4, <1>5, <1>6, <1>7, <1>8
     DEF PullNext, Pause, Admission, Expiry, Operator, Clock, allVars, pullVars

-----------------------------------------------------------------------------
LEMMA PullInitInv == PullInit => PullInv
<1> SUFFICES ASSUME PullInit PROVE PullInv
  OBVIOUS
<1>1. IInv
  BY InitIInv DEF PullInit
<1>2. poll = [c \in Polls |-> IdlePoll] /\ owedWakes = 0
  BY DEF PullInit
<1>3. 0 \in 0 .. MaxOwed
  BY BoundAssumption
<1>4. PollsOK /\ ItemsHeard
  BY <1>2, <1>3, IdlePollOK DEF PollsOK, ItemsHeard
<1> QED
  BY <1>1, <1>4 DEF PullInv

LEMMA PullNextInv == PullInv /\ [PullNext]_allVars => PullInv'
<1> SUFFICES ASSUME PullInv, [PullNext]_allVars PROVE PullInv'
  OBVIOUS
<1>1. CASE PullNext
  BY <1>1, GetUpdatesKeeps, PollStepKeeps, NotifyKeeps, FlagKeeps, OutsideKeeps DEF PullNext
<1>2. CASE UNCHANGED allVars
  <2>1. UNCHANGED vars /\ UNCHANGED <<poll, paused, owedWakes>>
    BY <1>2 DEF allVars, pullVars
  <2>2. IInv' /\ owed' = owed /\ Candidates' = Candidates
    BY <2>1, SameQueue DEF PullInv
  <2> QED
    BY <2>1, <2>2 DEF PullInv, PollsOK, ItemsHeard
<1> QED
  BY <1>1, <1>2

\* The pull consumer keeps its invariant: the queue's, the polls' shape, and
\* that no wake-up is lost.
THEOREM PullInvariant == PullSpec => []PullInv
  BY PullInitInv, PullNextInv, PTL DEF PullSpec

\* No wake-up is lost, whichever of its steps (enable, look, lease, read the
\* flag, park) the commits, acks, expiries, reloads, pauses, resumes and drains
\* fall between: a poll next to leasable items is told or about to be told, and
\* one that read the flag just before a drain began parks no longer than its
\* drain hold, or is about to be told.
THEOREM WakeUpsReachPolls == PullSpec => []NoLostWakeup
<1>1. PullInit => DrainHeard
  BY IdlePollOK DEF PullInit, DrainHeard
<1>2. PullInv /\ DrainHeard /\ [PullNext]_allVars => DrainHeard'
  BY DrainNext DEF PullInv
<1>3. PullInv /\ DrainHeard => NoLostWakeup
  BY DEF PullInv, NoLostWakeup
<1> QED
  BY <1>1, <1>2, <1>3, PullInvariant, PTL DEF PullSpec

\* The indexes of the queue agree with its entries under the pull consumer's
\* calls too, whatever offsets and limits its requests ask for.
THEOREM PullIndexCorrect == PullSpec => []IndexesAgree
<1>1. PullInv => IndexesAgree
  BY DEF PullInv, IInv, IndexInv
<1> QED
  BY <1>1, PullInvariant, PTL
=============================================================================
