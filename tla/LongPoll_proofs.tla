--------------------------- MODULE LongPoll_proofs ---------------------------
(***************************************************************************)
(* No update is lost by a long-poll source, for every value of the         *)
(* constants.  The server forgets what a request's offset says, so the     *)
(* invariant follows the offset to where it comes from: the batch.         *)
(***************************************************************************)
EXTENDS LongPoll, TLAPS

\* The updates below n were taken by the sink.
TakenBelow(n) == \A k \in Nat : 1 <= k /\ k < n => k \in admitted

PollTypeOK ==
    /\ arrived \in Nat /\ confirmed \in Nat /\ offset \in Nat
    /\ ghosts \subseteq Nat
    /\ batch \in [from : Nat, to : Nat]

\* Nothing that is, or may still be, asked for skips an update: not what the
\* server has forgotten, not the next offset, not the offsets of requests
\* given up, and not the batch being admitted.
PollInv ==
    /\ PollTypeOK
    /\ TakenBelow(confirmed + 1)
    /\ TakenBelow(offset)
    /\ \A asked \in ghosts : TakenBelow(asked)
    /\ TakenBelow(batch.from)

LEMMA PollInvInit == Init => PollInv
  BY DEF Init, PollInv, PollTypeOK, TakenBelow, NoBatch

\* A request with an offset below which everything was taken makes the
\* server forget only what was taken.
LEMMA ForgetSound ==
    ASSUME NEW asked \in Nat, confirmed \in Nat,
           TakenBelow(asked), TakenBelow(confirmed + 1)
    PROVE  Forget(asked) \in Nat /\ TakenBelow(Forget(asked) + 1)
  BY DEF Forget, TakenBelow

\* The request under way is given up.
LEMMA AbandonSound ==
    ASSUME PollInv, Abandon,
           UNCHANGED <<arrived, confirmed, offset, admitted>>
    PROVE  PollInv'
  BY DEF PollInv, PollTypeOK, TakenBelow, Abandon, NoBatch

LEMMA ServeSound == ASSUME PollInv, Serve PROVE PollInv'
<1>1. CASE hook
  BY <1>1 DEF PollInv, PollTypeOK, TakenBelow, Serve, runVars
<1>2. CASE ~hook
  <2>1. Forget(offset) \in Nat /\ TakenBelow(Forget(offset) + 1)
    BY ForgetSound DEF PollInv, PollTypeOK
  <2>2. /\ confirmed' = Forget(offset)
        /\ batch' = [from |-> Forget(offset) + 1,
                     to |-> IF Forget(offset) + 1 + Limit - 1 < arrived
                            THEN Forget(offset) + 1 + Limit - 1 ELSE arrived]
        /\ UNCHANGED <<arrived, ghosts, offset, admitted>>
    BY <1>2 DEF Serve, runVars
  <2>3. PollTypeOK'
    BY <2>1, <2>2, LongPollAssumption DEF PollInv, PollTypeOK
  <2>4. batch'.from = Forget(offset) + 1
    BY <2>2
  <2> QED
    BY <2>1, <2>2, <2>3, <2>4 DEF PollInv, TakenBelow
<1> QED
  BY <1>1, <1>2

LEMMA ServeGhostSound ==
    ASSUME PollInv, NEW asked \in ghosts, ServeGhost(asked) PROVE PollInv'
<1>1. asked \in Nat /\ Forget(asked) \in Nat /\ TakenBelow(Forget(asked) + 1)
  BY ForgetSound DEF PollInv, PollTypeOK
<1>2. confirmed' \in {confirmed, Forget(asked)} /\ ghosts' \subseteq ghosts
  BY DEF ServeGhost
<1>3. UNCHANGED <<arrived, offset, batch, admitted>>
  BY DEF ServeGhost, runVars
<1> QED
  BY <1>1, <1>2, <1>3 DEF PollInv, PollTypeOK, TakenBelow

\* The next update of the batch is taken before the offset passes it.
LEMMA TakeSound == ASSUME PollInv, Take PROVE PollInv'
<1>1. /\ admitted' = admitted \cup {batch.from}
      /\ offset' = batch.from + 1
      /\ \/ batch' = [batch EXCEPT !.from = @ + 1]
         \/ batch' = NoBatch
      /\ UNCHANGED <<arrived, confirmed, ghosts>>
  BY DEF Take, NextOfBatch, serverVars
<1>2. batch.from \in Nat /\ batch'.from \in {1, batch.from + 1}
  BY <1>1 DEF PollInv, PollTypeOK, NoBatch
<1>3. PollTypeOK'
  BY <1>1 DEF PollInv, PollTypeOK, NoBatch
<1>4. \A k \in Nat : 1 <= k /\ k <= batch.from => k \in admitted'
  BY <1>1, <1>2 DEF PollInv, TakenBelow
<1> QED
  BY <1>1, <1>2, <1>3, <1>4 DEF PollInv, PollTypeOK, TakenBelow

LEMMA PollInvStep == PollInv /\ [Next]_vars => PollInv'
<1> SUFFICES ASSUME PollInv, [Next]_vars PROVE PollInv'
  OBVIOUS
<1> USE DEF serverVars, runVars, drainVars
<1>1. CASE Arrive
  BY <1>1 DEF Arrive, PollInv, PollTypeOK, TakenBelow
<1>2. CASE Serve
  BY <1>2, ServeSound
<1>3. CASE \E asked \in ghosts : ServeGhost(asked)
  BY <1>3, ServeGhostSound
<1>4. CASE Identify
  BY <1>4 DEF Identify, PollInv, PollTypeOK, TakenBelow
<1>5. CASE GiveUp
  BY <1>5, AbandonSound DEF GiveUp
<1>6. CASE PollFails
  BY <1>6, AbandonSound DEF PollFails
<1>7. CASE Stopped
  BY <1>7, AbandonSound DEF Stopped
<1>8. CASE Take
  BY <1>8, TakeSound
<1>9. CASE Panic
  BY <1>9 DEF Panic, PollInv, PollTypeOK, TakenBelow, NoBatch
<1>10. CASE \/ SetWebhook \/ IdentifyFails \/ DeleteWebhook
            \/ DeleteWebhookFails \/ Poll \/ Answer \/ AnswerWebhook \/ Waited
            \/ Refuse \/ Retry \/ Resumed \/ Elapse \/ Restart \/ Operator
            \/ UNCHANGED vars
  <2>1. UNCHANGED <<arrived, confirmed, offset, ghosts, batch, admitted>>
    BY <1>10 DEF SetWebhook, IdentifyFails, DeleteWebhook, DeleteWebhookFails,
       Poll, Answer, AnswerWebhook, Waited, Refuse, Retry, Resumed, Elapse,
       Restart, Operator, DrainBegins, DrainOn, DrainReturns, DrainCalledOff,
       StopSource, vars
  <2> QED
    BY <2>1 DEF PollInv, PollTypeOK, TakenBelow
<1> QED
  BY <1>1, <1>2, <1>3, <1>4, <1>5, <1>6, <1>7, <1>8, <1>9, <1>10
     DEF Next, Server, Run

\* NoUpdateLost, for any number of updates, drains, faults and any limit: the
\* Bot API server forgets an update only after the sink took it.
THEOREM LosesNothing == Spec => []NoUpdateLost
<1>1. PollInv => NoUpdateLost
  BY DEF PollInv, PollTypeOK, TakenBelow, NoUpdateLost
<1> QED
  BY <1>1, PollInvInit, PollInvStep, PTL DEF Spec
-----------------------------------------------------------------------------
\* A drain is under way that found the source done with earlier ones.
Fresh == drain.pc # "none" /\ drain.fresh

DrainTypeOK ==
    /\ drain \in [pc : {"none", "begun", "waiting", "returned"},
                  notified : BOOLEAN, before : Nat, fresh : BOOLEAN]
    /\ drain.before <= arrived

\* A drain's poll that is under way was sent after a fresh drain turned on
\* on, so the empty batch that answers it, and only that, ends the drain;
\* the source is held from then on, because on stays true.
DrainInv ==
    /\ DrainTypeOK
    /\ wire # "none" => pc = "poll"
    /\ on <=> drain.pc \in {"waiting", "returned"}
    /\ Fresh /\ draining /\ pc = "poll" => on
    /\ Fresh /\ draining /\ wire = "batch" /\ batch.to < batch.from =>
           drain.before < batch.from
    /\ pc = "hold" => draining
    /\ Fresh /\ ~drain.notified => pc # "hold"
    /\ Fresh /\ drain.notified =>
           on /\ pc \in {"hold", "done"} /\ TakenBelow(drain.before + 1)
    /\ drain.pc = "returned" => drain.notified

LEMMA DrainInvInit == Init => DrainInv
  BY DEF Init, DrainInv, DrainTypeOK, Fresh, NoDrain

LEMMA DrainInvStep == PollInv /\ DrainInv /\ [Next]_vars => DrainInv'
<1> SUFFICES ASSUME PollInv, DrainInv, [Next]_vars PROVE DrainInv'
  OBVIOUS
<1> USE DEF serverVars, runVars, drainVars, DrainInv, DrainTypeOK, Fresh,
       PollInv, PollTypeOK, TakenBelow
<1>1. CASE Arrive
  BY <1>1 DEF Arrive
<1>2. CASE Serve
  BY <1>2, LongPollAssumption DEF Serve, Forget
<1>3. CASE \E asked \in ghosts : ServeGhost(asked)
  BY <1>3 DEF ServeGhost
<1>4. CASE SetWebhook
  BY <1>4 DEF SetWebhook
<1>5. CASE Identify
  BY <1>5 DEF Identify
<1>6. CASE IdentifyFails
  BY <1>6 DEF IdentifyFails
<1>7. CASE DeleteWebhook
  BY <1>7 DEF DeleteWebhook
<1>8. CASE DeleteWebhookFails
  BY <1>8 DEF DeleteWebhookFails
<1>9. CASE Poll
  BY <1>9 DEF Poll
<1>10. CASE GiveUp
  BY <1>10 DEF GiveUp, Abandon
<1>11. CASE Answer
  <2>1. /\ pc = "poll" /\ wire = "batch" /\ wire' = "none"
        /\ UNCHANGED <<arrived, batch, draining, on, admitted>>
    BY <1>11 DEF Answer
  <2>2. CASE UNCHANGED drain
    <3>1. pc' \in {"admit", "hold", "top"}
      BY <1>11 DEF Answer
    <3>2. Fresh => ~drain.notified
      BY <2>1
    <3>3. ASSUME Fresh PROVE pc' # "hold"
      <4>1. SUFFICES ASSUME pc' = "hold" PROVE FALSE
        OBVIOUS
      <4>2. Report
        BY <1>11, <4>1 DEF Answer
      <4>3. drain.pc \in {"begun", "waiting"}
        BY <3>2, <3>3
      <4>4. drain'.notified
        BY <4>2, <4>3 DEF Report
      <4> QED
        BY <2>2, <3>2, <3>3, <4>4
    <3>4. pc' = "hold" => draining
      BY <1>11 DEF Answer
    <3> QED
      BY <2>1, <2>2, <3>1, <3>2, <3>3, <3>4
  <2>3. CASE ~(UNCHANGED drain)
    <3>1. pc' = "hold" /\ draining /\ batch.to < batch.from /\ Report
      BY <1>11, <2>3 DEF Answer
    <3>2. drain.pc \in {"begun", "waiting"}
      BY <2>3, <3>1 DEF Report
    <3>3. drain' = [drain EXCEPT !.notified = TRUE]
      BY <3>1, <3>2 DEF Report
    <3>4. /\ drain'.notified = TRUE
          /\ drain'.pc = drain.pc /\ drain'.before = drain.before
          /\ drain'.fresh = drain.fresh /\ DrainTypeOK'
      BY <2>1, <3>3
    <3>5. drain.fresh => on /\ TakenBelow(drain.before + 1)
      BY <2>1, <3>1, <3>2
    <3> QED
      BY <2>1, <3>1, <3>2, <3>4, <3>5
  <2> QED
    BY <2>2, <2>3
<1>12. CASE AnswerWebhook
  BY <1>12 DEF AnswerWebhook
<1>13. CASE PollFails
  BY <1>13 DEF PollFails, Abandon
<1>14. CASE Waited
  BY <1>14 DEF Waited
<1>15. CASE Take
  BY <1>15 DEF Take, NextOfBatch
<1>16. CASE Refuse
  BY <1>16 DEF Refuse
<1>17. CASE Retry
  BY <1>17 DEF Retry
<1>18. CASE Resumed
  BY <1>18 DEF Resumed
<1>19. CASE Stopped
  BY <1>19 DEF Stopped, Abandon
<1>20. CASE Panic
  BY <1>20 DEF Panic
<1>21. CASE Elapse
  BY <1>21 DEF Elapse
<1>22. CASE Restart
  BY <1>22 DEF Restart
<1>23. CASE DrainBegins
  <2>1. /\ drain' \in [pc : {"begun"}, notified : {FALSE}, before : {arrived},
                       fresh : BOOLEAN]
        /\ drain'.fresh => ~(draining /\ pc \in {"poll", "hold"})
    BY <1>23 DEF DrainBegins
  <2> QED
    BY <1>23, <2>1 DEF DrainBegins
<1>24. CASE DrainOn
  BY <1>24 DEF DrainOn
<1>25. CASE DrainReturns
  BY <1>25 DEF DrainReturns
<1>26. CASE DrainCalledOff
  BY <1>26 DEF DrainCalledOff, NoDrain
<1>27. CASE StopSource
  BY <1>27 DEF StopSource
<1>28. CASE UNCHANGED vars
  BY <1>28 DEF vars
<1> QED
  BY <1>1, <1>2, <1>3, <1>4, <1>5, <1>6, <1>7, <1>8, <1>9, <1>10, <1>11, <1>12,
     <1>13, <1>14, <1>15, <1>16, <1>17, <1>18, <1>19, <1>20, <1>21, <1>22, <1>23,
     <1>24, <1>25, <1>26, <1>27, <1>28 DEF Next, Server, Run, Operator

LEMMA DrainInvariance == Spec => []DrainInv
  BY PollInvInit, PollInvStep, DrainInvInit, DrainInvStep, PTL DEF Spec

\* DrainDry, for any number of updates, drains, faults and any limit: a drain
\* returns only when every update that had arrived before it was admitted.
THEOREM DrainCorrect == Spec => []DrainDry
<1>1. DrainInv => DrainDry
  BY DEF DrainInv, DrainTypeOK, Fresh, TakenBelow, DrainDry
<1> QED
  BY <1>1, DrainInvariance, PTL

\* HeldAfterDrain and DrainPolls, likewise: a drain that returned leaves the
\* source held, and one that waits does not.
THEOREM HoldCorrect == Spec => [](HeldAfterDrain /\ DrainPolls)
<1>1. DrainInv => HeldAfterDrain /\ DrainPolls
  BY DEF DrainInv, DrainTypeOK, Fresh, HeldAfterDrain, DrainPolls
<1> QED
  BY <1>1, DrainInvariance, PTL
=============================================================================
