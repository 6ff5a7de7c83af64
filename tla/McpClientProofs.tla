-------------------------- MODULE McpClientProofs --------------------------
(***************************************************************************)
(* Proofs about McpClient, for any set of calls and any ids the server uses *)
(* for requests of its own: the safety properties it states.                *)
(***************************************************************************)
EXTENDS McpClient, TLAPS

(***************************************************************************)
(* What is known of one request.  One that has no id is nowhere; one that is *)
(* listed has an empty, open channel; one whose caller has not given up is   *)
(* still going to be told.                                                  *)
(***************************************************************************)
Told(m) ==
  \/ m \in pending \/ inbox[m] # None \/ m \in shut
  \/ reader = "send" /\ found = m

Track(m) ==
  /\ stage[m] = "idle" => id[m] = 0
  /\ id[m] = 0 => /\ m \notin pending \cup shut \cup received
                  /\ inbox[m] = None
                  /\ found # m
                  /\ stage[m] \in {"idle", "failed"}
  /\ m \in pending => inbox[m] = None /\ m \notin shut
  /\ m \in pending => stage[m] \in {"lock", "write", "wait", "forget"}
  /\ stage[m] \in {"lock", "write", "wait"} => Told(m)
  /\ inbox[m] \in {m, Foreign, None}

\* What dispatch has in its hands while it is between the list and the channel.
Hand ==
  /\ found = None <=> reader \in {"read", "done"}
  /\ found # None => found \in Requests /\ found \notin pending \cup shut
  /\ reader = "send" => answer \in {found, Foreign} /\ inbox[found] = None
  /\ reader = "done" => pending = {}

\* Ids are given once, in order.
Numbered == \A m \in Messages : id[m] <= nextID

IInv == TypeOK /\ Numbered /\ Hand /\ \A m \in Requests : Track(m)

\* No message has been sent at first.
LEMMA InitInv == Init => IInv
<1> SUFFICES ASSUME Init PROVE IInv
  OBVIOUS
<1> USE McpAssumption DEF Init, Requests, Messages, Handshake
<1>1. TypeOK
  BY DEF TypeOK
<1>2. Numbered
  BY DEF Numbered
<1>3. Hand
  BY DEF Hand
<1>4. ASSUME NEW m \in Requests PROVE Track(m)
  <2>1. m \in Messages /\ m # None
    OBVIOUS
  <2> QED
    BY <2>1 DEF Track, Told
<1> QED
  BY <1>1, <1>2, <1>3, <1>4 DEF IInv

\* Every step keeps the types, and gives no id twice.
LEMMA TypeStep ==
  ASSUME IInv, [Next]_vars
  PROVE  TypeOK' /\ Numbered'
<1> USE McpAssumption DEF IInv, TypeOK, Numbered, Hand, Track, Requests,
    Messages, Handshake,
  Returned
<1>1. ASSUME NEW m \in Requests, Refuse(m) PROVE (TypeOK' /\ Numbered')
  BY <1>1 DEF Refuse, Step, callVars, readerVars, peerVars, ownerVars
<1>2. ASSUME NEW m \in Requests, Register(m) PROVE (TypeOK' /\ Numbered')
  BY <1>2 DEF Register, Step, FreshID, ReaderGone, callVars, readerVars,
    peerVars, ownerVars
<1>3. CASE Notify
  BY <1>3 DEF Notify, Step, callVars, readerVars, peerVars, ownerVars
<1>4. ASSUME NEW m \in Messages, Lock(m) PROVE (TypeOK' /\ Numbered')
  BY <1>4 DEF Lock, Step, callVars, readerVars, peerVars, ownerVars
<1>5. ASSUME NEW m \in Messages, WriteDone(m) PROVE (TypeOK' /\ Numbered')
  BY <1>5 DEF WriteDone, Step, callVars, readerVars, peerVars, ownerVars
<1>6. ASSUME NEW m \in Messages, WriteFails(m) PROVE (TypeOK' /\ Numbered')
  BY <1>6 DEF WriteFails, Step, callVars, readerVars, peerVars, ownerVars
<1>7. ASSUME NEW m \in Messages, TimeOut(m) PROVE (TypeOK' /\ Numbered')
  BY <1>7 DEF TimeOut, Step, callVars, readerVars, peerVars, ownerVars
<1>8. ASSUME NEW m \in Messages, TakeAnswer(m) PROVE (TypeOK' /\ Numbered')
  BY <1>8 DEF TakeAnswer, Step, Returned, callVars, readerVars, peerVars, ownerVars
<1>9. ASSUME NEW m \in Messages, FindClosed(m) PROVE (TypeOK' /\ Numbered')
  BY <1>9 DEF FindClosed, Step, callVars, readerVars, peerVars, ownerVars
<1>10. ASSUME NEW m \in Messages, Forget(m) PROVE (TypeOK' /\ Numbered')
  BY <1>10 DEF Forget, Step, callVars, readerVars, peerVars, ownerVars
<1>11. CASE ReadResponse
  BY <1>11 DEF ReadResponse, Dispatch, Dispatched, callVars, readerVars,
    peerVars, ownerVars
<1>12. CASE ReadRequest
  BY <1>12 DEF ReadRequest, Dispatch, Dispatched, callVars, readerVars, peerVars,
    ownerVars
<1>13. CASE Send
  BY <1>13 DEF Send, Room, callVars, readerVars, peerVars, ownerVars
<1>14. CASE CloseChannel
  BY <1>14 DEF CloseChannel, callVars, readerVars, peerVars, ownerVars
<1>15. CASE EndOfOutput
  BY <1>15 DEF EndOfOutput, callVars, readerVars, peerVars, ownerVars
<1>16. CASE Owner
  BY <1>16 DEF Owner, Bootstrapped, BootFails, StopServing, CloseStdin,
    KillServer, Reap, OwnerStep,
    callVars, readerVars, peerVars, ownerVars
<1>17. ASSUME NEW m \in Messages, Expire(m) PROVE (TypeOK' /\ Numbered')
  BY <1>17 DEF Expire, callVars, readerVars, peerVars, ownerVars
<1>18. CASE ExpireHandshake
  BY <1>18 DEF ExpireHandshake, callVars, readerVars, peerVars, ownerVars
<1>19. CASE EndJob
  BY <1>19 DEF EndJob, callVars, readerVars, peerVars
<1>20. CASE ServerExit \/ DescendantExit
  BY <1>20 DEF ServerExit, DescendantExit, callVars, readerVars, ownerVars
<1>21. CASE UNCHANGED vars
  BY <1>21 DEF vars, callVars, readerVars, peerVars, ownerVars
<1> QED
  BY <1>1, <1>2, <1>3, <1>4, <1>5, <1>6, <1>7, <1>8, <1>9, <1>10, <1>11, <1>12,
    <1>13, <1>14, <1>15, <1>16, <1>17, <1>18, <1>19, <1>20, <1>21
  DEF Next, Start, Proceed, Reader

\* Every step keeps what dispatch has in hand off the list and off the closed channels.
LEMMA HandStep ==
  ASSUME IInv, [Next]_vars
  PROVE  Hand'
<1> USE McpAssumption DEF IInv, TypeOK, Hand, Track, Requests, Messages, Handshake
<1>1. ASSUME NEW m \in Requests, Refuse(m) PROVE Hand'
  BY <1>1 DEF Refuse, Step, callVars, readerVars, peerVars, ownerVars
<1>2. ASSUME NEW m \in Requests, Register(m) PROVE Hand'
  BY <1>2 DEF Register, Step, FreshID, ReaderGone, callVars, readerVars,
    peerVars, ownerVars
<1>3. CASE Notify
  BY <1>3 DEF Notify, Step, callVars, readerVars, peerVars, ownerVars
<1>4. ASSUME NEW m \in Messages, Lock(m) PROVE Hand'
  BY <1>4 DEF Lock, Step, callVars, readerVars, peerVars, ownerVars
<1>5. ASSUME NEW m \in Messages, WriteDone(m) PROVE Hand'
  BY <1>5 DEF WriteDone, Step, callVars, readerVars, peerVars, ownerVars
<1>6. ASSUME NEW m \in Messages, WriteFails(m) PROVE Hand'
  BY <1>6 DEF WriteFails, Step, callVars, readerVars, peerVars, ownerVars
<1>7. ASSUME NEW m \in Messages, TimeOut(m) PROVE Hand'
  BY <1>7 DEF TimeOut, Step, callVars, readerVars, peerVars, ownerVars
<1>8. ASSUME NEW m \in Messages, TakeAnswer(m) PROVE Hand'
  BY <1>8 DEF TakeAnswer, Step, Returned, callVars, readerVars, peerVars, ownerVars
<1>9. ASSUME NEW m \in Messages, FindClosed(m) PROVE Hand'
  BY <1>9 DEF FindClosed, Step, callVars, readerVars, peerVars, ownerVars
<1>10. ASSUME NEW m \in Messages, Forget(m) PROVE Hand'
  BY <1>10 DEF Forget, Step, callVars, readerVars, peerVars, ownerVars
<1>11. CASE ReadResponse
  BY <1>11 DEF ReadResponse, Dispatch, Dispatched, callVars, readerVars,
    peerVars, ownerVars
<1>12. CASE ReadRequest
  BY <1>12 DEF ReadRequest, Dispatch, Dispatched, callVars, readerVars, peerVars,
    ownerVars
<1>13. CASE Send
  BY <1>13 DEF Send, Room, callVars, readerVars, peerVars, ownerVars
<1>14. CASE CloseChannel
  BY <1>14 DEF CloseChannel, callVars, readerVars, peerVars, ownerVars
<1>15. CASE EndOfOutput
  BY <1>15 DEF EndOfOutput, callVars, readerVars, peerVars, ownerVars
<1>16. CASE Owner
  BY <1>16 DEF Owner, Bootstrapped, BootFails, StopServing, CloseStdin,
    KillServer, Reap, OwnerStep,
    callVars, readerVars, peerVars, ownerVars
<1>17. ASSUME NEW m \in Messages, Expire(m) PROVE Hand'
  BY <1>17 DEF Expire, callVars, readerVars, peerVars, ownerVars
<1>18. CASE ExpireHandshake
  BY <1>18 DEF ExpireHandshake, callVars, readerVars, peerVars, ownerVars
<1>19. CASE EndJob
  BY <1>19 DEF EndJob, callVars, readerVars, peerVars
<1>20. CASE ServerExit \/ DescendantExit
  BY <1>20 DEF ServerExit, DescendantExit, callVars, readerVars, ownerVars
<1>21. CASE UNCHANGED vars
  BY <1>21 DEF vars, callVars, readerVars, peerVars, ownerVars
<1> QED
  BY <1>1, <1>2, <1>3, <1>4, <1>5, <1>6, <1>7, <1>8, <1>9, <1>10, <1>11, <1>12,
    <1>13, <1>14, <1>15, <1>16, <1>17, <1>18, <1>19, <1>20, <1>21
  DEF Next, Start, Proceed, Reader

\* Every step keeps track of every request.
LEMMA TrackStep ==
  ASSUME IInv, [Next]_vars
  PROVE  \A k \in Requests : Track(k)'
<1> SUFFICES ASSUME NEW k \in Requests PROVE Track(k)'
  OBVIOUS
<1> USE McpAssumption DEF IInv, TypeOK, Numbered, Hand, Track, Told, Requests,
    Messages, Handshake
<1>1. ASSUME NEW m \in Requests, Refuse(m) PROVE Track(k)'
  BY <1>1 DEF Refuse, Step, callVars, readerVars, peerVars, ownerVars
<1>2. ASSUME NEW m \in Requests, Register(m) PROVE Track(k)'
  BY <1>2 DEF Register, Step, FreshID, ReaderGone, callVars, readerVars,
    peerVars, ownerVars
<1>3. CASE Notify
  BY <1>3 DEF Notify, Step, callVars, readerVars, peerVars, ownerVars
<1>4. ASSUME NEW m \in Messages, Lock(m) PROVE Track(k)'
  BY <1>4 DEF Lock, Step, callVars, readerVars, peerVars, ownerVars
<1>5. ASSUME NEW m \in Messages, WriteDone(m) PROVE Track(k)'
  BY <1>5 DEF WriteDone, Step, callVars, readerVars, peerVars, ownerVars
<1>6. ASSUME NEW m \in Messages, WriteFails(m) PROVE Track(k)'
  BY <1>6 DEF WriteFails, Step, callVars, readerVars, peerVars, ownerVars
<1>7. ASSUME NEW m \in Messages, TimeOut(m) PROVE Track(k)'
  BY <1>7 DEF TimeOut, Step, callVars, readerVars, peerVars, ownerVars
<1>8. ASSUME NEW m \in Messages, TakeAnswer(m) PROVE Track(k)'
  BY <1>8 DEF TakeAnswer, Step, Returned, callVars, readerVars, peerVars, ownerVars
<1>9. ASSUME NEW m \in Messages, FindClosed(m) PROVE Track(k)'
  BY <1>9 DEF FindClosed, Step, callVars, readerVars, peerVars, ownerVars
<1>10. ASSUME NEW m \in Messages, Forget(m) PROVE Track(k)'
  BY <1>10 DEF Forget, Step, callVars, readerVars, peerVars, ownerVars
<1>11. CASE ReadResponse
  BY <1>11 DEF ReadResponse, Dispatch, Dispatched, callVars, readerVars,
    peerVars, ownerVars
<1>12. CASE ReadRequest
  BY <1>12 DEF ReadRequest, Dispatch, Dispatched, callVars, readerVars, peerVars,
    ownerVars
<1>13. CASE Send
  BY <1>13 DEF Send, Room, callVars, readerVars, peerVars, ownerVars
<1>14. CASE CloseChannel
  BY <1>14 DEF CloseChannel, callVars, readerVars, peerVars, ownerVars
<1>15. CASE EndOfOutput
  BY <1>15 DEF EndOfOutput, callVars, readerVars, peerVars, ownerVars
<1>16. CASE Owner
  BY <1>16 DEF Owner, Bootstrapped, BootFails, StopServing, CloseStdin,
    KillServer, Reap, OwnerStep,
    callVars, readerVars, peerVars, ownerVars
<1>17. ASSUME NEW m \in Messages, Expire(m) PROVE Track(k)'
  BY <1>17 DEF Expire, callVars, readerVars, peerVars, ownerVars
<1>18. CASE ExpireHandshake
  BY <1>18 DEF ExpireHandshake, callVars, readerVars, peerVars, ownerVars
<1>19. CASE EndJob
  BY <1>19 DEF EndJob, callVars, readerVars, peerVars
<1>20. CASE ServerExit \/ DescendantExit
  BY <1>20 DEF ServerExit, DescendantExit, callVars, readerVars, ownerVars
<1>21. CASE UNCHANGED vars
  BY <1>21 DEF vars, callVars, readerVars, peerVars, ownerVars
<1> QED
  BY <1>1, <1>2, <1>3, <1>4, <1>5, <1>6, <1>7, <1>8, <1>9, <1>10, <1>11, <1>12,
    <1>13, <1>14, <1>15, <1>16, <1>17, <1>18, <1>19, <1>20, <1>21
  DEF Next, Start, Proceed, Reader

\* The inductive invariant holds always.
THEOREM McpInvariance == Spec => []IInv
<1>1. ASSUME IInv, [Next]_vars PROVE IInv'
  BY <1>1, TypeStep, HandStep, TrackStep DEF IInv
<1> QED
  BY <1>1, InitInv, PTL DEF Spec

\* Types are kept, and an id belongs to one request only.
THEOREM McpTypesKept == Spec => []TypeOK
<1>1. IInv => TypeOK
  BY DEF IInv
<1> QED
  BY <1>1, McpInvariance, PTL

\* No call is ever handed the response to another (Client.dispatch).
THEOREM AnswersReachTheirCalls == Spec => []AnswersAreOwn
<1>1. IInv => AnswersAreOwn
  BY DEF IInv, Track, AnswersAreOwn
<1> QED
  BY <1>1, McpInvariance, PTL

\* Dispatch and the end of the read loop never send on, or close, a closed channel,
\* and never find one full.
THEOREM ChannelsAreUsedOnce == Spec => []ChannelsUsedOnce
<1>1. IInv => ChannelsUsedOnce
  BY McpAssumption DEF IInv, TypeOK, Hand, Track, ChannelsUsedOnce, Requests,
    Handshake
<1> QED
  BY <1>1, McpInvariance, PTL

\* A call that waits is never forgotten, and leaves nothing listed when it returns.
THEOREM NobodyIsForgotten == Spec => []NoWaiterForgotten
<1>1. IInv => NoWaiterForgotten
  BY DEF IInv, TypeOK, Hand, Track, Told, NoWaiterForgotten
<1> QED
  BY <1>1, McpInvariance, PTL
=============================================================================
