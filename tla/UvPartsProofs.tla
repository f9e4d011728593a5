--------------------------- MODULE UvPartsProofs ---------------------------
(***************************************************************************)
(* Proofs about three parts of libuv and luv.  UvSignal, for any handles,  *)
(* signals and threads and any size of the pipe and of the buffer: the     *)
(* lock, the handlers that are installed, and the close that waits for the *)
(* messages in the pipe.  LuvPool, for any requests, works and contexts:   *)
(* what the pool and the loop use is kept, and what else is.               *)
(* UvWatchers, for any handles: the walk over a list that its callbacks    *)
(* change.                                                                 *)
(***************************************************************************)
EXTENDS UvSignal, Integers, FiniteSetTheorems, TLAPS

\* The loop runs on one of the threads, and the buffer holds a message.
Instance ==
  /\ None \notin Signums /\ None \notin Threads /\ Section \notin Threads
  /\ Loop \in Threads
  /\ PipeSize \in Nat /\ BufSize \in Nat \ {0}

-----------------------------------------------------------------------------
(* The inductive invariant.                                                *)

Message == [handle : Handles, signum : Signums]

Starts == {<<"stop", "start">>, <<"start">>}
Closes == {<<"stop", "close">>, <<"close">>}
Steps == Starts \cup {<<"stop">>} \cup Closes

Calls ==
  {c \in [steps : Steps, handle : Handles, signum : Signums \cup {None}] :
     c.steps \in Starts => c.signum \in Signums}

TypeInv ==
  /\ signum \in [Handles -> Signums \cup {None}]
  /\ tree \subseteq Handles
  /\ caught \in [Handles -> Nat]
  /\ dispatched \in [Handles -> Nat]
  /\ state \in [Handles -> {"open", "closing", "pending", "closed"}]
  /\ pipe \in Seq(Message)
  /\ lock \in Threads \cup {None, Section}
  /\ handler \in [Threads -> [pc : {"none", "lock", "write"},
                              signum : Signums \cup {None}, rest : SUBSET Handles]]
  /\ lpc \in {"run", "lock", "locked", "unlock", "unlocked"}
  /\ todo \in Calls \cup {NoCall}
  /\ buf \in Seq(Message)
  /\ registered \subseteq Signums

Within == {"lock", "locked", "unlock"}

\* The loop is within a section only with signals blocked and no handler of its
\* own thread below it; the lock has one owner, and who walks the tree owns it.
LockInv ==
  /\ lpc # "run" => todo # NoCall /\ Head(todo.steps) \in {"stop", "start"}
  /\ lpc \in Within => masked /\ handler[Loop].pc = "none"
  /\ lock = Section <=> lpc \in {"locked", "unlock"}
  /\ \A t \in Threads : handler[t].pc = "write" <=> lock = t
  /\ \A t \in Threads : handler[t].pc # "write" => handler[t].rest = {}
  /\ \A t \in Threads : handler[t].pc # "none" => handler[t].signum \in Signums
  /\ \A t \in Threads : handler[t].rest \subseteq tree

\* A handle in the tree watches a signal; one that a call is about to start or
\* to close watches none, and one that is being stopped does until the end.
TreeInv ==
  /\ \A h \in tree : signum[h] # None
  /\ registered = {signum[h] : h \in tree}
  /\ todo # NoCall /\ Head(todo.steps) = "start" /\ lpc \in {"run", "lock", "locked"}
       => signum[todo.handle] = None
  /\ todo # NoCall /\ Head(todo.steps) = "close" => signum[todo.handle] = None
  /\ todo # NoCall /\ Head(todo.steps) = "stop" /\ lpc \in {"unlock", "unlocked"}
       => todo.handle \notin tree
  /\ lpc # "run" /\ Head(todo.steps) = "stop" => signum[todo.handle] # None

\* A handle is started and stopped while it is open.  Once its close is past the
\* stop it watches nothing, and once it is pending nothing is in flight.
CloseInv ==
  /\ todo # NoCall => state[todo.handle] = IF todo.steps \in Closes THEN "closing" ELSE "open"
  /\ \A h \in Handles : state[h] # "open" =>
       signum[h] = None \/ (todo # NoCall /\ todo.handle = h)
  /\ \A h \in Handles : state[h] \in {"pending", "closed"} => caught[h] = dispatched[h]

\* The messages read and to be read, in this order, and those of a handle.
Msg(n) == IF n <= Len(buf) THEN buf[n] ELSE pipe[n - Len(buf)]

Named(h) == {n \in 1 .. Len(buf) + Len(pipe) : Msg(n).handle = h}

\* What was caught was dispatched or is in flight.
CountInv ==
  \A h \in Handles : caught[h] = dispatched[h] + Cardinality(Named(h))

Inv == TypeInv /\ LockInv /\ TreeInv /\ CloseInv

-----------------------------------------------------------------------------
(* Every step keeps it.                                                    *)

\* The steps of a call, and what is left after the first of them.
LEMMA StepShapes ==
  /\ \A s \in Steps : Head(s) \in {"stop", "start", "close"} /\ s # << >>
  /\ \A s \in Steps : Len(s) = 1 =>
       s = <<Head(s)>>
  /\ \A s \in Steps : Len(s) # 1 =>
       /\ Head(s) = "stop"
       /\ \/ s \in Starts /\ Tail(s) = <<"start">>
          \/ s \in Closes /\ Tail(s) = <<"close">>
  /\ <<"stop">> \notin Starts \cup Closes
  /\ Starts \cap Closes = {}
  /\ Head(<<"start">>) = "start" /\ Head(<<"close">>) = "close"
  /\ Head(<<"stop">>) = "stop" /\ Head(<<"stop", "start">>) = "stop"
  /\ Head(<<"stop", "close">>) = "stop"
  BY DEF Steps, Starts, Closes

LEMMA NoCallIs ==
  ASSUME NEW c \in Calls
  PROVE  c # NoCall
  BY StepShapes DEF Calls, NoCall

LEMMA NextStepIs ==
  ASSUME TypeInv, todo # NoCall
  PROVE  \/ /\ NextStep = NoCall
            /\ Head(todo.steps) # "stop" \/ todo.steps = <<"stop">>
         \/ /\ NextStep \in Calls /\ NextStep # NoCall
            /\ NextStep.handle = todo.handle
            /\ Head(todo.steps) = "stop"
            /\ \/ todo.steps \in Starts /\ NextStep.steps = <<"start">>
               \/ todo.steps \in Closes /\ NextStep.steps = <<"close">>
<1>1. todo \in Calls /\ todo.steps \in Steps
  BY Zenon DEF TypeInv, Calls
<1>2. CASE Len(todo.steps) = 1
  BY Zenon, <1>1, <1>2, StepShapes DEF NextStep
<1>3. CASE Len(todo.steps) # 1
  <2>1. NextStep = [todo EXCEPT !.steps = Tail(@)]
    BY Zenon, <1>3 DEF NextStep
  <2>2. /\ NextStep.handle = todo.handle /\ NextStep.signum = todo.signum
        /\ NextStep.steps = Tail(todo.steps)
        /\ NextStep = [steps |-> Tail(todo.steps), handle |-> todo.handle,
                       signum |-> todo.signum]
    BY Zenon, <1>1, <2>1 DEF Calls
  <2>3. Tail(todo.steps) \in Steps
    BY Zenon, <1>1, <1>3, StepShapes DEF Steps, Starts, Closes
  <2>4. Tail(todo.steps) \in Starts => todo.steps \in Starts
    BY Zenon, <1>1, <1>3, StepShapes DEF Starts, Closes
  <2>5. NextStep \in Calls
    BY Zenon, <1>1, <2>2, <2>3, <2>4 DEF Calls
  <2> QED
    BY Zenon, <1>1, <1>3, <2>2, <2>5, NoCallIs, StepShapes
<1> QED
  BY Zenon, <1>2, <1>3

LEMMA InitInv ==
  ASSUME Instance, Init
  PROVE  Inv
<1> USE DEF Instance, None, Section, Init
<1>1. TypeInv
  BY DEF TypeInv, NoHandler
<1>2. LockInv
  BY Zenon DEF LockInv, NoHandler, Within
<1>3. TreeInv
  BY Zenon DEF TreeInv
<1>4. CloseInv
  BY Zenon DEF CloseInv
<1> QED
  BY Zenon, <1>1, <1>2, <1>3, <1>4 DEF Inv

\* The positions of a handle's messages are finitely many.
LEMMA NamedFinite ==
  ASSUME TypeInv, NEW h \in Handles
  PROVE  /\ IsFiniteSet(Named(h)) /\ Cardinality(Named(h)) \in Nat
         /\ Named(h) \subseteq Nat \ {0}
         /\ Named(h) # {} => Cardinality(Named(h)) # 0
<1>1. Len(buf) + Len(pipe) \in Nat
  BY DEF TypeInv
<1>2. IsFiniteSet(1 .. Len(buf) + Len(pipe))
  BY <1>1, FS_Interval
<1>3. Named(h) \subseteq 1 .. Len(buf) + Len(pipe)
  BY Zenon DEF Named
<1>4. IsFiniteSet(Named(h))
  BY Zenon, <1>2, <1>3, FS_Subset
<1> QED
  BY <1>1, <1>3, <1>4, FS_CardinalityType, FS_EmptySet

\* The handle of a message that was read is owed its dispatch.
LEMMA HeadCounted ==
  ASSUME TypeInv, CountInv, buf # << >>
  PROVE  caught[Head(buf).handle] # dispatched[Head(buf).handle]
<1> DEFINE h == Head(buf).handle
<1>1. Head(buf) \in Message /\ Len(buf) \in Nat \ {0} /\ Len(pipe) \in Nat
      /\ buf[1] = Head(buf)
  BY DEF TypeInv
<1>2. h \in Handles
  BY Zenon, <1>1 DEF Message
<1>3. 1 \in Named(h)
  BY <1>1 DEF Named, Msg
<1>4. Cardinality(Named(h)) \in Nat \ {0}
  BY Zenon, <1>2, <1>3, NamedFinite
<1> HIDE DEF h
<1>5. caught[h] # dispatched[h]
  BY <1>2, <1>4 DEF CountInv, TypeInv
<1> QED
  BY Zenon, <1>5 DEF h

LEMMA DeliverKeeps ==
  ASSUME Instance, Inv, NEW t \in Threads, NEW s \in Signums, Deliver(t, s)
  PROVE  Inv'
<1> USE DEF Instance, None, Section, Deliver
<1>1. TypeInv'
  BY Zenon DEF Inv, TypeInv
<1>2. LockInv'
  BY DEF Inv, TypeInv, LockInv, Within
<1>3. TreeInv'
  BY DEF Inv, TypeInv, LockInv, TreeInv
<1>4. CloseInv'
  BY Zenon DEF Inv, TypeInv, LockInv, TreeInv, CloseInv
<1> QED
  BY Zenon, <1>1, <1>2, <1>3, <1>4 DEF Inv

LEMMA HandlerLockKeeps ==
  ASSUME Instance, Inv, NEW t \in Threads, HandlerLock(t)
  PROVE  Inv'
<1> USE DEF Instance, None, Section, HandlerLock, Watching
<1>5. /\ handler'[t] = [handler[t] EXCEPT !.pc = "write",
                                          !.rest = Watching(handler[t].signum)]
      /\ \A u \in Threads \ {t} : handler'[u] = handler[u]
  BY Zenon DEF Inv, TypeInv
<1>6. /\ handler[t] \in [pc : {"none", "lock", "write"},
                         signum : Signums \cup {None}, rest : SUBSET Handles]
      /\ handler'[t].pc = "write" /\ handler'[t].rest \subseteq tree
      /\ DOMAIN handler' = Threads
  BY <1>5 DEF Inv, TypeInv
<1>1. TypeInv'
  BY Zenon, <1>5, <1>6 DEF Inv, TypeInv
<1>2. LockInv'
  BY <1>5, <1>6 DEF Inv, TypeInv, LockInv, Within
<1>3. TreeInv'
  BY DEF Inv, TypeInv, LockInv, TreeInv
<1>4. CloseInv'
  BY Zenon DEF Inv, TypeInv, LockInv, TreeInv, CloseInv
<1> QED
  BY Zenon, <1>1, <1>2, <1>3, <1>4 DEF Inv

LEMMA HandlerWriteKeeps ==
  ASSUME Instance, Inv, NEW t \in Threads, NEW h \in Handles, HandlerWrite(t, h)
  PROVE  Inv'
<1> USE DEF Instance, None, Section, HandlerWrite, CountWritten
<1>5. /\ handler[t] \in [pc : {"none", "lock", "write"},
                         signum : Signums \cup {None}, rest : SUBSET Handles]
      /\ handler'[t] = [handler[t] EXCEPT !.rest = @ \ {h}]
      /\ \A u \in Threads \ {t} : handler'[u] = handler[u]
  BY Zenon DEF Inv, TypeInv
<1>6. pipe' \in Seq(Message)
  <2>1. handler[t].signum \in Signums
    BY Zenon DEF Inv, TypeInv, LockInv
  <2>2. [handle |-> h, signum |-> handler[t].signum] \in Message
    BY Zenon, <2>1 DEF Message
  <2> QED
    BY <2>2 DEF Inv, TypeInv
<1>7. caught' \in [Handles -> Nat]
  BY DEF Inv, TypeInv
<1>1. TypeInv'
  BY Zenon, <1>5, <1>6, <1>7 DEF Inv, TypeInv
<1>2. LockInv'
  BY DEF Inv, TypeInv, LockInv, Within
<1>3. TreeInv'
  BY DEF Inv, TypeInv, LockInv, TreeInv
<1>4. CloseInv'
  BY DEF Inv, TypeInv, LockInv, TreeInv, CloseInv
<1> QED
  BY Zenon, <1>1, <1>2, <1>3, <1>4 DEF Inv

LEMMA HandlerReturnsKeeps ==
  ASSUME Instance, Inv, NEW t \in Threads, HandlerReturns(t)
  PROVE  Inv'
<1> USE DEF Instance, None, Section, HandlerReturns, NoHandler
<1>1. TypeInv'
  BY Zenon DEF Inv, TypeInv
<1>5. /\ handler'[t] = NoHandler
      /\ \A u \in Threads \ {t} : handler'[u] = handler[u]
  BY Zenon DEF Inv, TypeInv
<1>2. LockInv'
  BY <1>5 DEF Inv, TypeInv, LockInv, Within
<1>3. TreeInv'
  BY DEF Inv, TypeInv, LockInv, TreeInv
<1>4. CloseInv'
  BY Zenon DEF Inv, TypeInv, LockInv, TreeInv, CloseInv
<1> QED
  BY Zenon, <1>1, <1>2, <1>3, <1>4 DEF Inv

LEMMA uv_signal_startKeeps ==
  ASSUME Instance, Inv, NEW h \in Handles, NEW s \in Signums, uv_signal_start(h, s)
  PROVE  Inv'
<1> USE DEF Instance, None, Section, uv_signal_start, Call, Script
<1>5. todo' \in Calls /\ todo' # NoCall
  BY Zenon, NoCallIs, StepShapes DEF Calls, Steps, Starts, Closes
<1>1. TypeInv'
  BY Zenon, <1>5 DEF Inv, TypeInv
<1>2. LockInv'
  BY Zenon, <1>5, StepShapes DEF Starts, Closes, Inv, TypeInv, LockInv, Within
<1>3. TreeInv'
  BY <1>5, StepShapes DEF Starts, Closes, Inv, TypeInv, LockInv, TreeInv
<1>4. CloseInv'
  BY Zenon, <1>5, StepShapes DEF Starts, Closes, Inv, TypeInv, LockInv, TreeInv, CloseInv
<1> QED
  BY Zenon, <1>1, <1>2, <1>3, <1>4 DEF Inv

LEMMA uv_signal_stopKeeps ==
  ASSUME Instance, Inv, NEW h \in Handles, uv_signal_stop(h)
  PROVE  Inv'
<1> USE DEF Instance, None, Section, uv_signal_stop, Call, Script
<1>5. todo' \in Calls /\ todo' # NoCall
  BY Zenon, NoCallIs, StepShapes DEF Calls, Steps, Starts, Closes
<1>1. TypeInv'
  BY Zenon, <1>5 DEF Inv, TypeInv
<1>2. LockInv'
  BY Zenon, <1>5, StepShapes DEF Starts, Closes, Inv, TypeInv, LockInv, Within
<1>3. TreeInv'
  BY <1>5, StepShapes DEF Starts, Closes, Inv, TypeInv, LockInv, TreeInv
<1>4. CloseInv'
  BY Zenon, <1>5, StepShapes DEF Starts, Closes, Inv, TypeInv, LockInv, TreeInv, CloseInv
<1> QED
  BY Zenon, <1>1, <1>2, <1>3, <1>4 DEF Inv

LEMMA uv_closeKeeps ==
  ASSUME Instance, Inv, NEW h \in Handles, uv_close(h)
  PROVE  Inv'
<1> USE DEF Instance, None, Section, uv_close, Call, Script
<1>5. todo' \in Calls /\ todo' # NoCall
  BY Zenon, NoCallIs, StepShapes DEF Calls, Steps, Starts, Closes
<1>1. TypeInv'
  BY Zenon, <1>5 DEF Inv, TypeInv
<1>2. LockInv'
  BY Zenon, <1>5, StepShapes DEF Starts, Closes, Inv, TypeInv, LockInv, Within
<1>3. TreeInv'
  BY <1>5, StepShapes DEF Starts, Closes, Inv, TypeInv, LockInv, TreeInv
<1>4. CloseInv'
  BY <1>5, StepShapes DEF Starts, Closes, Inv, TypeInv, LockInv, TreeInv, CloseInv
<1> QED
  BY Zenon, <1>1, <1>2, <1>3, <1>4 DEF Inv

LEMMA SkipStopKeeps ==
  ASSUME Instance, Inv, SkipStop
  PROVE  Inv'
<1> USE DEF Instance, None, Section, SkipStop, At
<1>5. lpc = "run" /\ todo # NoCall
  BY Zenon DEF Inv, TreeInv
<1>1. TypeInv'
  BY Zenon, NextStepIs, StepShapes DEF Inv, TypeInv
<1>2. LockInv'
  BY Zenon, <1>5, NextStepIs, StepShapes DEF Inv, TypeInv, LockInv, Within
<1>3. TreeInv'
  BY <1>5, NextStepIs, StepShapes DEF Inv, TypeInv, LockInv, TreeInv
<1>4. CloseInv'
  BY Zenon, <1>5, NextStepIs, StepShapes DEF Inv, TypeInv, CloseInv, Starts, Closes
<1> QED
  BY Zenon, <1>1, <1>2, <1>3, <1>4 DEF Inv

LEMMA BlockKeeps ==
  ASSUME Instance, Inv, Block
  PROVE  Inv'
<1> USE DEF Instance, None, Section, Block, At, Running
<1>1. TypeInv'
  BY Zenon DEF Inv, TypeInv
<1>2. LockInv'
  BY Zenon DEF Inv, TypeInv, LockInv, Within
<1>3. TreeInv'
  BY DEF Inv, TypeInv, LockInv, TreeInv
<1>4. CloseInv'
  BY Zenon DEF Inv, TypeInv, LockInv, TreeInv, CloseInv
<1> QED
  BY Zenon, <1>1, <1>2, <1>3, <1>4 DEF Inv

LEMMA uv__signal_lockKeeps ==
  ASSUME Instance, Inv, uv__signal_lock
  PROVE  Inv'
<1> USE DEF Instance, None, Section, uv__signal_lock, Running
<1>1. TypeInv'
  BY Zenon DEF Inv, TypeInv
<1>2. LockInv'
  BY DEF Inv, TypeInv, LockInv, Within
<1>3. TreeInv'
  BY DEF Inv, TypeInv, LockInv, TreeInv
<1>4. CloseInv'
  BY Zenon DEF Inv, TypeInv, LockInv, TreeInv, CloseInv
<1> QED
  BY Zenon, <1>1, <1>2, <1>3, <1>4 DEF Inv

LEMMA InsertKeeps ==
  ASSUME Instance, Inv, Insert
  PROVE  Inv'
<1> USE DEF Instance, None, Section, Insert, At
<1>5. todo.signum \in Signums /\ todo.handle \in Handles
  BY Zenon, StepShapes DEF Inv, TypeInv, Calls, Steps, Starts, Closes
<1>1. TypeInv'
  BY Zenon, <1>5 DEF Inv, TypeInv
<1>2. LockInv'
  BY Zenon DEF Inv, TypeInv, LockInv, Within
<1>3. TreeInv'
  <2>1. todo.handle \notin tree
    BY Zenon DEF Inv, TreeInv
  <2>2. \A h \in tree : signum'[h] = signum[h]
    BY Zenon, <2>1 DEF Inv, TypeInv
  <2>3. signum'[todo.handle] = todo.signum
    BY Zenon, <1>5 DEF Inv, TypeInv
  <2>4. registered' = {signum'[h] : h \in tree'}
    BY <1>5, <2>2, <2>3 DEF Inv, TreeInv
  <2> QED
    BY Zenon, <1>5, <2>2, <2>3, <2>4 DEF Inv, TreeInv
<1>4. CloseInv'
  BY DEF Inv, TypeInv, LockInv, TreeInv, CloseInv
<1> QED
  BY Zenon, <1>1, <1>2, <1>3, <1>4 DEF Inv

LEMMA RegisterFailsKeeps ==
  ASSUME Instance, Inv, RegisterFails
  PROVE  Inv'
<1> USE DEF Instance, None, Section, RegisterFails, At
<1>1. TypeInv'
  BY Zenon DEF Inv, TypeInv
<1>2. LockInv'
  BY Zenon DEF Inv, TypeInv, LockInv, Within
<1>3. TreeInv'
  BY DEF Inv, TypeInv, LockInv, TreeInv
<1>4. CloseInv'
  BY Zenon DEF Inv, TypeInv, LockInv, TreeInv, CloseInv
<1> QED
  BY Zenon, <1>1, <1>2, <1>3, <1>4 DEF Inv

LEMMA RemoveKeeps ==
  ASSUME Instance, Inv, Remove
  PROVE  Inv'
<1> USE DEF Instance, None, Section, Remove, At, Unregister, Watching
<1>1. TypeInv'
  BY Zenon DEF Inv, TypeInv
<1>2. LockInv'
  BY ZenonT(40) DEF Inv, TypeInv, LockInv, Within
<1>3. TreeInv'
  BY DEF Inv, TypeInv, LockInv, TreeInv
<1>4. CloseInv'
  BY Zenon DEF Inv, TypeInv, LockInv, TreeInv, CloseInv
<1> QED
  BY Zenon, <1>1, <1>2, <1>3, <1>4 DEF Inv

LEMMA uv__signal_unlock_and_unblockKeeps ==
  ASSUME Instance, Inv, uv__signal_unlock_and_unblock
  PROVE  Inv'
<1> USE DEF Instance, None, Section, uv__signal_unlock_and_unblock, Running
<1>1. TypeInv'
  BY Zenon DEF Inv, TypeInv
<1>2. LockInv'
  BY DEF Inv, TypeInv, LockInv, Within
<1>3. TreeInv'
  BY DEF Inv, TypeInv, LockInv, TreeInv
<1>4. CloseInv'
  BY Zenon DEF Inv, TypeInv, LockInv, TreeInv, CloseInv
<1> QED
  BY Zenon, <1>1, <1>2, <1>3, <1>4 DEF Inv

LEMMA EndSectionKeeps ==
  ASSUME Instance, Inv, EndSection
  PROVE  Inv'
<1> USE DEF Instance, None, Section, EndSection, Running
<1>5. todo # NoCall /\ todo \in Calls /\ todo.handle \in Handles
      /\ Head(todo.steps) \in {"stop", "start"}
  BY Zenon DEF Inv, TypeInv, LockInv, Calls
<1>6. /\ signum' \in [Handles -> Signums \cup {None}]
      /\ Head(todo.steps) = "stop" => signum'[todo.handle] = None
      /\ \A h \in Handles :
           h # todo.handle \/ Head(todo.steps) # "stop" => signum'[h] = signum[h]
  BY Zenon, <1>5 DEF Inv, TypeInv
<1>7. /\ todo' \in Calls \cup {NoCall}
      /\ \/ /\ todo' = NoCall
            /\ Head(todo.steps) # "stop" \/ todo.steps = <<"stop">>
         \/ /\ todo' # NoCall /\ Head(todo.steps) = "stop"
            /\ todo'.handle = todo.handle
            /\ \/ todo.steps \in Starts /\ todo'.steps = <<"start">>
               \/ todo.steps \in Closes /\ todo'.steps = <<"close">>
  BY Zenon, <1>5, NextStepIs DEF Inv
<1>1. TypeInv'
  BY Zenon, <1>6, <1>7 DEF Inv, TypeInv
<1>2. LockInv'
  BY Zenon DEF Inv, TypeInv, LockInv, Within
<1>3. TreeInv'
  <2>1. \A h \in tree : signum'[h] = signum[h]
    BY Zenon, <1>5, <1>6 DEF Inv, TypeInv, TreeInv
  <2>2. registered' = {signum'[h] : h \in tree'}
    BY <2>1 DEF Inv, TreeInv
  <2>3. todo' # NoCall =>
          /\ signum'[todo'.handle] = None
          /\ Head(todo'.steps) # "stop"
    BY Zenon, <1>6, <1>7, StepShapes
  <2> QED
    BY Zenon, <2>1, <2>2, <2>3 DEF Inv, TreeInv
<1>4. CloseInv'
  <2>1. todo' # NoCall => state[todo'.handle] = IF todo'.steps \in Closes
                                               THEN "closing" ELSE "open"
    BY Zenon, <1>5, <1>7, StepShapes DEF Inv, CloseInv, Starts, Closes
  <2>2. ASSUME NEW h \in Handles, state[h] # "open"
        PROVE  signum'[h] = None \/ (todo' # NoCall /\ todo'.handle = h)
    <3>1. CASE h = todo.handle /\ Head(todo.steps) = "stop"
      BY Zenon, <1>6, <3>1
    <3>2. CASE h = todo.handle /\ Head(todo.steps) = "start"
      BY Zenon, <1>5, <2>2, <3>2, StepShapes
         DEF Inv, CloseInv, Calls, Steps, Starts, Closes
    <3>3. CASE h # todo.handle
      BY Zenon, <1>6, <2>2, <3>3 DEF Inv, CloseInv
    <3> QED
      BY Zenon, <1>5, <3>1, <3>2, <3>3
  <2> QED
    BY Zenon, <2>1, <2>2 DEF Inv, CloseInv
<1> QED
  BY Zenon, <1>1, <1>2, <1>3, <1>4 DEF Inv

LEMMA uv__signal_closeKeeps ==
  ASSUME Instance, Inv, uv__signal_close
  PROVE  Inv'
<1> USE DEF Instance, None, Section, uv__signal_close, At, NoneTrapped
<1>1. TypeInv'
  BY Zenon, NextStepIs, StepShapes DEF Inv, TypeInv
<1>2. LockInv'
  BY Zenon, NextStepIs, StepShapes DEF Inv, TypeInv, LockInv, Within
<1>3. TreeInv'
  BY NextStepIs, StepShapes DEF Inv, TypeInv, LockInv, TreeInv
<1>4. CloseInv'
  BY NextStepIs, StepShapes DEF Inv, TypeInv, LockInv, TreeInv, CloseInv
<1> QED
  BY Zenon, <1>1, <1>2, <1>3, <1>4 DEF Inv

LEMMA ReadPipeKeeps ==
  ASSUME Instance, Inv, ReadPipe
  PROVE  Inv'
<1> USE DEF Instance, None, Section, ReadPipe, Idle
<1>1. TypeInv'
  BY DEF Inv, TypeInv
<1>2. LockInv'
  BY Zenon DEF Inv, TypeInv, LockInv, Within
<1>3. TreeInv'
  BY DEF Inv, TypeInv, LockInv, TreeInv
<1>4. CloseInv'
  BY Zenon DEF Inv, TypeInv, LockInv, TreeInv, CloseInv
<1> QED
  BY Zenon, <1>1, <1>2, <1>3, <1>4 DEF Inv

LEMMA DispatchKeeps ==
  ASSUME Instance, Inv, Dispatch
  PROVE  Inv'
<1> USE DEF Instance, None, Section, Dispatch
<1>1. TypeInv'
  BY Zenon DEF Inv, TypeInv
<1>2. LockInv'
  BY Zenon DEF Inv, TypeInv, LockInv, Within
<1>3. TreeInv'
  BY DEF Inv, TypeInv, LockInv, TreeInv
<1>4. CloseInv'
  BY Zenon DEF Inv, TypeInv, LockInv, TreeInv, CloseInv
<1> QED
  BY Zenon, <1>1, <1>2, <1>3, <1>4 DEF Inv

LEMMA DispatchedKeeps ==
  ASSUME Instance, Inv, CountInv, Dispatched
  PROVE  Inv'
<1> USE DEF Instance, None, Section, Dispatched, NoneTrapped
<1> DEFINE g == Head(buf).handle
<1>5. g \in Handles /\ Tail(buf) \in Seq(Message)
  <2>1. Head(buf) \in Message /\ Tail(buf) \in Seq(Message)
    BY DEF Inv, TypeInv
  <2> QED
    BY Zenon, <2>1 DEF Message
<1>6. /\ state' \in [Handles -> {"open", "closing", "pending", "closed"}]
      /\ dispatched' \in [Handles -> Nat] /\ dispatched'[g] = dispatched[g] + 1
      /\ \A h \in Handles \ {g} :
           state'[h] = state[h] /\ dispatched'[h] = dispatched[h]
  BY <1>5 DEF Inv, TypeInv
<1>7. /\ state'[g] = IF state[g] # "open" /\ caught[g] = dispatched[g] + 1
                     THEN "pending" ELSE state[g]
  BY Zenon, <1>5 DEF Inv, TypeInv
<1> HIDE DEF g
<1>1. TypeInv'
  BY Zenon, <1>5, <1>6 DEF Inv, TypeInv
<1>2. LockInv'
  BY Zenon DEF Inv, TypeInv, LockInv, Within
<1>3. TreeInv'
  BY DEF Inv, TypeInv, LockInv, TreeInv
<1>4. CloseInv'
  <2>1. caught[g] # dispatched[g]
    BY Zenon, HeadCounted DEF Inv, g
  <2>2. \A h \in Handles : state[h] # "open" => signum[h] = None
    BY Zenon DEF Inv, CloseInv
  <2>3. state[g] \notin {"pending", "closed"}
    BY Zenon, <1>5, <2>1 DEF Inv, CloseInv
  <2>4. ASSUME NEW h \in Handles, state'[h] \in {"pending", "closed"}
        PROVE  caught[h] = dispatched'[h]
    BY <1>5, <1>6, <1>7, <2>3, <2>4 DEF Inv, CloseInv
  <2>5. \A h \in Handles : state'[h] # "open" => state[h] # "open"
    BY Zenon, <1>5, <1>6, <1>7
  <2> QED
    BY Zenon, <2>2, <2>4, <2>5 DEF Inv, CloseInv
<1> QED
  BY Zenon, <1>1, <1>2, <1>3, <1>4 DEF Inv

LEMMA FinishCloseKeeps ==
  ASSUME Instance, Inv, NEW h \in Handles, FinishClose(h)
  PROVE  Inv'
<1> USE DEF Instance, None, Section, FinishClose, Idle
<1>1. TypeInv'
  BY Zenon DEF Inv, TypeInv
<1>2. LockInv'
  BY Zenon DEF Inv, TypeInv, LockInv, Within
<1>3. TreeInv'
  BY DEF Inv, TypeInv, LockInv, TreeInv
<1>4. CloseInv'
  BY DEF Inv, TypeInv, LockInv, TreeInv, CloseInv
<1> QED
  BY Zenon, <1>1, <1>2, <1>3, <1>4 DEF Inv

-----------------------------------------------------------------------------
(* What was caught is dispatched or in flight.                             *)

LEMMA InitCount == Init => CountInv
<1> SUFFICES ASSUME Init, NEW h \in Handles
             PROVE  caught[h] = dispatched[h] + Cardinality(Named(h))
  BY Zenon DEF CountInv
<1>1. Named(h) = {}
  BY DEF Init, Named
<1> QED
  BY <1>1, FS_EmptySet DEF Init

\* HandlerWrite appends one message, or finds the pipe full.
LEMMA WriteCount ==
  ASSUME Instance, Inv, CountInv, NEW t \in Threads, NEW h \in Handles,
         HandlerWrite(t, h)
  PROVE  CountInv'
<1>1. CASE Len(pipe) < PipeSize
  <2> DEFINE m == [handle |-> h, signum |-> handler[t].signum]
  <2>1. pipe' = Append(pipe, m) /\ buf' = buf /\ dispatched' = dispatched
        /\ caught' = [caught EXCEPT ![h] = @ + 1]
    BY Zenon, <1>1 DEF HandlerWrite, CountWritten
  <2>2. m.handle = h
    OBVIOUS
  <2>3. pipe \in Seq(Message) /\ Len(buf) \in Nat /\ Len(pipe) \in Nat
    BY DEF Inv, TypeInv
  <2> HIDE DEF m
  <2>7. PICK last \in Nat : last = Len(buf) + Len(pipe) + 1
    BY <2>3
  <2>4. /\ Len(pipe') = Len(pipe) + 1 /\ pipe'[Len(pipe) + 1] = m
        /\ \A n \in 1 .. Len(pipe) : pipe'[n] = pipe[n]
    BY <2>1, <2>3
  <2>5. /\ Msg(last)' = m
        /\ \A n \in 1 .. Len(buf) + Len(pipe) : Msg(n)' = Msg(n)
    BY <2>1, <2>3, <2>4, <2>7 DEF Msg
  <2>8. 1 .. Len(buf') + Len(pipe') = (1 .. Len(buf) + Len(pipe)) \cup {last}
    <3> PICK b \in Nat, p \in Nat : b = Len(buf) /\ p = Len(pipe)
      BY Zenon, <2>3
    <3>1. Len(buf') = b /\ Len(pipe') = p + 1 /\ last = b + p + 1
      BY Zenon, <2>1, <2>4, <2>7
    <3>2. 1 .. b + (p + 1) = (1 .. b + p) \cup {b + p + 1}
      OBVIOUS
    <3> QED
      BY Zenon, <3>1, <3>2
  <2>6. ASSUME NEW g \in Handles
        PROVE  caught'[g] = dispatched'[g] + Cardinality(Named(g)')
    <3>1. IsFiniteSet(Named(g)) /\ Cardinality(Named(g)) \in Nat
          /\ last \notin Named(g)
      BY <2>3, <2>7, NamedFinite DEF Inv, Named
    <3>2. CASE g = h
      <4>1. Named(g)' = Named(g) \cup {last}
        BY Zenon, <2>2, <2>5, <2>8, <3>2 DEF Named
      <4>2. Cardinality(Named(g)') = Cardinality(Named(g)) + 1
        BY Zenon, <3>1, <4>1, FS_AddElement
      <4> QED
        BY <2>1, <3>1, <3>2, <4>2 DEF CountInv, Inv, TypeInv
    <3>3. CASE g # h
      <4>1. Named(g)' = Named(g)
        BY Zenon, <2>2, <2>5, <2>8, <3>3 DEF Named
      <4> QED
        BY Zenon, <2>1, <3>3, <4>1 DEF CountInv, Inv, TypeInv
    <3> QED
      BY Zenon, <3>2, <3>3
  <2> QED
    BY Zenon, <2>6 DEF CountInv
<1>2. CASE ~(Len(pipe) < PipeSize)
  <2>1. UNCHANGED <<caught, dispatched, pipe, buf>>
    BY Zenon, <1>2 DEF HandlerWrite, CountWritten
  <2> QED
    BY Zenon, <2>1 DEF CountInv, Named, Msg
<1> QED
  BY Zenon, <1>1, <1>2

\* ReadPipe moves messages from the pipe to the empty buffer, in their order.
LEMMA ReadCount ==
  ASSUME Instance, Inv, CountInv, ReadPipe
  PROVE  CountInv'
<1>1. pipe \in Seq(Message) /\ Len(pipe) \in Nat /\ buf = << >> /\ Len(buf) = 0
  BY DEF Inv, TypeInv, ReadPipe, Idle
<1>2. PICK n \in 0 .. Len(pipe) :
        buf' = SubSeq(pipe, 1, n) /\ pipe' = SubSeq(pipe, n + 1, Len(pipe))
  <2> DEFINE n == IF Len(pipe) < BufSize THEN Len(pipe) ELSE BufSize
  <2>1. n \in 0 .. Len(pipe)
    BY <1>1 DEF Instance
  <2>2. buf' = SubSeq(pipe, 1, n) /\ pipe' = SubSeq(pipe, n + 1, Len(pipe))
    BY Zenon DEF ReadPipe
  <2> HIDE DEF n
  <2> QED
    BY Zenon, <2>1, <2>2
<1>3. /\ Len(buf') = n /\ Len(pipe') = Len(pipe) - n
      /\ \A k \in 1 .. n : buf'[k] = pipe[k]
      /\ \A k \in 1 .. Len(pipe) - n : pipe'[k] = pipe[k + n]
  BY <1>1, <1>2
<1>4. \A k \in 1 .. Len(pipe) : Msg(k)' = pipe[k] /\ Msg(k) = pipe[k]
  BY <1>1, <1>2, <1>3 DEF Msg
<1>5. ASSUME NEW h \in Handles
      PROVE  Named(h)' = Named(h)
  <2>1. Len(buf') + Len(pipe') = Len(pipe) /\ Len(buf) + Len(pipe) = Len(pipe)
    BY <1>1, <1>3
  <2>2. \A k : k \in Named(h)' <=> k \in 1 .. Len(pipe) /\ pipe[k].handle = h
    BY Zenon, <1>4, <2>1 DEF Named
  <2>3. \A k : k \in Named(h) <=> k \in 1 .. Len(pipe) /\ pipe[k].handle = h
    BY Zenon, <1>4, <2>1 DEF Named
  <2> QED
    BY Zenon, <2>2, <2>3
<1> QED
  BY Zenon, <1>5 DEF CountInv, ReadPipe

\* A set of positions, all moved down by one.
LEMMA Shifted ==
  ASSUME NEW S, S \subseteq Nat, IsFiniteSet(S), NEW T,
         T = {n \in Nat : n + 1 \in S}
  PROVE  Cardinality(T) = Cardinality(S \ {0})
<1> DEFINE U == S \ {0}
           f == [n \in U |-> n - 1]
<1>1. IsFiniteSet(U)
  BY Zenon, FS_Subset
<1>2. f \in [U -> T]
  BY SMT
<1>3. \A a, b \in U : f[a] = f[b] => a = b
  BY SMT
<1>4. \A n \in T : n + 1 \in U /\ f[n + 1] = n
  BY SMT
<1>5. f \in Bijection(U, T)
  BY Zenon, <1>2, <1>3, <1>4 DEF Bijection, Injection, Surjection, IsInjective
<1>6. ExistsBijection(U, T)
  BY Zenon, <1>5 DEF ExistsBijection
<1> QED
  BY Zenon, <1>1, <1>6, FS_Bijection

\* Dispatched takes the first message off the buffer and counts it.
LEMMA DispatchedCount ==
  ASSUME Instance, Inv, CountInv, Dispatched
  PROVE  CountInv'
<1> DEFINE g == Head(buf).handle
<1>1. /\ buf \in Seq(Message) /\ buf # << >> /\ pipe \in Seq(Message)
      /\ Len(buf) \in Nat \ {0} /\ Len(pipe) \in Nat
      /\ Head(buf) = buf[1] /\ buf[1] \in Message
  BY DEF Inv, TypeInv, Dispatched
<1>2. /\ buf' = Tail(buf) /\ pipe' = pipe /\ caught' = caught
      /\ dispatched' = [dispatched EXCEPT ![g] = @ + 1]
  BY Zenon DEF Dispatched
<1>3. /\ Len(buf') = Len(buf) - 1
      /\ \A n \in 1 .. Len(buf) - 1 : buf'[n] = buf[n + 1]
  BY <1>1, <1>2
<1>4. \A n \in 1 .. Len(buf) + Len(pipe) - 1 : Msg(n)' = Msg(n + 1)
  BY <1>1, <1>2, <1>3 DEF Msg
<1>5. g \in Handles /\ Msg(1).handle = g
  BY <1>1 DEF Msg, Message
<1> HIDE DEF g
<1>6. ASSUME NEW h \in Handles
      PROVE  caught'[h] = dispatched'[h] + Cardinality(Named(h)')
  <2> DEFINE S == Named(h) \ {1}
  <2>1. /\ IsFiniteSet(Named(h)) /\ Cardinality(Named(h)) \in Nat
        /\ Named(h) \subseteq Nat \ {0}
    BY Zenon, NamedFinite DEF Inv
  <2>2. IsFiniteSet(S) /\ S \subseteq Nat /\ 0 \notin S
        /\ Cardinality(S) = IF h = g THEN Cardinality(Named(h)) - 1
                            ELSE Cardinality(Named(h))
    <3>1. 1 \in Named(h) <=> h = g
      BY <1>1, <1>5 DEF Named
    <3> QED
      BY Zenon, <2>1, <3>1, FS_RemoveElement
  <2>3. Named(h)' = {n \in Nat : n + 1 \in S}
    BY <1>1, <1>2, <1>3, <1>4 DEF Named
  <2>4. Cardinality(Named(h)') = Cardinality(S)
    <3>1. S \ {0} = S
      BY Zenon, <2>2
    <3> HIDE DEF S
    <3> QED
      BY Zenon, <2>2, <2>3, <3>1, Shifted
  <2> QED
    BY <1>2, <1>5, <2>1, <2>2, <2>4 DEF CountInv, Inv, TypeInv
<1> QED
  BY Zenon, <1>6 DEF CountInv

-----------------------------------------------------------------------------
(* The theorems.                                                           *)

LEMMA Inductive ==
  ASSUME Instance
  PROVE  (Inv /\ CountInv) /\ [Next]_vars => (Inv /\ CountInv)'
<1> SUFFICES ASSUME Inv, CountInv, [Next]_vars PROVE Inv' /\ CountInv'
  OBVIOUS
<1> DEFINE Still == UNCHANGED <<caught, dispatched, pipe, buf>>
<1>1. Still => CountInv'
  BY Zenon DEF CountInv, Named, Msg
<1>2. CASE \E t \in Threads : HandlerStep(t) \/ \E s \in Signums : Deliver(t, s)
  <2> PICK t \in Threads : HandlerStep(t) \/ \E s \in Signums : Deliver(t, s)
    BY Zenon, <1>2
  <2>1. CASE \E s \in Signums : Deliver(t, s)
    BY Zenon, <1>1, <2>1, DeliverKeeps DEF Deliver
  <2>2. CASE HandlerLock(t)
    BY Zenon, <1>1, <2>2, HandlerLockKeeps DEF HandlerLock
  <2>3. CASE \E h \in Handles : HandlerWrite(t, h)
    BY Zenon, <2>3, HandlerWriteKeeps, WriteCount
  <2>4. CASE HandlerReturns(t)
    BY Zenon, <1>1, <2>4, HandlerReturnsKeeps DEF HandlerReturns
  <2> QED
    BY Zenon, <2>1, <2>2, <2>3, <2>4 DEF HandlerStep
<1>3. CASE \E h \in Handles :
             uv_signal_stop(h) \/ uv_close(h) \/ \E s \in Signums : uv_signal_start(h, s)
  <2> PICK h \in Handles :
        uv_signal_stop(h) \/ uv_close(h) \/ \E s \in Signums : uv_signal_start(h, s)
    BY Zenon, <1>3
  <2>1. CASE uv_signal_stop(h)
    BY Zenon, <1>1, <2>1, uv_signal_stopKeeps DEF uv_signal_stop, Call
  <2>2. CASE uv_close(h)
    BY Zenon, <1>1, <2>2, uv_closeKeeps DEF uv_close, Call
  <2>3. CASE \E s \in Signums : uv_signal_start(h, s)
    BY Zenon, <1>1, <2>3, uv_signal_startKeeps DEF uv_signal_start, Call
  <2> QED
    BY Zenon, <2>1, <2>2, <2>3
<1>4. CASE LoopStep
  <2>1. CASE ReadPipe
    BY Zenon, <2>1, ReadPipeKeeps, ReadCount
  <2>2. CASE Dispatched
    BY Zenon, <2>2, DispatchedKeeps, DispatchedCount
  <2>3. CASE SkipStop \/ EndSection \/ uv__signal_close
    <3>1. Inv'
      BY Zenon, <2>3, SkipStopKeeps, EndSectionKeeps, uv__signal_closeKeeps
    <3>2. Still
      BY Zenon, <2>3 DEF SkipStop, EndSection, uv__signal_close
    <3> QED
      BY Zenon, <1>1, <3>1, <3>2
  <2>4. CASE Block \/ uv__signal_lock \/ uv__signal_unlock_and_unblock
    <3>1. Inv'
      BY Zenon, <2>4, BlockKeeps, uv__signal_lockKeeps, uv__signal_unlock_and_unblockKeeps
    <3>2. Still
      BY Zenon, <2>4 DEF Block, uv__signal_lock, uv__signal_unlock_and_unblock
    <3> QED
      BY Zenon, <1>1, <3>1, <3>2
  <2>5. CASE Insert \/ RegisterFails \/ Remove
    <3>1. Inv'
      BY Zenon, <2>5, InsertKeeps, RegisterFailsKeeps, RemoveKeeps
    <3>2. Still
      BY Zenon, <2>5 DEF Insert, RegisterFails, Remove
    <3> QED
      BY Zenon, <1>1, <3>1, <3>2
  <2>6. CASE Dispatch \/ \E h \in Handles : FinishClose(h)
    <3>1. Inv'
      BY Zenon, <2>6, DispatchKeeps, FinishCloseKeeps
    <3>2. Still
      BY Zenon, <2>6 DEF Dispatch, FinishClose
    <3> QED
      BY Zenon, <1>1, <3>1, <3>2
  <2> QED
    BY Zenon, <1>4, <2>1, <2>2, <2>3, <2>4, <2>5, <2>6 DEF LoopStep
<1>5. CASE UNCHANGED vars
  BY <1>1, <1>5 DEF vars, Inv, TypeInv, LockInv, TreeInv, CloseInv
<1> QED
  BY Zenon, <1>2, <1>3, <1>4, <1>5 DEF Next, Wait

LEMMA InvHolds ==
  ASSUME Instance
  PROVE  Spec => [](Inv /\ CountInv)
<1>1. Init => Inv /\ CountInv
  BY Zenon, InitInv, InitCount
<1>2. (Inv /\ CountInv) /\ [Next]_vars => (Inv /\ CountInv)'
  BY Zenon, Inductive
<1> QED
  BY <1>1, <1>2, PTL DEF Spec

\* A handler that interrupts the loop's thread never waits for the lock that
\* this thread holds: uv__signal_block_and_lock blocks the signals first, and
\* unblocks them after it gave the lock back.
THEOREM HandlersDoNotSelfDeadlock ==
  ASSUME Instance
  PROVE  Spec => []NoSelfDeadlock
<1>1. Inv => NoSelfDeadlock
  BY Zenon DEF Inv, LockInv, NoSelfDeadlock, Within
<1> QED
  BY <1>1, InvHolds, PTL

\* uv__signal_handler is the action of a signal exactly while some handle in the
\* tree watches it, with any number of handles started, stopped and closed
\* on the same signals (uv_signal_start, uv__signal_stop).
THEOREM InstalledWhileWatched ==
  ASSUME Instance
  PROVE  Spec => []HandlerInstalled
<1>1. Inv => HandlerInstalled
  BY Zenon DEF Inv, TreeInv, HandlerInstalled
<1> QED
  BY <1>1, InvHolds, PTL

\* The memory of a handle can be freed once its close is pending: no message in
\* the pipe or the buffer names it, no handler is about to write one, and it is
\* not in the tree (uv__signal_close with caught_signals and
\* dispatched_signals, uv__signal_event).
THEOREM CloseIsSafe ==
  ASSUME Instance
  PROVE  Spec => []CloseSafe
<1>1. Inv /\ CountInv => CloseSafe
  <2> SUFFICES ASSUME Inv, CountInv, NEW h \in Handles,
                      state[h] \in {"pending", "closed"}
               PROVE  /\ ~InFlight(h) /\ h \notin tree /\ signum[h] = None
                      /\ \A t \in Threads : h \notin handler[t].rest
    BY Zenon DEF CloseSafe
  <2>1. todo # NoCall => todo.handle # h
    BY Zenon DEF Inv, CloseInv
  <2>2. signum[h] = None /\ h \notin tree
    BY Zenon, <2>1 DEF Inv, CloseInv, TreeInv
  <2>3. \A t \in Threads : h \notin handler[t].rest
    BY Zenon, <2>2 DEF Inv, LockInv
  <2>4. Cardinality(Named(h)) = 0
    BY NamedFinite DEF Inv, TypeInv, CloseInv, CountInv
  <2>5. Named(h) = {}
    BY Zenon, <2>4, NamedFinite DEF Inv
  <2>6. /\ \A n \in 1 .. Len(buf) : buf[n].handle # h
        /\ \A n \in 1 .. Len(pipe) : pipe[n].handle # h
    <3>1. Len(buf) \in Nat /\ Len(pipe) \in Nat
      BY DEF Inv, TypeInv
    <3>2. \A n \in 1 .. Len(buf) : n \in 1 .. Len(buf) + Len(pipe) /\ Msg(n) = buf[n]
      BY <3>1 DEF Msg
    <3>3. \A n \in 1 .. Len(pipe) :
            /\ n + Len(buf) \in 1 .. Len(buf) + Len(pipe)
            /\ Msg(n + Len(buf)) = pipe[n]
      BY <3>1 DEF Msg
    <3> QED
      BY Zenon, <2>5, <3>2, <3>3 DEF Named
  <2>7. ~InFlight(h)
    BY <2>6 DEF InFlight, Inv, TypeInv
  <2> QED
    BY Zenon, <2>2, <2>3, <2>7
<1> QED
  BY <1>1, InvHolds, PTL

-----------------------------------------------------------------------------
(* LuvPool: what libuv uses of a request is neither freed nor collected,   *)
(* and what the registry refers to, for any number of requests, works and  *)
(* contexts, whichever of them are rash or shared.                         *)

CONSTANTS FsReqs, Scandirs, Works, Ctxs, Rash, Shared
VARIABLES phase, memory, data, registry, held, ctx, failed, cb, crashed

Luv == INSTANCE LuvPool

\* A userdata is of one type; scandirs and the requests that are cancelled or read
\* early are file system requests.
Distinct ==
  /\ FsReqs \cap Works = {} /\ Ctxs \cap Luv!Requests = {}
  /\ Scandirs \subseteq FsReqs /\ Rash \subseteq FsReqs
  /\ Luv!None \notin Luv!Objects

-----------------------------------------------------------------------------
(* The inductive invariant.                                                *)

LuvTypeInv ==
  /\ phase \in [Luv!Requests -> {"new", "queued", "running", "ran", "cancelled",
                             "ok", "ECANCELED"}]
  /\ memory \in [Luv!Objects -> {"none", "alive", "collected"}]
  /\ data \subseteq FsReqs
  /\ registry \subseteq Luv!Objects
  /\ held \subseteq Luv!Objects
  /\ ctx \in [Works -> Ctxs \cup {Luv!None}]
  /\ failed \subseteq Scandirs
  /\ cb \in Luv!Requests \cup {Luv!None}

\* What is referred to is alive; and a request that is not rash has its luv_req_t
\* while the pool or its callback has it, and for ever when it is a scandir that
\* failed.
KeepInv ==
  /\ \A o \in registry \cup held : memory[o] = "alive"
  /\ cb \in Luv!Requests => phase[cb] \in {"ok", "ECANCELED"}
  /\ \A r \in FsReqs \ Rash :
       Luv!InPool(r) \/ (cb = r /\ r \notin Scandirs) \/ r \in failed => r \in data

\* The references of requests, of works, and of contexts.
ReqRefs ==
  /\ \A r \in FsReqs : r \in registry <=> r \in data
  /\ \A r \in data : Luv!InUse(r) \/ r \in Scandirs
  /\ \A w \in Works : w \in registry <=> Luv!InUse(w)

CtxRefs ==
  /\ \A w \in Works : Luv!InUse(w) => ctx[w] \in Ctxs
  /\ \A w \in Works : Luv!InUse(w) /\ ctx[w] \notin Shared => ctx[w] \in registry
  /\ \A c \in Ctxs : c \in registry => \E w \in Works : Luv!InUse(w) /\ ctx[w] = c
  /\ \A v, w \in Works :
       Luv!InUse(v) /\ Luv!InUse(w) /\ ctx[v] = ctx[w] /\ ctx[w] \notin Shared => v = w

LuvInv == LuvTypeInv /\ KeepInv /\ ReqRefs /\ CtxRefs

-----------------------------------------------------------------------------
(* Every step keeps it.                                                    *)

LEMMA LuvInitInv ==
  ASSUME Distinct, Luv!Init
  PROVE  LuvInv
  BY Zenon DEF Distinct, Luv!Init, LuvInv, LuvTypeInv, KeepInv, ReqRefs, CtxRefs, Luv!InUse, Luv!InPool,
         Luv!Requests, Luv!Objects

LEMMA FsAsyncKeeps ==
  ASSUME Distinct, LuvInv, NEW r \in FsReqs, Luv!FsAsync(r)
  PROVE  LuvInv'
<1> USE DEF Distinct, Luv!Requests, Luv!Objects
<1>1. LuvTypeInv'
  BY Zenon DEF LuvInv, LuvTypeInv, Luv!FsAsync, Luv!Pool!Queue, Luv!Pool!Move, Luv!lua_newuserdata
<1>2. KeepInv'
  BY DEF LuvInv, LuvTypeInv, KeepInv, ReqRefs, Luv!InUse, Luv!InPool, Luv!FsAsync, Luv!Pool!Queue, Luv!Pool!Move, Luv!lua_newuserdata
<1>3. ReqRefs'
  BY DEF LuvInv, LuvTypeInv, KeepInv, ReqRefs, Luv!InUse, Luv!InPool, Luv!FsAsync, Luv!Pool!Queue, Luv!Pool!Move, Luv!lua_newuserdata
<1>4. CtxRefs'
  BY DEF LuvInv, LuvTypeInv, KeepInv, CtxRefs, Luv!InUse, Luv!InPool, Luv!FsAsync, Luv!Pool!Queue, Luv!Pool!Move, Luv!lua_newuserdata
<1> QED
  BY Zenon, <1>1, <1>2, <1>3, <1>4 DEF LuvInv

LEMMA FsSyncKeeps ==
  ASSUME Distinct, LuvInv, NEW r \in FsReqs, Luv!FsSync(r)
  PROVE  LuvInv'
<1> USE DEF Distinct, Luv!Requests, Luv!Objects
<1>1. LuvTypeInv'
  BY DEF LuvInv, LuvTypeInv, Luv!FsSync, Luv!lua_newuserdata
<1>2. KeepInv'
  BY DEF LuvInv, LuvTypeInv, KeepInv, ReqRefs, Luv!InUse, Luv!InPool, Luv!FsSync, Luv!lua_newuserdata
<1>3. ReqRefs'
  BY DEF LuvInv, LuvTypeInv, KeepInv, ReqRefs, Luv!InUse, Luv!InPool, Luv!FsSync, Luv!lua_newuserdata
<1>4. CtxRefs'
  BY DEF LuvInv, LuvTypeInv, KeepInv, CtxRefs, Luv!InUse, Luv!InPool, Luv!FsSync, Luv!lua_newuserdata
<1> QED
  BY Zenon, <1>1, <1>2, <1>3, <1>4 DEF LuvInv

LEMMA luv_fs_cbKeeps ==
  ASSUME Distinct, LuvInv, NEW r \in FsReqs, Luv!luv_fs_cb(r)
  PROVE  LuvInv'
<1> USE DEF Distinct, Luv!Requests, Luv!Objects
<1>1. LuvTypeInv'
  BY DEF LuvInv, LuvTypeInv, Luv!luv_fs_cb, Luv!Pool!Report, Luv!Pool!Move
<1>2. KeepInv'
  BY DEF LuvInv, LuvTypeInv, KeepInv, ReqRefs, Luv!InUse, Luv!InPool, Luv!luv_fs_cb, Luv!Pool!Report, Luv!Pool!Move
<1>3. ReqRefs'
  BY DEF LuvInv, LuvTypeInv, KeepInv, ReqRefs, Luv!InUse, Luv!InPool, Luv!luv_fs_cb, Luv!Pool!Report, Luv!Pool!Move
<1>4. CtxRefs'
  BY DEF LuvInv, LuvTypeInv, KeepInv, CtxRefs, Luv!InUse, Luv!InPool, Luv!luv_fs_cb, Luv!Pool!Report, Luv!Pool!Move
<1> QED
  BY Zenon, <1>1, <1>2, <1>3, <1>4 DEF LuvInv

LEMMA FsReturnsKeeps ==
  ASSUME Distinct, LuvInv, NEW r \in FsReqs, Luv!FsReturns(r)
  PROVE  LuvInv'
<1> USE DEF Distinct, Luv!Requests, Luv!Objects
<1>1. LuvTypeInv'
  BY Zenon DEF LuvInv, LuvTypeInv, Luv!FsReturns, Luv!luv_cleanup_req
<1>2. KeepInv'
  BY DEF LuvInv, LuvTypeInv, KeepInv, ReqRefs, Luv!InUse, Luv!InPool, Luv!FsReturns, Luv!luv_cleanup_req
<1>3. ReqRefs'
  BY DEF LuvInv, LuvTypeInv, KeepInv, ReqRefs, Luv!InUse, Luv!InPool, Luv!FsReturns, Luv!luv_cleanup_req
<1>4. CtxRefs'
  BY DEF LuvInv, LuvTypeInv, KeepInv, CtxRefs, Luv!InUse, Luv!InPool, Luv!FsReturns, Luv!luv_cleanup_req
<1> QED
  BY Zenon, <1>1, <1>2, <1>3, <1>4 DEF LuvInv

LEMMA luv_fs_scandir_nextKeeps ==
  ASSUME Distinct, LuvInv, NEW r \in FsReqs, Luv!luv_fs_scandir_next(r)
  PROVE  LuvInv'
<1> USE DEF Distinct, Luv!Requests, Luv!Objects
<1>1. LuvTypeInv'
  BY Zenon DEF LuvInv, LuvTypeInv, Luv!luv_fs_scandir_next, Luv!luv_cleanup_req
<1>2. KeepInv'
  BY DEF LuvInv, LuvTypeInv, KeepInv, ReqRefs, Luv!InUse, Luv!InPool, Luv!luv_fs_scandir_next, Luv!luv_cleanup_req
<1>3. ReqRefs'
  BY DEF LuvInv, LuvTypeInv, KeepInv, ReqRefs, Luv!InUse, Luv!InPool, Luv!luv_fs_scandir_next, Luv!luv_cleanup_req
<1>4. CtxRefs'
  BY DEF LuvInv, LuvTypeInv, KeepInv, CtxRefs, Luv!InUse, Luv!InPool, Luv!luv_fs_scandir_next, Luv!luv_cleanup_req
<1> QED
  BY Zenon, <1>1, <1>2, <1>3, <1>4 DEF LuvInv

LEMMA luv_cancelKeeps ==
  ASSUME Distinct, LuvInv, NEW r \in FsReqs, Luv!luv_cancel(r)
  PROVE  LuvInv'
<1> USE DEF Distinct, Luv!Requests, Luv!Objects
<1>1. LuvTypeInv'
  BY Zenon DEF LuvInv, LuvTypeInv, Luv!luv_cancel, Luv!Pool!Cancel, Luv!Pool!Move, Luv!luv_cleanup_req
<1>2. KeepInv'
  BY Zenon DEF LuvInv, LuvTypeInv, KeepInv, ReqRefs, Luv!InUse, Luv!InPool, Luv!luv_cancel, Luv!Pool!Cancel, Luv!Pool!Move, Luv!luv_cleanup_req
<1>3. ReqRefs'
  BY DEF LuvInv, LuvTypeInv, KeepInv, ReqRefs, Luv!InUse, Luv!InPool, Luv!luv_cancel, Luv!Pool!Cancel, Luv!Pool!Move, Luv!luv_cleanup_req
<1>4. CtxRefs'
  BY DEF LuvInv, LuvTypeInv, KeepInv, CtxRefs, Luv!InUse, Luv!InPool, Luv!luv_cancel, Luv!Pool!Cancel, Luv!Pool!Move, Luv!luv_cleanup_req
<1> QED
  BY Zenon, <1>1, <1>2, <1>3, <1>4 DEF LuvInv

LEMMA luv_new_workKeeps ==
  ASSUME Distinct, LuvInv, NEW c \in Ctxs, Luv!luv_new_work(c)
  PROVE  LuvInv'
<1> USE DEF Distinct, Luv!Requests, Luv!Objects
<1>1. LuvTypeInv'
  BY Zenon DEF LuvInv, LuvTypeInv, Luv!luv_new_work, Luv!lua_newuserdata
<1>2. KeepInv'
  BY DEF LuvInv, LuvTypeInv, KeepInv, ReqRefs, Luv!InUse, Luv!InPool, Luv!luv_new_work, Luv!lua_newuserdata
<1>3. ReqRefs'
  BY Zenon DEF LuvInv, LuvTypeInv, KeepInv, ReqRefs, Luv!InUse, Luv!InPool, Luv!luv_new_work, Luv!lua_newuserdata
<1>4. CtxRefs'
  BY Zenon DEF LuvInv, LuvTypeInv, KeepInv, CtxRefs, Luv!InUse, Luv!InPool, Luv!luv_new_work, Luv!lua_newuserdata
<1> QED
  BY Zenon, <1>1, <1>2, <1>3, <1>4 DEF LuvInv

LEMMA luv_queue_workKeeps ==
  ASSUME Distinct, LuvInv, NEW w \in Works, NEW c \in Ctxs, Luv!luv_queue_work(w, c)
  PROVE  LuvInv'
<1> USE DEF Distinct, Luv!Requests, Luv!Objects
<1> USE DEF Luv!luv_queue_work, Luv!lua_newuserdata, Luv!Pool!Queue, Luv!Pool!Move, Luv!RefUp
<1>1. LuvTypeInv'
  BY Zenon DEF LuvInv, LuvTypeInv
<1>2. KeepInv'
  BY DEF LuvInv, LuvTypeInv, KeepInv, ReqRefs, Luv!InUse, Luv!InPool
<1>3. ReqRefs'
  BY DEF LuvInv, LuvTypeInv, KeepInv, ReqRefs, Luv!InUse, Luv!InPool
<1>4. CtxRefs'
  BY DEF LuvInv, LuvTypeInv, KeepInv, CtxRefs, Luv!InUse, Luv!InPool
<1> QED
  BY Zenon, <1>1, <1>2, <1>3, <1>4 DEF LuvInv

LEMMA luv_after_work_cbKeeps ==
  ASSUME Distinct, LuvInv, NEW w \in Works, Luv!luv_after_work_cb(w)
  PROVE  LuvInv'
<1> USE DEF Distinct, Luv!Requests, Luv!Objects
<1>1. LuvTypeInv'
  BY Zenon DEF LuvInv, LuvTypeInv, Luv!luv_after_work_cb, Luv!Pool!Report, Luv!Pool!Move
<1>2. KeepInv'
  BY DEF LuvInv, LuvTypeInv, KeepInv, ReqRefs, Luv!InUse, Luv!InPool, Luv!luv_after_work_cb, Luv!Pool!Report, Luv!Pool!Move
<1>3. ReqRefs'
  BY DEF LuvInv, LuvTypeInv, KeepInv, ReqRefs, Luv!InUse, Luv!InPool, Luv!luv_after_work_cb, Luv!Pool!Report, Luv!Pool!Move
<1>4. CtxRefs'
  BY DEF LuvInv, LuvTypeInv, KeepInv, CtxRefs, Luv!InUse, Luv!InPool, Luv!luv_after_work_cb, Luv!Pool!Report, Luv!Pool!Move
<1> QED
  BY Zenon, <1>1, <1>2, <1>3, <1>4 DEF LuvInv

LEMMA AfterWorkReturnsKeeps ==
  ASSUME Distinct, LuvInv, NEW w \in Works, Luv!AfterWorkReturns(w)
  PROVE  LuvInv'
<1> USE DEF Distinct, Luv!Requests, Luv!Objects
<1>1. LuvTypeInv'
  BY Zenon DEF LuvInv, LuvTypeInv, Luv!AfterWorkReturns, Luv!RefDown
<1>2. KeepInv'
  BY Zenon DEF LuvInv, LuvTypeInv, KeepInv, ReqRefs, Luv!InUse, Luv!InPool, Luv!AfterWorkReturns, Luv!RefDown
<1>3. ReqRefs'
  BY DEF LuvInv, LuvTypeInv, KeepInv, ReqRefs, Luv!InUse, Luv!InPool, Luv!AfterWorkReturns, Luv!RefDown
<1>4. CtxRefs'
  BY DEF LuvInv, LuvTypeInv, KeepInv, CtxRefs, Luv!InUse, Luv!InPool, Luv!AfterWorkReturns, Luv!RefDown
<1> QED
  BY Zenon, <1>1, <1>2, <1>3, <1>4 DEF LuvInv

LEMMA PoolThreadKeeps ==
  ASSUME Distinct, LuvInv, NEW r \in Luv!Requests, Luv!PoolThread(r)
  PROVE  LuvInv'
<1> USE DEF Distinct, Luv!Requests, Luv!Objects
<1>1. LuvTypeInv'
  BY Zenon DEF LuvInv, LuvTypeInv, Luv!PoolThread, Luv!Pool!Start, Luv!Pool!Finish, Luv!Pool!Move
<1>2. KeepInv'
  BY DEF LuvInv, LuvTypeInv, KeepInv, ReqRefs, Luv!InUse, Luv!InPool, Luv!PoolThread, Luv!Pool!Start, Luv!Pool!Finish, Luv!Pool!Move
<1>3. ReqRefs'
  BY DEF LuvInv, LuvTypeInv, KeepInv, ReqRefs, Luv!InUse, Luv!InPool, Luv!PoolThread, Luv!Pool!Start, Luv!Pool!Finish, Luv!Pool!Move
<1>4. CtxRefs'
  BY DEF LuvInv, LuvTypeInv, KeepInv, CtxRefs, Luv!InUse, Luv!InPool, Luv!PoolThread, Luv!Pool!Start, Luv!Pool!Finish, Luv!Pool!Move
<1> QED
  BY Zenon, <1>1, <1>2, <1>3, <1>4 DEF LuvInv

LEMMA ForgetKeeps ==
  ASSUME Distinct, LuvInv, NEW o \in Luv!Objects, Luv!Forget(o)
  PROVE  LuvInv'
<1> USE DEF Distinct, Luv!Requests, Luv!Objects
<1>1. LuvTypeInv'
  BY Zenon DEF LuvInv, LuvTypeInv, Luv!Forget
<1>2. KeepInv'
  BY Zenon DEF LuvInv, LuvTypeInv, KeepInv, ReqRefs, Luv!InUse, Luv!InPool, Luv!Forget
<1>3. ReqRefs'
  BY Zenon DEF LuvInv, LuvTypeInv, KeepInv, ReqRefs, Luv!InUse, Luv!InPool, Luv!Forget
<1>4. CtxRefs'
  BY Zenon DEF LuvInv, LuvTypeInv, KeepInv, CtxRefs, Luv!InUse, Luv!InPool, Luv!Forget
<1> QED
  BY Zenon, <1>1, <1>2, <1>3, <1>4 DEF LuvInv

LEMMA CollectKeeps ==
  ASSUME Distinct, LuvInv, NEW o \in Luv!Objects, Luv!Collect(o)
  PROVE  LuvInv'
<1> USE DEF Distinct, Luv!Requests, Luv!Objects
<1>1. LuvTypeInv'
  BY Zenon DEF LuvInv, LuvTypeInv, Luv!Collect
<1>2. KeepInv'
  BY Zenon DEF LuvInv, LuvTypeInv, KeepInv, ReqRefs, Luv!InUse, Luv!InPool, Luv!Collect
<1>3. ReqRefs'
  BY Zenon DEF LuvInv, LuvTypeInv, KeepInv, ReqRefs, Luv!InUse, Luv!InPool, Luv!Collect
<1>4. CtxRefs'
  BY Zenon DEF LuvInv, LuvTypeInv, KeepInv, CtxRefs, Luv!InUse, Luv!InPool, Luv!Collect
<1> QED
  BY Zenon, <1>1, <1>2, <1>3, <1>4 DEF LuvInv

LEMMA LuvInductive ==
  ASSUME Distinct
  PROVE  LuvInv /\ [Luv!Next]_(Luv!vars) => LuvInv'
<1> SUFFICES ASSUME LuvInv, [Luv!Next]_(Luv!vars) PROVE LuvInv'
  OBVIOUS
<1>1. CASE Luv!Step
  BY <1>1, FsAsyncKeeps, FsSyncKeeps, luv_fs_cbKeeps, FsReturnsKeeps,
     luv_fs_scandir_nextKeeps, luv_cancelKeeps, luv_new_workKeeps,
     luv_queue_workKeeps, luv_after_work_cbKeeps, AfterWorkReturnsKeeps,
     PoolThreadKeeps, ForgetKeeps, CollectKeeps DEF Luv!Step
<1>2. CASE UNCHANGED Luv!vars
  BY Zenon, <1>2 DEF Luv!vars, LuvInv, LuvTypeInv, KeepInv, ReqRefs, CtxRefs, Luv!InUse, Luv!InPool
<1> QED
  BY Zenon, <1>1, <1>2 DEF Luv!Next, Luv!Idle

LEMMA LuvInvHolds ==
  ASSUME Distinct
  PROVE  Luv!Spec => []LuvInv
<1>1. Luv!Init => LuvInv
  BY Zenon, LuvInitInv
<1>2. LuvInv /\ [Luv!Next]_(Luv!vars) => LuvInv'
  BY Zenon, LuvInductive
<1> QED
  BY <1>1, <1>2, PTL DEF Luv!Spec

-----------------------------------------------------------------------------
(* The theorems.                                                           *)

\* Whatever the collector, the script, the pool's threads and the loop do in
\* whatever order, the userdata, the luv_req_t and the context that libuv or a
\* callback uses are still there (lreq.c, fs.c, work.c), but for the requests that
\* the script cancels or reads early and the contexts it shares; and these do no
\* harm to the others.
THEOREM WhatIsUsedIsKept ==
  ASSUME Distinct
  PROVE  Luv!Spec => []Luv!MemoryKept
<1>1. LuvInv => Luv!MemoryKept
  <2> SUFFICES ASSUME LuvInv PROVE Luv!MemoryKept
    OBVIOUS
  <2>1. ASSUME NEW r \in FsReqs \ Rash
        PROVE  Luv!ReqKept(r) /\ (cb = r => memory[r] = "alive" \/ r \in Scandirs \ data)
    BY Zenon DEF LuvInv, KeepInv, ReqRefs, Luv!ReqKept
  <2>2. ASSUME NEW w \in Works
        PROVE  Luv!ReqKept(w) /\ (cb = w => memory[w] = "alive")
    BY Zenon DEF Distinct, LuvInv, KeepInv, ReqRefs, Luv!InUse, Luv!ReqKept
  <2>3. \A w \in Works : ctx[w] \notin Shared => Luv!CtxAlive(w)
    BY Zenon DEF LuvInv, KeepInv, CtxRefs, Luv!CtxAlive
  <2> QED
    BY Zenon, <2>1, <2>2, <2>3 DEF Luv!MemoryKept, Luv!Requests
<1> QED
  BY <1>1, LuvInvHolds, PTL

\* The registry refers to exactly the works in use, to the contexts of such works
\* and to the file system requests that have a luv_req_t: those in use, directories,
\* and the scandirs that failed, none of which is ever released (luv_cleanup_req,
\* luv_fs_cb, luv_queue_work, luv_after_work_cb).
THEOREM RegistryExact ==
  ASSUME Distinct
  PROVE  Luv!Spec => []Luv!RefsExact
<1>1. LuvInv => Luv!RefsExact
  <2> SUFFICES ASSUME LuvInv PROVE Luv!RefsExact
    OBVIOUS
  <2> DEFINE busy == {w \in Works : Luv!InUse(w)}
  <2>1. registry \cap Works = busy
    BY Zenon DEF LuvInv, ReqRefs
  <2>2. registry \cap Ctxs \subseteq {ctx[w] : w \in busy}
    BY Zenon DEF LuvInv, CtxRefs
  <2>3. {ctx[w] : w \in busy} \ Shared \subseteq registry
    BY Zenon DEF LuvInv, CtxRefs
  <2>4. registry \cap FsReqs = data
    BY Zenon DEF LuvInv, LuvTypeInv, ReqRefs
  <2>5. \A r \in data \ Scandirs : Luv!InUse(r)
    BY Zenon DEF LuvInv, ReqRefs
  <2>6. failed \ Rash \subseteq data
    BY Zenon DEF Distinct, LuvInv, LuvTypeInv, KeepInv
  <2> QED
    BY Zenon, <2>1, <2>2, <2>3, <2>4, <2>5, <2>6 DEF Luv!RefsExact
<1> QED
  BY <1>1, LuvInvHolds, PTL

-----------------------------------------------------------------------------
(* UvWatchers: a pass over the idle handles calls each of them once, however *)
(* many there are and whatever its callbacks start and stop before they    *)
(* stop their own handle.                                                  *)

CONSTANTS Idles, ListHead, Derail
VARIABLES next, prev, active, q, in_idle_cb, due, called

Watch == INSTANCE UvWatchers WITH Handles <- Idles, in_cb <- in_idle_cb

\* The head of the list is no handle.
Apart == ListHead \notin Idles /\ Watch!None \notin Idles \cup {ListHead}

-----------------------------------------------------------------------------
(* The inductive invariant: the links follow an order of the active        *)
(* handles, and the walk has called just those before the place it is at.  *)

Ring == active \cup {ListHead}

WatchTypes ==
  /\ next \in [Idles \cup {ListHead} -> Idles \cup {ListHead, Watch!None}]
  /\ prev \in [Idles \cup {ListHead} -> Idles \cup {ListHead, Watch!None}]
  /\ active \subseteq Idles /\ due \subseteq Idles /\ called \subseteq Idles
  /\ q \in Idles \cup {ListHead, Watch!None}
  /\ in_idle_cb \in BOOLEAN
  /\ in_idle_cb => q \in Idles

Linked ==
  \A n \in Ring : /\ next[n] \in Ring /\ prev[n] \in Ring
                  /\ prev[next[n]] = n /\ next[prev[n]] = n

\* A place for every handle, in the order of the list; uv_idle_start takes lo.
Ordered(pos, lo) ==
  /\ pos \in [Idles -> Int] /\ lo \in Int
  /\ \A a \in active : lo < pos[a]
  /\ \A a, b \in active : pos[a] = pos[b] => a = b
  /\ \A a \in active : next[a] \in active => pos[a] < pos[next[a]]
  /\ \A a, b \in active : pos[a] < pos[b] => next[a] \in active /\ pos[next[a]] <= pos[b]
  /\ \A b \in active : next[ListHead] \in active /\ pos[next[ListHead]] <= pos[b]

\* The node the walk comes to next.
Coming == IF in_idle_cb THEN next[q] ELSE q

Ahead(pos, n, b) == n \in active /\ pos[n] <= pos[b]

Walking(pos) ==
  q # Watch!None =>
    /\ Coming \in Ring
    /\ \A b \in due : b \in active /\ Ahead(pos, Coming, b)
    /\ \A b \in called \cap active : ~Ahead(pos, Coming, b)

WatchInv ==
  /\ WatchTypes /\ Linked
  /\ \E pos, lo : Ordered(pos, lo) /\ Walking(pos)

-----------------------------------------------------------------------------
(* Every step keeps it.                                                    *)

\* An empty list.
LEMMA WatchInitInv ==
  ASSUME Apart, Watch!Init
  PROVE  WatchInv
<1> USE DEF Apart, Watch!Init, Watch!Nodes
<1>1. WatchTypes
  BY Zenon DEF WatchTypes
<1>2. Linked
  BY Zenon DEF Linked, Ring
<1>3. Ordered([a \in Idles |-> 0], 0) /\ Walking([a \in Idles |-> 0])
  BY DEF Ordered, Walking
<1> QED
  BY Zenon, <1>1, <1>2, <1>3 DEF WatchInv

\* uv_idle_start puts a handle before all others, where no walk comes any more.
LEMMA StartKeeps ==
  ASSUME Apart, ~Derail, WatchInv, NEW h \in Idles, Watch!uv_idle_start(h)
  PROVE  WatchInv'
<1>1. PICK pos, lo : Ordered(pos, lo) /\ Walking(pos)
  BY Zenon DEF WatchInv
<1>2. /\ h \notin active /\ active' = active \cup {h} /\ q' = q /\ in_idle_cb' = in_idle_cb
      /\ due' = due /\ called' = called
      /\ next' = [next EXCEPT ![h] = next[ListHead], ![ListHead] = h]
      /\ prev' = [prev EXCEPT ![h] = ListHead, ![next[ListHead]] = h]
      /\ q = Watch!None \/ (in_idle_cb /\ q \in active)
  BY Zenon DEF Watch!uv_idle_start, Watch!Script, Watch!QUEUE_INSERT_HEAD
<1>3. WatchTypes /\ Linked
  BY Zenon DEF WatchInv
<1>4. PICK f \in Ring : f = next[ListHead]
  BY Zenon, <1>3 DEF Linked, Ring
<1>5. /\ next'[h] = f /\ next'[ListHead] = h /\ prev'[h] = ListHead /\ prev'[f] = h
      /\ \A n \in Idles \cup {ListHead} : n # h /\ n # ListHead => next'[n] = next[n]
      /\ \A n \in Idles \cup {ListHead} : n # h /\ n # f => prev'[n] = prev[n]
      /\ f # h /\ h # ListHead
  BY Zenon, <1>2, <1>3, <1>4 DEF WatchTypes, Ring, Apart
<1>6. WatchTypes'
  BY Zenon, <1>2, <1>3, <1>4 DEF WatchTypes, Ring
<1>7. Linked'
  <2> SUFFICES ASSUME NEW n \in Ring'
               PROVE  /\ next'[n] \in Ring' /\ prev'[n] \in Ring'
                      /\ prev'[next'[n]] = n /\ next'[prev'[n]] = n
    BY Zenon DEF Linked
  <2>1. Ring' = Ring \cup {h} /\ h \notin Ring /\ ListHead \in Ring /\ Ring \subseteq Idles \cup {ListHead}
    BY Zenon, <1>2, <1>3, <1>5 DEF Ring, WatchTypes
  <2>2. CASE n = h
    BY Zenon, <1>4, <1>5, <2>1, <2>2
  <2>3. ASSUME n \in Ring, n # ListHead
        PROVE  next'[n] \in Ring' /\ prev'[next'[n]] = n
    <3>1. next'[n] = next[n] /\ next[n] \in Ring /\ prev[next[n]] = n /\ prev[f] = ListHead
      BY Zenon, <1>3, <1>4, <1>5, <2>1, <2>3 DEF Linked
    <3> QED
      BY Zenon, <1>5, <2>1, <2>3, <3>1
  <2>4. ASSUME n \in Ring, n # f
        PROVE  prev'[n] \in Ring' /\ next'[prev'[n]] = n
    <3>1. prev'[n] = prev[n] /\ prev[n] \in Ring /\ next[prev[n]] = n
      BY Zenon, <1>3, <1>5, <2>1, <2>4 DEF Linked
    <3> QED
      BY Zenon, <1>4, <1>5, <2>1, <2>4, <3>1
  <2>5. next'[ListHead] \in Ring' /\ prev'[next'[ListHead]] = ListHead
    BY Zenon, <1>5, <2>1
  <2>6. prev'[f] \in Ring' /\ next'[prev'[f]] = f
    BY Zenon, <1>5, <2>1
  <2> QED
    BY Zenon, <2>1, <2>2, <2>3, <2>4, <2>5, <2>6
<1>p. PICK p : p = [pos EXCEPT ![h] = lo]
  BY Zenon
<1>8. /\ p \in [Idles -> Int] /\ p[h] = lo /\ lo \in Int /\ pos \in [Idles -> Int]
      /\ \A a \in active : p[a] = pos[a] /\ pos[a] \in Int /\ lo < pos[a] /\ a \in Idles /\ a # h /\ a # ListHead
  BY Zenon, <1>p, <1>1, <1>2, <1>3 DEF Ordered, WatchTypes, Apart
<1>9. Ordered(p, lo - 1)'
  <2>1. \A a \in active' : lo - 1 < p[a]
    BY <1>2, <1>8
  <2>2. \A a, b \in active' : p[a] = p[b] => a = b
    <3>1. \A a \in active : p[a] # lo
      BY <1>8
    <3> QED
      BY Zenon, <1>1, <1>2, <1>8, <3>1 DEF Ordered
  <2>3. ASSUME NEW a \in active', next'[a] \in active'
        PROVE  p[a] < p[next'[a]]
    <3>1. CASE a = h
      <4>1. f \in active /\ next'[a] = f
        BY <1>2, <1>5, <2>3, <3>1
      <4> QED
        BY Zenon, <1>8, <3>1, <4>1
    <3>2. CASE a # h
      <4>1. a \in active /\ next'[a] = next[a] /\ next[a] \in active
        <5>1. a \in active /\ next'[a] = next[a]
          BY Zenon, <1>2, <1>5, <1>8, <3>2
        <5> QED
          <6>1. next[a] # h
            <7>1. next[a] \in active \/ next[a] = ListHead
              BY Zenon, <1>3, <5>1 DEF Linked, Ring
            <7> QED
              BY Zenon, <1>2, <1>5, <7>1
          <6> QED
            BY <1>2, <2>3, <5>1, <6>1
      <4>2. pos[a] < pos[next[a]]
        BY Zenon, <1>1, <4>1 DEF Ordered
      <4> QED
        BY Zenon, <1>8, <4>1, <4>2
    <3> QED
      BY Zenon, <3>1, <3>2
  <2>4. ASSUME NEW a \in active', NEW b \in active', p[a] < p[b]
        PROVE  next'[a] \in active' /\ p[next'[a]] <= p[b]
    <3>1. b # h
      BY <1>2, <1>8, <2>4
    <3>2. CASE a = h
      <4>1. b \in active /\ f \in active /\ pos[f] <= pos[b]
        BY Zenon, <1>1, <1>2, <1>4, <3>1 DEF Ordered
      <4> QED
        BY <1>2, <1>5, <1>8, <3>2, <4>1
    <3>3. CASE a # h
      <4>1. a \in active /\ b \in active /\ next'[a] = next[a]
        BY Zenon, <1>2, <1>5, <1>8, <3>1, <3>3
      <4>2. next[a] \in active /\ pos[next[a]] <= pos[b]
        BY Zenon, <1>1, <1>8, <2>4, <4>1 DEF Ordered
      <4> QED
        BY <1>2, <1>8, <4>1, <4>2
    <3> QED
      BY Zenon, <3>2, <3>3
  <2>5. \A b \in active' : next'[ListHead] \in active' /\ p[next'[ListHead]] <= p[b]
    BY <1>2, <1>5, <1>8
  <2>6. lo - 1 \in Int
    BY <1>8
  <2> QED
    BY Zenon, <1>2, <1>5, <1>8, <2>1, <2>2, <2>3, <2>4, <2>5, <2>6 DEF Ordered
<1>10. Walking(p)'
  <2> SUFFICES ASSUME q # Watch!None
               PROVE  /\ Coming' \in Ring'
                      /\ \A b \in due : b \in active' /\ Ahead(p, Coming, b)'
                      /\ \A b \in called \cap active' : ~Ahead(p, Coming, b)'
    BY Zenon, <1>2 DEF Walking
  <2>1. in_idle_cb /\ q \in active
    BY Zenon, <1>2
  <2>2. Coming' = next[q] /\ Coming = next[q]
    BY Zenon, <1>2, <1>5, <1>8, <2>1 DEF Coming
  <2>3. /\ next[q] \in Ring
        /\ \A b \in due : b \in active /\ next[q] \in active /\ pos[next[q]] <= pos[b]
        /\ \A b \in called \cap active : ~(next[q] \in active /\ pos[next[q]] <= pos[b])
    BY Zenon, <1>1, <2>1, <2>2 DEF Walking, Ahead
  <2>4. Coming' \in Ring' /\ next[q] # h
    BY Zenon, <1>2, <1>5, <1>8, <2>2, <2>3 DEF Ring
  <2>5. \A b \in due : b \in active' /\ Ahead(p, Coming, b)'
    BY Zenon, <1>2, <1>8, <2>2, <2>3 DEF Ahead
  <2>6. ASSUME next[q] \in active
        PROVE  ~(p[next[q]] <= p[h])
    BY <1>8, <2>6
  <2>7. \A b \in called \cap active' : ~Ahead(p, Coming, b)'
    BY Zenon, <1>2, <1>8, <2>2, <2>3, <2>4, <2>6 DEF Ahead
  <2> QED
    BY Zenon, <2>4, <2>5, <2>7
<1> QED
  BY Zenon, <1>6, <1>7, <1>9, <1>10 DEF WatchInv

\* uv_idle_stop closes the gap, also when the walk is to come to the handle next.
LEMMA StopKeeps ==
  ASSUME Apart, ~Derail, WatchInv, NEW h \in Idles, Watch!uv_idle_stop(h)
  PROVE  WatchInv'
<1>1. PICK p, lo : Ordered(p, lo) /\ Walking(p)
  BY Zenon DEF WatchInv
<1>2. /\ h \in active /\ active' = active \ {h} /\ q' = q /\ in_idle_cb' = in_idle_cb
      /\ due' = due \ {h} /\ called' = called
      /\ next' = [next EXCEPT ![prev[h]] = next[h]]
      /\ prev' = [prev EXCEPT ![next[h]] = prev[h]]
      /\ q = Watch!None \/ (in_idle_cb /\ q \in active)
  BY Zenon DEF Watch!uv_idle_stop, Watch!Script, Watch!QUEUE_REMOVE
<1>3. WatchTypes /\ Linked
  BY Zenon DEF WatchInv
<1>4. /\ p \in [Idles -> Int] /\ lo \in Int
      /\ \A a \in active : p[a] \in Int /\ a \in Idles /\ a \in Ring /\ a # ListHead
  BY Zenon, <1>1, <1>3 DEF Ordered, WatchTypes, Apart, Ring
<1>5. PICK f \in Ring, g \in Ring : f = next[h] /\ g = prev[h] /\ next[g] = h /\ prev[f] = h
  BY Zenon, <1>2, <1>3 DEF Linked, Ring
<1>6. f # h /\ g # h
  <2>1. h = next[h] => FALSE
    <3>1. h = next[h] => p[h] < p[h]
      BY <1>1, <1>2 DEF Ordered
    <3> QED
      BY <1>2, <1>4, <3>1
  <2> QED
    BY Zenon, <1>5, <2>1
<1>7. /\ next'[g] = f /\ prev'[f] = g
      /\ \A n \in Ring : n # g => next'[n] = next[n]
      /\ \A n \in Ring : n # f => prev'[n] = prev[n]
  BY Zenon, <1>2, <1>3, <1>5 DEF WatchTypes, Ring
<1>8. Ring' = Ring \ {h} /\ f \in Ring' /\ g \in Ring'
  BY Zenon, <1>2, <1>4, <1>5, <1>6 DEF Ring
<1>9. WatchTypes'
  BY Zenon, <1>2, <1>3, <1>5 DEF WatchTypes, Ring
<1>10. Linked'
  <2> SUFFICES ASSUME NEW n \in Ring'
               PROVE  /\ next'[n] \in Ring' /\ prev'[n] \in Ring'
                      /\ prev'[next'[n]] = n /\ next'[prev'[n]] = n
    BY Zenon DEF Linked
  <2>1. n \in Ring /\ n # h
    BY Zenon, <1>8
  <2>2. next'[n] \in Ring' /\ prev'[next'[n]] = n
    <3>1. CASE n = g
      BY Zenon, <1>7, <1>8, <3>1
    <3>2. CASE n # g
      <4>1. next'[n] = next[n] /\ next[n] \in Ring /\ prev[next[n]] = n
        BY Zenon, <1>3, <1>7, <2>1, <3>2 DEF Linked
      <4>2. next[n] # h /\ next[n] # f
        BY Zenon, <1>5, <2>1, <3>2, <4>1
      <4> QED
        BY Zenon, <1>7, <1>8, <4>1, <4>2
    <3> QED
      BY Zenon, <3>1, <3>2
  <2>3. prev'[n] \in Ring' /\ next'[prev'[n]] = n
    <3>1. CASE n = f
      BY Zenon, <1>7, <1>8, <3>1
    <3>2. CASE n # f
      <4>1. prev'[n] = prev[n] /\ prev[n] \in Ring /\ next[prev[n]] = n
        BY Zenon, <1>3, <1>7, <2>1, <3>2 DEF Linked
      <4>2. prev[n] # h /\ prev[n] # g
        BY Zenon, <1>5, <2>1, <3>2, <4>1
      <4> QED
        BY Zenon, <1>7, <1>8, <4>1, <4>2
    <3> QED
      BY Zenon, <3>1, <3>2
  <2> QED
    BY Zenon, <2>2, <2>3
\* What lies at or behind h, h left out, lies at or behind its successor.
<1>11. \A b \in active : b # h /\ p[h] <= p[b] => f \in active /\ p[f] <= p[b]
  <2> SUFFICES ASSUME NEW b \in active, b # h, p[h] <= p[b]
               PROVE  f \in active /\ p[f] <= p[b]
    BY Zenon
  <2>1. p[h] # p[b]
    BY Zenon, <1>1, <1>2 DEF Ordered
  <2>2. p[h] < p[b]
    BY <1>2, <1>4, <2>1
  <2> QED
    BY Zenon, <1>1, <1>2, <1>5, <2>2 DEF Ordered
<1>12. f \in active => p[h] < p[f]
  BY Zenon, <1>1, <1>2, <1>5 DEF Ordered
<1>13. Ordered(p, lo)'
  <2>1. ASSUME NEW a \in active', next'[a] \in active'
        PROVE  p[a] < p[next'[a]]
    <3>1. CASE a = g
      <4>1. next'[a] = f /\ f \in active /\ g \in active
        BY <1>2, <1>7, <2>1, <3>1
      <4>2. p[g] < p[h]
        BY Zenon, <1>1, <1>2, <1>5, <4>1 DEF Ordered
      <4> QED
        BY <1>2, <1>4, <1>12, <3>1, <4>1, <4>2
    <3>2. CASE a # g
      <4>1. a \in active /\ next'[a] = next[a] /\ next[a] \in active
        BY <1>2, <1>4, <1>7, <2>1, <3>2
      <4> QED
        BY <1>1, <4>1 DEF Ordered
    <3> QED
      BY Zenon, <3>1, <3>2
  <2>2. ASSUME NEW a \in active', NEW b \in active', p[a] < p[b]
        PROVE  next'[a] \in active' /\ p[next'[a]] <= p[b]
    <3>1. /\ a \in active /\ b \in active /\ a # h /\ b # h
          /\ next[a] \in active /\ p[next[a]] <= p[b]
      BY Zenon, <1>1, <1>2, <2>2 DEF Ordered
    <3>2. CASE a = g
      <4>1. f \in active /\ p[f] <= p[b]
        BY Zenon, <1>5, <1>11, <3>1, <3>2
      <4> QED
        BY <1>2, <1>6, <1>7, <3>2, <4>1
    <3>3. CASE a # g
      <4>1. next'[a] = next[a] /\ next[a] # h
        BY Zenon, <1>3, <1>4, <1>5, <1>7, <3>1, <3>3 DEF Linked
      <4> QED
        BY <1>2, <3>1, <4>1
    <3> QED
      BY Zenon, <3>2, <3>3
  <2>3. ASSUME NEW b \in active'
        PROVE  next'[ListHead] \in active' /\ p[next'[ListHead]] <= p[b]
    <3>1. /\ b \in active /\ b # h
          /\ next[ListHead] \in active /\ p[next[ListHead]] <= p[b]
      BY Zenon, <1>1, <1>2 DEF Ordered
    <3>2. CASE ListHead = g
      <4>1. f \in active /\ p[f] <= p[b]
        BY Zenon, <1>5, <1>11, <3>1, <3>2
      <4> QED
        BY <1>2, <1>6, <1>7, <3>2, <4>1
    <3>3. CASE ListHead # g
      <4>1. ListHead \in Ring
        BY Zenon DEF Ring
      <4>2. next'[ListHead] = next[ListHead] /\ next[ListHead] # h
        BY Zenon, <1>3, <1>5, <1>7, <3>3, <4>1 DEF Linked
      <4> QED
        BY <1>2, <3>1, <4>2
    <3> QED
      BY Zenon, <3>2, <3>3
  <2>4. /\ \A a \in active' : lo < p[a]
        /\ \A a, b \in active' : p[a] = p[b] => a = b
    BY Zenon, <1>1, <1>2 DEF Ordered
  <2> QED
    BY Zenon, <1>4, <2>1, <2>2, <2>3, <2>4 DEF Ordered
<1>14. Walking(p)'
  <2> SUFFICES ASSUME q # Watch!None
               PROVE  /\ Coming' \in Ring'
                      /\ \A b \in due \ {h} : b \in active' /\ Ahead(p, Coming, b)'
                      /\ \A b \in called \cap active' : ~Ahead(p, Coming, b)'
    BY Zenon, <1>2 DEF Walking
  <2>1. in_idle_cb /\ q \in active /\ q \in Ring
    BY Zenon, <1>2, <1>4
  <2>2. Coming' = next'[q] /\ Coming = next[q]
    BY Zenon, <1>2, <2>1 DEF Coming
  <2>3. /\ next[q] \in Ring
        /\ \A b \in due : b \in active /\ next[q] \in active /\ p[next[q]] <= p[b]
        /\ \A b \in called \cap active : ~(next[q] \in active /\ p[next[q]] <= p[b])
    BY Zenon, <1>1, <2>1, <2>2 DEF Walking, Ahead
  <2>4. CASE q = g
    <3>1. Coming' = f /\ next[q] = h
      BY Zenon, <1>5, <1>7, <2>2, <2>4
    <3>2. \A b \in due \ {h} : b \in active' /\ f \in active' /\ p[f] <= p[b]
      BY Zenon, <1>2, <1>6, <1>11, <2>3, <3>1
    <3>3. ASSUME NEW b \in called \cap active', f \in active', p[f] <= p[b]
          PROVE  FALSE
      <4>1. b \in active /\ f \in active /\ ~(p[h] <= p[b])
        BY Zenon, <1>2, <2>3, <3>1, <3>3
      <4> QED
        BY <1>2, <1>4, <1>12, <3>3, <4>1
    <3> QED
      BY Zenon, <1>8, <3>1, <3>2, <3>3 DEF Ahead
  <2>5. CASE q # g
    <3>1. next'[q] = next[q] /\ next[q] # h
      BY Zenon, <1>3, <1>5, <1>7, <2>1, <2>5 DEF Linked
    <3>2. Coming' = next[q]
      BY Zenon, <2>2, <3>1
    <3>3. Coming' \in Ring'
      BY Zenon, <1>8, <2>3, <3>1, <3>2
    <3>4. \A b \in due \ {h} : b \in active' /\ Ahead(p, Coming, b)'
      BY <1>2, <2>3, <3>1, <3>2 DEF Ahead
    <3>5. \A b \in called \cap active' : ~Ahead(p, Coming, b)'
      BY <1>2, <2>3, <3>2 DEF Ahead
    <3> QED
      BY Zenon, <3>3, <3>4, <3>5
  <2> QED
    BY Zenon, <2>4, <2>5
<1> QED
  BY Zenon, <1>9, <1>10, <1>13, <1>14 DEF WatchInv

\* uv__run_idle goes from a handle to the next in the order of the list.
LEMMA WalkKeeps ==
  ASSUME Apart, WatchInv, Watch!RunIdle \/ Watch!Walk
  PROVE  WatchInv'
<1>1. PICK p, lo : Ordered(p, lo) /\ Walking(p)
  BY Zenon DEF WatchInv
<1>2. WatchTypes /\ Linked
  BY Zenon DEF WatchInv
<1>3. next' = next /\ prev' = prev /\ active' = active
  BY Zenon DEF Watch!RunIdle, Watch!Walk, Watch!Callback, Watch!CallbackReturns, Watch!RunDone
<1>4. Linked' /\ Ordered(p, lo)' /\ Ring' = Ring
  BY Zenon, <1>1, <1>2, <1>3 DEF Linked, Ordered, Ring
<1>5. CASE Watch!RunIdle
  <2>1. /\ q = Watch!None /\ q' = next[ListHead] /\ in_idle_cb' = in_idle_cb
        /\ due' = active /\ called' = {}
    BY Zenon, <1>5 DEF Watch!RunIdle
  <2>2. ~in_idle_cb /\ next[ListHead] \in Ring
    BY Zenon, <1>2, <2>1 DEF WatchTypes, Linked, Ring, Apart
  <2>3. WatchTypes'
    BY Zenon, <1>2, <1>3, <2>1, <2>2 DEF WatchTypes, Ring
  <2>4. Coming' = next[ListHead]
    BY Zenon, <2>1, <2>2 DEF Coming
  <2>5. \A b \in active : next[ListHead] \in active /\ p[next[ListHead]] <= p[b]
    BY Zenon, <1>1 DEF Ordered
  <2>6. Walking(p)'
    BY <1>3, <1>4, <2>1, <2>2, <2>4, <2>5 DEF Walking, Ahead
  <2> QED
    BY Zenon, <1>4, <2>3, <2>6 DEF WatchInv
<1>6. CASE Watch!Callback
  <2>1. /\ q \in Idles /\ ~in_idle_cb /\ in_idle_cb' = TRUE /\ q' = q
        /\ due' = due \ {q} /\ called' = called \cup {q}
    BY Zenon, <1>6 DEF Watch!Callback
  <2>2. WatchTypes'
    BY Zenon, <1>2, <1>3, <2>1 DEF WatchTypes
  <2>3. Walking(p)'
    <3> SUFFICES /\ next[q] \in Ring
                 /\ \A b \in due \ {q} : b \in active /\ Ahead(p, next[q], b)
                 /\ \A b \in (called \cup {q}) \cap active : ~Ahead(p, next[q], b)
      <4>1. Coming' = next[q]
        BY Zenon, <1>3, <2>1 DEF Coming
      <4> QED
        BY <1>3, <1>4, <2>1, <4>1 DEF Walking, Ahead
    <3>1. /\ q \in active
          /\ \A b \in due : b \in active /\ p[q] <= p[b]
          /\ \A b \in called \cap active : ~(p[q] <= p[b])
      BY Zenon, <1>1, <2>1 DEF Walking, Ahead, Coming, Ring, Apart
    <3>2. next[q] \in Ring
      BY Zenon, <1>2, <3>1 DEF Linked, Ring
    <3>3. \A a \in active : p[a] \in Int
      BY Zenon, <1>1, <1>2 DEF Ordered, WatchTypes
    <3>4. next[q] \in active => p[q] < p[next[q]]
      BY Zenon, <1>1, <3>1 DEF Ordered
    <3>5. ASSUME NEW b \in due \ {q}
          PROVE  b \in active /\ next[q] \in active /\ p[next[q]] <= p[b]
      <4>1. b \in active /\ p[q] # p[b]
        BY Zenon, <1>1, <3>1 DEF Ordered
      <4>2. p[q] < p[b]
        BY <3>1, <3>3, <4>1
      <4> QED
        BY Zenon, <1>1, <3>1, <4>1, <4>2 DEF Ordered
    <3>6. ASSUME NEW b \in (called \cup {q}) \cap active, next[q] \in active, p[next[q]] <= p[b]
          PROVE  FALSE
      BY <3>1, <3>3, <3>4, <3>6
    <3> QED
      BY Zenon, <3>2, <3>5, <3>6 DEF Ahead
  <2> QED
    BY Zenon, <1>4, <2>2, <2>3 DEF WatchInv
<1>7. CASE Watch!CallbackReturns
  <2>1. /\ in_idle_cb /\ in_idle_cb' = FALSE /\ q' = next[q]
        /\ due' = due /\ called' = called
    BY Zenon, <1>7 DEF Watch!CallbackReturns, Watch!QUEUE_NEXT
  <2>2. WatchTypes'
    BY Zenon, <1>2, <1>3, <2>1 DEF WatchTypes
  <2>3. q # Watch!None /\ Coming = next[q] /\ Coming' = next[q]
    BY Zenon, <1>2, <2>1 DEF WatchTypes, Coming, Apart
  <2>4. Walking(p)'
    BY <1>1, <1>3, <1>4, <2>1, <2>3 DEF Walking, Ahead
  <2> QED
    BY Zenon, <1>4, <2>2, <2>4 DEF WatchInv
<1>8. CASE Watch!RunDone
  <2>1. /\ q = ListHead /\ q' = Watch!None /\ in_idle_cb' = in_idle_cb
        /\ due' = due /\ called' = called
    BY Zenon, <1>8 DEF Watch!RunDone
  <2>2. WatchTypes' /\ Walking(p)'
    BY Zenon, <1>2, <1>3, <2>1 DEF WatchTypes, Walking, Apart
  <2> QED
    BY Zenon, <1>4, <2>2 DEF WatchInv
<1> QED
  BY Zenon, <1>5, <1>6, <1>7, <1>8 DEF Watch!Walk

\* Every step keeps the invariant of the list and of the walk over it.
LEMMA WatchInductive ==
  ASSUME Apart, ~Derail
  PROVE  WatchInv /\ [Watch!Next]_(Watch!vars) => WatchInv'
<1> SUFFICES ASSUME WatchInv, [Watch!Next]_(Watch!vars)
             PROVE  WatchInv'
  OBVIOUS
<1>1. CASE UNCHANGED Watch!vars
  <2>1. PICK pos, lo : Ordered(pos, lo) /\ Walking(pos)
    BY Zenon DEF WatchInv
  <2>2. /\ next' = next /\ prev' = prev /\ active' = active /\ q' = q
        /\ in_idle_cb' = in_idle_cb /\ due' = due /\ called' = called
    BY Zenon, <1>1 DEF Watch!vars
  <2>3. WatchTypes' /\ Linked' /\ Ring' = Ring /\ Coming' = Coming
    BY Zenon, <2>2 DEF WatchInv, WatchTypes, Linked, Ring, Coming
  <2>4. Ordered(pos, lo)'
    BY Zenon, <2>1, <2>2 DEF Ordered
  <2>5. Walking(pos)'
    BY Zenon, <2>1, <2>2, <2>3 DEF Walking, Ahead
  <2> QED
    BY Zenon, <2>3, <2>4, <2>5 DEF WatchInv
<1> QED
  BY Zenon, <1>1, StartKeeps, StopKeeps, WalkKeeps DEF Watch!Next

\* However many handles there are, and whatever the callbacks start and stop before
\* they stop their own handle, the links of the list stay inverse to one another and
\* uv__run_idle has called just the handles that lie before the place it is at.
THEOREM WatchInvHolds ==
  ASSUME Apart, ~Derail
  PROVE  Watch!Spec => []WatchInv
<1>1. Watch!Init => WatchInv
  BY Zenon, WatchInitInv
<1>2. WatchInv /\ [Watch!Next]_(Watch!vars) => WatchInv'
  BY Zenon, WatchInductive
<1> QED
  BY <1>1, <1>2, PTL DEF Watch!Spec

\* WalkExact: a pass of uv__run_idle calls no handle that is stopped and none
\* twice, and at its end has called whoever was active all along, when no callback
\* changes the list after it stopped its own handle.
THEOREM EachIdleOnce ==
  ASSUME Apart, ~Derail
  PROVE  Watch!Spec => Watch!WalkExact
<1> DEFINE Exact == /\ in_idle_cb' /\ ~in_idle_cb => q \in active \ called
                    /\ Watch!RunDone => due = {}
<1>1. ASSUME WatchInv, [Watch!Next]_(Watch!vars)
      PROVE  [Exact]_(Watch!vars)
  <2> SUFFICES ASSUME Watch!Next
               PROVE  /\ in_idle_cb' /\ ~in_idle_cb => q \in active \ called
                      /\ Watch!RunDone => due = {}
    BY Zenon, <1>1
  <2>1. PICK p, lo : Ordered(p, lo) /\ Walking(p)
    BY Zenon, <1>1 DEF WatchInv
  <2>2. WatchTypes
    BY Zenon, <1>1 DEF WatchInv
  <2>3. ASSUME in_idle_cb', ~in_idle_cb
        PROVE  q \in active \ called
    <3>1. Watch!Callback
      BY Zenon, <2>3 DEF Watch!Next, Watch!Walk, Watch!uv_idle_start, Watch!uv_idle_stop,
        Watch!RunIdle, Watch!CallbackReturns, Watch!RunDone
    <3>2. q \in Idles /\ ~in_idle_cb
      BY Zenon, <3>1 DEF Watch!Callback
    <3>3. q \in active /\ \A b \in called \cap active : ~(p[q] <= p[b])
      BY Zenon, <1>1, <2>1, <3>2 DEF Walking, Ahead, Coming, Ring, Apart
    <3>4. p[q] <= p[q]
      <4>1. p[q] \in Int
        BY Zenon, <2>1, <3>2 DEF Ordered
      <4> QED
        BY <4>1
    <3> QED
      BY Zenon, <3>3, <3>4
  <2>4. ASSUME Watch!RunDone
        PROVE  due = {}
    BY Zenon, <1>1, <2>1, <2>2, <2>4
       DEF Watch!RunDone, WatchTypes, Walking, Ahead, Coming, Apart
  <2> QED
    BY Zenon, <2>3, <2>4
<1> QED
  BY <1>1, WatchInvHolds, PTL DEF Watch!Spec, Watch!WalkExact

=============================================================================
