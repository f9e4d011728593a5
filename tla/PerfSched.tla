----------------------------- MODULE PerfSched -----------------------------
(***************************************************************************)
(* The scheduling of the perf pipeline: who runs when, and for how long.   *)
(* This is the pipeline of PerfPipeline without the contents of the        *)
(* records: a ring is a number of unread records, mmap_read_top returns a  *)
(* record of some non-empty ring of the evlist or, as the kernel may write *)
(* behind its back, nothing.  With no history the state is finite while    *)
(* the kernel writes forever, so that one can ask what must eventually     *)
(* happen when events never stop coming.  PerfPipeline implements it.      *)
(***************************************************************************)
EXTENDS Integers, FiniteSets

CONSTANTS Handles, NoHandle, NrMmaps, Capacity, ReadEventsRate

ASSUME SchedAssumption ==
  /\ NoHandle \notin Handles
  /\ NrMmaps \in Nat \ {0}
  /\ Capacity \in Nat \ {0}
  /\ ReadEventsRate \in Nat \ {0}

Mmaps == 1 .. NrMmaps
Rings == Handles \X Mmaps

VARIABLES
  opened,    \* handles of perf_handle_tbl
  enabled,   \* handles whose events are enabled
  unread,    \* records of each ring not yet read
  poll,      \* rings epoll would report
  sig,       \* SIGINT or SIGTERM: "none", "pending", "reported"
  pc,        \* where the process is
  batch,     \* rings reported and not yet called back
  drain,     \* handles still to be flushed
  flushing,  \* mmap_read_consume was called by the end notification
  cur,       \* handle being read
  held,      \* ring of the record being processed, 0 if none
  nr_read    \* local of mmap_read_consume

vars == <<opened, enabled, unread, poll, sig, pc, batch, drain, flushing, cur,
          held, nr_read>>

Init ==
  /\ opened = {} /\ enabled = {}
  /\ unread = [r \in Rings |-> 0]
  /\ poll = {}
  /\ sig = "none"
  /\ pc = "script"
  /\ batch = {} /\ drain = {}
  /\ flushing = FALSE
  /\ cur = NoHandle
  /\ held = 0
  /\ nr_read = 0

-----------------------------------------------------------------------------

\* The kernel (external) appends a record, or a LOST record and a record,
\* and may make the ring readable.  A record that is being processed still
\* occupies its ring.
KernelWrite(r) ==
  /\ r[1] \in enabled
  /\ pc # "exited"
  /\ \E n \in {1, 2} :
       /\ unread[r] + n + (IF held # 0 /\ r = <<cur, held>> THEN 1 ELSE 0)
            <= Capacity
       /\ unread' = [unread EXCEPT ![r] = @ + n]
  /\ poll' \in {poll, poll \cup {r}}
  /\ UNCHANGED <<opened, enabled, sig, pc, batch, drain, flushing, cur, held,
                 nr_read>>

Interrupt ==
  /\ pc \notin {"script", "exited"}
  /\ sig = "none"
  /\ sig' = "pending"
  /\ UNCHANGED <<opened, enabled, unread, poll, pc, batch, drain, flushing,
                 cur, held, nr_read>>

Open(h) ==
  /\ pc = "script" \/ (pc = "callback" /\ ~flushing)
  /\ h \notin opened
  /\ opened' = opened \cup {h}
  /\ UNCHANGED <<enabled, unread, poll, sig, pc, batch, drain, flushing, cur,
                 held, nr_read>>

\* perf.on fails, or the callback raises.
Abort ==
  /\ pc \in {"script", "callback"}
  /\ pc' = "exited"
  /\ held' = 0
  /\ UNCHANGED <<opened, enabled, unread, poll, sig, batch, drain, flushing,
                 cur, nr_read>>

StartLoop ==
  /\ pc = "script"
  /\ pc' = "idle"
  /\ UNCHANGED <<opened, enabled, unread, poll, sig, batch, drain, flushing,
                 cur, held, nr_read>>

Enable(h) ==
  /\ pc = "idle"
  /\ h \in opened \ enabled
  /\ enabled' = enabled \cup {h}
  /\ UNCHANGED <<opened, unread, poll, sig, pc, batch, drain, flushing, cur,
                 held, nr_read>>

EpollWait ==
  /\ pc = "idle"
  /\ poll # {} \/ sig = "pending"
  /\ batch' = poll
  /\ poll' = {}
  /\ sig' = IF sig = "pending" THEN "reported" ELSE sig
  /\ pc' = "batch"
  /\ UNCHANGED <<opened, enabled, unread, drain, flushing, cur, held, nr_read>>

PollCallback(r) ==
  /\ pc = "batch"
  /\ r \in batch
  /\ batch' = batch \ {r}
  /\ cur' = r[1]
  /\ flushing' = FALSE
  /\ pc' = "while"
  /\ UNCHANGED <<opened, enabled, unread, poll, sig, drain, held, nr_read>>

\* Mutant: the loop over the reported fds is left after any callback.
BatchCut ==
  /\ pc = "batch"
  /\ sig # "reported"
  /\ batch' = {}
  /\ pc' = "idle"
  /\ UNCHANGED <<opened, enabled, unread, poll, sig, drain, flushing, cur,
                 held, nr_read>>

BatchDone ==
  /\ pc = "batch"
  /\ batch = {}
  /\ sig # "reported"
  /\ pc' = "idle"
  /\ UNCHANGED <<opened, enabled, unread, poll, sig, batch, drain, flushing,
                 cur, held, nr_read>>

CallEnd ==
  /\ pc = "batch"
  /\ sig = "reported"
  /\ drain' = opened
  /\ pc' = "notify"
  /\ UNCHANGED <<opened, enabled, unread, poll, sig, batch, flushing, cur,
                 held, nr_read>>

\* Mutant: the events stay enabled during the flush.
StillEnabled(h) == enabled

\* perf_evlist__disable
Disabled(h) == enabled \ {h}

Flush(h) ==
  /\ pc = "notify"
  /\ h \in drain
  /\ drain' = drain \ {h}
  /\ enabled' = Disabled(h)
  /\ cur' = h
  /\ flushing' = TRUE
  /\ pc' = "while"
  /\ UNCHANGED <<opened, unread, poll, sig, batch, held, nr_read>>

Exit ==
  /\ pc = "notify"
  /\ drain = {}
  /\ pc' = "exited"
  /\ UNCHANGED <<opened, enabled, unread, poll, sig, batch, drain, flushing,
                 cur, held, nr_read>>

Return ==
  /\ nr_read' = 0
  /\ pc' = IF flushing THEN "notify" ELSE "batch"

\* nr_read < max_nr_read
BelowLimit == flushing \/ nr_read < ReadEventsRate

\* The head of the while loop.  A flush does not count: its limit is out of
\* reach.
While ==
  /\ pc = "while"
  /\ \/ /\ BelowLimit
        /\ nr_read' = IF flushing THEN 0 ELSE nr_read + 1
        /\ pc' = "scan"
     \/ /\ ~BelowLimit
        /\ Return
  /\ UNCHANGED <<opened, enabled, unread, poll, sig, batch, drain, flushing,
                 cur, held>>

\* mmap_read_top returns NULL.
ReadNothing ==
  /\ pc = "scan"
  /\ Return
  /\ UNCHANGED <<opened, enabled, unread, poll, sig, batch, drain, flushing,
                 cur, held>>

\* mmap_read_top returns a record: a sample goes to the callback, another
\* record to the machine, and one that does not parse ends the read.
ReadTop ==
  /\ pc = "scan"
  /\ \E c \in Mmaps :
       /\ unread[<<cur, c>>] > 0
       /\ unread' = [unread EXCEPT ![<<cur, c>>] = @ - 1]
       /\ \/ Return /\ UNCHANGED held
          \/ /\ held' = c
             /\ pc' \in {"callback", "consume"}
             /\ UNCHANGED nr_read
  /\ UNCHANGED <<opened, enabled, poll, sig, batch, drain, flushing, cur>>

CallbackReturns ==
  /\ pc = "callback"
  /\ pc' = "consume"
  /\ UNCHANGED <<opened, enabled, unread, poll, sig, batch, drain, flushing,
                 cur, held, nr_read>>

Consume ==
  /\ pc = "consume"
  /\ held' = 0
  /\ pc' = "while"
  /\ UNCHANGED <<opened, enabled, unread, poll, sig, batch, drain, flushing,
                 cur, nr_read>>

\* The steps of the process, but those left to the user: opening more
\* handles and failing.
Process ==
  \/ StartLoop \/ EpollWait \/ BatchDone \/ CallEnd \/ Exit
  \/ While \/ ReadNothing \/ ReadTop \/ CallbackReturns \/ Consume
  \/ \E h \in Handles : Enable(h) \/ Flush(h)
  \/ \E r \in Rings : PollCallback(r)

Exited == pc = "exited" /\ UNCHANGED vars

Next ==
  \/ Process
  \/ \E r \in Rings : KernelWrite(r)
  \/ \E h \in Handles : Open(h)
  \/ Interrupt \/ Abort \/ Exited

SafeSpec == Init /\ [][Next]_vars

\* The operating system runs the process, and the user's callback returns.
\* Nothing is assumed of the kernel: it may write at any rate or not at all.
Spec == SafeSpec /\ WF_vars(Process)

-----------------------------------------------------------------------------

\* The type of every variable; a ring holds at most Capacity records, and a
\* poll callback reads at most read_events_rate of them.
TypeOK ==
  /\ opened \in SUBSET Handles /\ enabled \in SUBSET opened
  /\ unread \in [Rings -> 0 .. Capacity]
  /\ poll \in SUBSET Rings /\ batch \in SUBSET Rings
  /\ sig \in {"none", "pending", "reported"}
  /\ pc \in {"script", "idle", "batch", "notify", "while", "scan",
             "callback", "consume", "exited"}
  /\ drain \in SUBSET opened
  /\ flushing \in BOOLEAN
  /\ cur \in Handles \cup {NoHandle}
  /\ held \in 0 .. NrMmaps
  /\ nr_read \in 0 .. ReadEventsRate

\* SIGINT and SIGTERM end the process, even when events never stop coming:
\* read_events_rate bounds a poll callback, and a flush reads rings whose
\* events are disabled.
SignalEnds == sig # "none" ~> pc = "exited"

\* A ring that became readable has its evlist read or the process ends,
\* whatever the other rings do: every wakeup is answered.
WakeupAnswered ==
  \A r \in Rings : r \in poll ~> (pc = "while" /\ cur = r[1]) \/ pc = "exited"

=============================================================================
