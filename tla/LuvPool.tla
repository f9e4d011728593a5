------------------------------- MODULE LuvPool -------------------------------
(***************************************************************************)
(* luv's side of the thread pool (luv/lreq.c, req.c, fs.c, work.c): who    *)
(* keeps the memory of a request alive while libuv works on it.  A request *)
(* and a work context are Lua userdata, collected when neither the registry*)
(* nor the script refers to them; luv_req_t is malloc'd and freed by       *)
(* luv_cleanup_req.  The pool itself is what UvThreadPool implements.      *)
(***************************************************************************)
EXTENDS Naturals, FiniteSets

CONSTANTS
  FsReqs,    \* file system requests
  Scandirs,  \* those made by uv.fs_scandir
  Works,     \* luv_work_t
  Ctxs,      \* luv_work_ctx_t
  Rash,      \* requests the script may cancel, or read before they are reported
  Shared     \* contexts the script may queue a work of while another is in use

Requests == FsReqs \cup Works
Objects == Requests \cup Ctxs
None == "none"

VARIABLES
  phase,    \* of a request in the pool
  memory,   \* of a userdata: "none", "alive" or "collected"
  data,     \* requests whose req->data points to a luv_req_t
  registry, \* objects the registry refers to
  held,     \* objects the script refers to
  ctx,      \* work->ctx
  failed,   \* scandirs whose req->result is an error
  cb,       \* the request whose callback runs
  crashed   \* has the process dereferenced NULL?

vars == <<phase, memory, data, registry, held, ctx, failed, cb, crashed>>

Pool == INSTANCE WorkRequests WITH Reqs <- Requests

Init ==
  /\ phase = [r \in Requests |-> "new"]
  /\ memory = [o \in Objects |-> "none"]
  /\ data = {} /\ registry = {} /\ held = {}
  /\ ctx = [w \in Works |-> None]
  /\ failed = {}
  /\ cb = None /\ crashed = FALSE

InPool(r) == phase[r] \in {"queued", "running", "ran", "cancelled"}

\* libuv or the callback it called still uses the request.
InUse(r) == InPool(r) \/ cb = r

lua_newuserdata(o) ==
  memory[o] = "none" /\ memory' = [memory EXCEPT ![o] = "alive"]

luv_cleanup_req(r) == registry' = registry \ {r} /\ data' = data \ {r}

-----------------------------------------------------------------------------
(* The file system: FS_CALL, its callback, and the reading of a directory. *)

\* A call with a callback.
FsAsync(r) ==
  /\ lua_newuserdata(r) /\ Pool!Queue(r)
  /\ data' = data \cup {r} /\ registry' = registry \cup {r}
  /\ held' = held \cup {r}
  /\ UNCHANGED <<ctx, failed, cb, crashed>>

\* A call without a callback is over at once, and only a scandir's request
\* remains; a call that fails is cleaned up at once.
FsSync(r) ==
  /\ lua_newuserdata(r)
  /\ \/ r \in Scandirs /\ data' = data \cup {r}
        /\ registry' = registry \cup {r} /\ held' = held \cup {r}
     \/ UNCHANGED <<data, registry, held>>
  /\ UNCHANGED <<phase, ctx, failed, cb, crashed>>

\* The callback is found in data->callback_ref through req->data; it is given the
\* request of a directory, or the error.
luv_fs_cb(r) ==
  /\ cb = None /\ Pool!Report(r)
  /\ \/ r \in data /\ cb' = r /\ held' = held \cup ({r} \cap (Scandirs \ failed))
        /\ UNCHANGED crashed
     \/ r \notin data /\ crashed' = TRUE /\ UNCHANGED <<cb, held>>
  /\ UNCHANGED <<memory, data, registry, ctx, failed>>

\* The request of a scandir remains, that of a failed one too.
FsReturns(r) ==
  /\ cb = r /\ cb' = None
  /\ IF r \in Scandirs THEN UNCHANGED <<data, registry>> ELSE luv_cleanup_req(r)
  /\ UNCHANGED <<phase, memory, held, ctx, failed, crashed>>

\* The end of the directory.  A failed scandir has no entries, and reading them
\* dereferences NULL; before the request has run, the index is not initialized.
\* The code checks only req->data: that the script waits for the callback, unless
\* the request is rash, is the contract of uv_fs_scandir_next (fs.rst).
luv_fs_scandir_next(r) ==
  /\ r \in Scandirs \cap held \cap data
  /\ InPool(r) => r \in Rash
  /\ \/ r \notin failed /\ luv_cleanup_req(r) /\ UNCHANGED crashed
     \/ /\ r \in failed \/ phase[r] \in {"queued", "running"}
        /\ crashed' = TRUE /\ UNCHANGED <<data, registry>>
  /\ UNCHANGED <<phase, memory, held, ctx, failed, cb>>

luv_cancel(r) ==
  /\ r \in Rash \cap FsReqs \cap held \cap data
  /\ Pool!Cancel(r)
  /\ luv_cleanup_req(r)
  /\ UNCHANGED <<memory, held, ctx, failed, cb, crashed>>

-----------------------------------------------------------------------------
(* Work for the pool: uv.new_work and the method queue of a context.       *)

luv_new_work(c) ==
  /\ lua_newuserdata(c)
  /\ held' = held \cup {c}
  /\ UNCHANGED <<phase, data, registry, ctx, failed, cb, crashed>>

\* Mutant: only the context is referred to.
RefCtx(w, c) == {c}

RefUp(w, c) == {w, c}

luv_queue_work(w, c) ==
  /\ c \in held
  /\ c \in Shared \/ \A v \in Works : InUse(v) => ctx[v] # c
  /\ lua_newuserdata(w) /\ Pool!Queue(w)
  /\ ctx' = [ctx EXCEPT ![w] = c]
  /\ registry' = registry \cup RefUp(w, c)
  /\ UNCHANGED <<data, held, failed, cb, crashed>>

\* luv_after_work_cb up to the call of the script, which may queue more.
luv_after_work_cb(w) ==
  /\ cb = None /\ Pool!Report(w)
  /\ cb' = w
  /\ UNCHANGED <<memory, data, registry, held, ctx, failed, crashed>>

\* Mutant: the context stays in the registry.
UnrefWork(w) == {w}

RefDown(w) == {w, ctx[w]}

AfterWorkReturns(w) ==
  /\ cb = w /\ cb' = None
  /\ registry' = registry \ RefDown(w)
  /\ UNCHANGED <<phase, memory, data, held, ctx, failed, crashed>>

-----------------------------------------------------------------------------
(* The pool's threads, the script's variables, and the collector.          *)

PoolThread(r) ==
  /\ \/ Pool!Start(r) /\ UNCHANGED failed
     \/ Pool!Finish(r) /\ failed' \in {failed, failed \cup ({r} \cap Scandirs)}
  /\ UNCHANGED <<memory, data, registry, held, ctx, cb, crashed>>

Forget(o) ==
  /\ o \in held /\ held' = held \ {o}
  /\ UNCHANGED <<phase, memory, data, registry, ctx, failed, cb, crashed>>

\* Nothing refers to the userdata; the __gc of a context frees its code.
Collect(o) ==
  /\ memory[o] = "alive" /\ o \notin registry \cup held
  /\ memory' = [memory EXCEPT ![o] = "collected"]
  /\ UNCHANGED <<phase, data, registry, held, ctx, failed, cb, crashed>>

\* The script makes no more calls, or the process is gone.
Idle == (crashed \/ \A r \in Requests : ~InUse(r)) /\ UNCHANGED vars

Step ==
  \/ \E r \in FsReqs : \/ FsAsync(r) \/ FsSync(r) \/ luv_fs_cb(r) \/ FsReturns(r)
                       \/ luv_fs_scandir_next(r) \/ luv_cancel(r)
  \/ \E c \in Ctxs : luv_new_work(c)
  \/ \E w \in Works, c \in Ctxs : luv_queue_work(w, c)
  \/ \E w \in Works : luv_after_work_cb(w) \/ AfterWorkReturns(w)
  \/ \E r \in Requests : PoolThread(r)
  \/ \E o \in Objects : Forget(o) \/ Collect(o)

Next == (~crashed /\ Step) \/ Idle

Spec == Init /\ [][Next]_vars

-----------------------------------------------------------------------------
(* Properties.                                                             *)

\* What libuv works on: the request, and of a file system request the luv_req_t
\* its callback is found through.
ReqKept(r) == InPool(r) => memory[r] = "alive" /\ (r \in FsReqs => r \in data)

\* The context of a work, with the code a pool thread runs and the callback the
\* loop calls.
CtxAlive(w) == InUse(w) => memory[ctx[w]] = "alive"

\* Whatever a pool thread or the loop uses of a request or of a context is still
\* there, however the collector, the script and the pool interleave, for all that
\* are neither rash nor shared, and whatever is done to those that are (lreq.c,
\* fs.c, work.c).  luv keeps a request over its callback as well, unless the
\* callback reads the directory to its end.
MemoryKept ==
  /\ \A r \in Requests \ Rash :
       ReqKept(r) /\ (cb = r => memory[r] = "alive" \/ r \in Scandirs \ data)
  /\ \A w \in Works : ctx[w] \notin Shared => CtxAlive(w)

\* No request is given up before its callback, a cancelled one either: "It's **not**
\* safe to free the memory associated with the request until the callback is
\* called" (libuv's docs/src/request.rst).  luv_cancel gives it up.
KeptUntilCallback == \A r \in Requests : ReqKept(r)

\* A queued work refers to its context: "ctx should ref up" (luv_queue_work).
\* luv_after_work_cb drops the reference for all works of the context.
CtxRefUp == \A w \in Works : CtxAlive(w)

\* What the registry and the luv_req_t's are left to, on every path through
\* luv_cleanup_req, luv_queue_work and luv_after_work_cb: just the works in use and
\* the contexts of such works; the file system requests in use; and scandirs.  Of
\* these a failed one stays for ever: luv_fs_cb does not clean it up, and
\* luv_fs_scandir_next cannot.
RefsExact ==
  LET busy == {w \in Works : InUse(w)}
  IN  /\ registry \cap Works = busy
      /\ registry \cap Ctxs \subseteq {ctx[w] : w \in busy}
      /\ {ctx[w] : w \in busy} \ Shared \subseteq registry
      /\ registry \cap FsReqs = data
      /\ \A r \in data \ Scandirs : InUse(r)
      /\ failed \ Rash \subseteq data

=============================================================================
