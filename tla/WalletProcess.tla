---------------------------- MODULE WalletProcess ----------------------------
(***************************************************************************)
(* cmd/wallet: load the configuration, open the pool, make sure the system *)
(* account exists, serve until a signal or the listener ends it, let        *)
(* srv.Shutdown drain the requests, close the pool (deferred), exit.        *)
(***************************************************************************)
EXTENDS HttpApi

CONSTANTS Configs,         \* environments the process may be started with
          ShutdownTimeout  \* deadline of srv.Shutdown, in ticks

ASSUME ProcessAssumption ==
  /\ ShutdownTimeout \in Nat
  /\ \A e \in Configs : e.min \in Nat /\ e.max \in Int /\ e.rps \in {0, 1} /\ e.burst \in Int

VARIABLES
  proc,    \* where run() is
  signal,  \* ctx is done: SIGINT or SIGTERM has arrived
  err,     \* the error that run() is returning, "nil" if none
  pool,    \* "none", "open", "closing" or "closed"
  left     \* ticks until the context of srv.Shutdown expires

procVars == <<proc, signal, err, pool, left>>
vars == <<config, httpVars, procVars>>

\* loadConfig.  wellFormed: the DSN and the key are set, the DSN, the address and
\* the strategy are of their form, and what is given as a number is one in its
\* range.  min = 0 stands for unset.
ValidConfig(e) ==
  /\ e.wellFormed
  /\ e.max > 0
  /\ e.min <= e.max
  /\ e.readKey # "same"
  /\ e.rps > 0 => e.burst > 0

Init ==
  /\ config \in Configs
  /\ HttpInit
  /\ proc = "config" /\ signal = FALSE /\ err = "nil" /\ pool = "none" /\ left = 0

\* run() moves on, or returns e; its deferred pool.Close runs once a pool is open.
Proceed(to) == proc' = to /\ UNCHANGED err
Return(e) ==
  /\ err' = e
  /\ proc' = IF pool = "none" THEN "exited" ELSE "closing"

LoadConfig ==
  /\ proc = "config"
  /\ IF ValidConfig(config) THEN Proceed("pool") ELSE Return("config")
  /\ UNCHANGED <<signal, pool, left>> /\ NoRequestStep

\* NewPool, which pings; it may fail, as does EnsureSystem.
OpenPool ==
  /\ proc = "pool"
  /\ \/ Proceed("seed") /\ pool' = "open"
     \/ Return("database") /\ UNCHANGED pool
  /\ UNCHANGED <<signal, left>> /\ NoRequestStep

EnsureSystem ==
  /\ proc = "seed"
  /\ Proceed("serving") \/ Return("database")
  /\ UNCHANGED <<signal, pool, left>> /\ NoRequestStep

\* SIGINT or SIGTERM, at any time.
Signal ==
  /\ ~ signal /\ proc # "exited"
  /\ signal' = TRUE
  /\ UNCHANGED <<proc, err, pool, left>> /\ NoRequestStep

\* ListenAndServe returns: run() returns without Shutdown.
ListenerFails ==
  /\ proc = "serving"
  /\ Return("listener")
  /\ UNCHANGED <<signal, pool, left>> /\ NoRequestStep

\* srv.Shutdown begins: the listener and idle connections are closed.
Shutdown ==
  /\ proc = "serving" /\ signal
  /\ Proceed("draining")
  /\ left' = ShutdownTimeout
  /\ UNCHANGED <<signal, pool>> /\ NoRequestStep

\* Variant: the server is closed without waiting for its requests.
DrainedAtOnce ==
  /\ proc = "draining"
  /\ Return("nil")
  /\ left' = 0
  /\ UNCHANGED <<signal, pool>> /\ NoRequestStep

\* Shutdown finds every connection idle and returns nil.
Drained ==
  /\ proc = "draining"
  /\ \A c \in Conns : req[c].phase = "idle"
  /\ Return("nil")
  /\ left' = 0
  /\ UNCHANGED <<signal, pool>> /\ NoRequestStep

\* The context of Shutdown expires first.
DrainTimesOut ==
  /\ proc = "draining" /\ left = 0
  /\ Return("deadline")
  /\ UNCHANGED <<signal, pool, left>> /\ NoRequestStep

\* pool.Close refuses new acquisitions, then waits for the connections in use.
ClosePool ==
  /\ proc = "closing" /\ pool = "open"
  /\ pool' = "closing"
  /\ UNCHANGED <<proc, signal, err, left>> /\ NoRequestStep

PoolClosed ==
  /\ pool = "closing" /\ Busy = {}
  /\ pool' = "closed" /\ proc' = "exited"
  /\ UNCHANGED <<signal, err, left>> /\ NoRequestStep

\* New requests: the listener is open, or it failed and kept-alive connections
\* are still served.
Accepting == proc = "serving" \/ (proc = "closing" /\ err = "listener")

Serving == proc \in {"serving", "draining", "closing"}

\* The goroutine of a connection takes a step.
ServeStep(c) == Serving /\ Handle(c, pool = "open") /\ UNCHANGED <<config, procVars>>
ForcedStep(c) == Serving /\ Forced(c) /\ UNCHANGED <<config, procVars>>

ConnectStep(c) == Accepting /\ Connect(c) /\ UNCHANGED <<config, procVars>>

\* Time passes while the server runs.
Tick ==
  /\ Serving
  /\ proc = "draining" => left > 0
  /\ HttpTick
  /\ left' = CountDown(left)
  /\ UNCHANGED <<config, proc, signal, err, pool>>

\* The process is gone; requests still on a connection are cut off with it.
Gone == proc = "exited" /\ UNCHANGED vars

Run ==
  \/ LoadConfig \/ OpenPool \/ EnsureSystem \/ Shutdown \/ Drained \/ DrainTimesOut
  \/ ClosePool \/ PoolClosed

Next ==
  \/ Run \/ Signal \/ ListenerFails \/ Tick \/ Gone
  \/ \E c \in Conns : ConnectStep(c) \/ ServeStep(c)

Spec == Init /\ [][Next]_vars

\* run() and the goroutines are scheduled, and time passes.  Nothing is assumed
\* of clients, the database, signals or the listener.
FairSpec ==
  /\ Spec
  /\ WF_vars(Run) /\ WF_vars(Tick)
  /\ \A c \in Conns : WF_vars(ForcedStep(c))

-----------------------------------------------------------------------------
\* The process, its requests and its limiters have their types.
TypeOK ==
  /\ config \in Configs /\ req \in [Conns -> Requests]
  /\ reply \in [status : Nat, logged : Nat, counted : Nat]
  /\ lim \in [Scopes -> [tokens : Int, event : Int]] /\ ideal \in [Scopes -> Int]
  /\ proc \in {"config", "pool", "seed", "serving", "draining", "closing", "exited"}
  /\ signal \in BOOLEAN /\ err \in {"nil", "config", "database", "listener", "deadline"}
  /\ pool \in {"none", "open", "closing", "closed"} /\ left \in 0 .. ShutdownTimeout

\* When run() returns nil, every request was finished before the pool began to
\* close: none meets a closed pool and none is cut off by the exit (stop
\* accepting, drain, close the pool, exit).
DrainedBeforeClose ==
  err = "nil" /\ proc \in {"closing", "exited"} => \A c \in Conns : req[c].phase = "idle"

\* A signal ends the process, whatever its requests are doing: no header, body,
\* query or wait for a connection can hold up Shutdown and pool.Close for ever.
ShutdownEnds == signal ~> proc = "exited"
=============================================================================
