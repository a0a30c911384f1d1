----------------------------- MODULE Lifecycle -----------------------------
(***************************************************************************)
(* A GOLFS process from start to exit: run and serve of cmd/golfs/main.go. *)
(* The main goroutine, one goroutine per listener, signals and requests    *)
(* interleave; http.Server (ListenAndServe, Shutdown) and signal delivery  *)
(* are modelled from how main.go uses them.  The main goroutine begins     *)
(* with the steps of Startup.                                              *)
(***************************************************************************)
EXTENDS Startup

CONSTANTS
  Public, Operations,   \* the two listeners
  MaxRequests,          \* bound on the requests a listener has in flight
  Drain                 \* the shared time to drain (main.go:131), clock units

Listener == {Public, Operations}

ASSUME ListenerAssumption == Public # Operations
ASSUME LimitsAssumption == MaxRequests \in Nat /\ Drain \in Nat \ {0}

VARIABLES
  main,       \* where run() is, see Places
  draining,   \* the listener Shutdown is, or will next be, called for
  ready,      \* the flag GET /readyz reports
  failed,     \* run() has an error to return
  listener,   \* "none", "new" (not bound yet), "open", "closed", "failed"
  closing,    \* closing[l]: Shutdown was called for l
  inflight,   \* inflight[l]: requests being handled
  failures,   \* the listeners whose error is in serverErrors
  pending,    \* a signal is in the channel signals (its buffer holds one)
  signalled,  \* a signal ever came (history)
  elapsed,    \* time since the drain began
  exit        \* "running", "ok" (0), "error" (1), "killed" (by the signal)

run == <<draining, ready, failed>>
servers == <<listener, closing, inflight, failures>>
signals == <<pending, signalled>>
process == <<main, run, servers, signals, elapsed, exit>>
vars == <<starting, process>>

Init ==
  /\ StartupInit
  /\ main = "startup"
  /\ draining = Public
  /\ ready = FALSE
  /\ failed = FALSE
  /\ listener = [l \in Listener |-> "none"]
  /\ closing = [l \in Listener |-> FALSE]
  /\ inflight = [l \in Listener |-> 0]
  /\ failures = {}
  /\ pending = FALSE
  /\ signalled = FALSE
  /\ elapsed = 0
  /\ exit = "running"

Running == exit = "running"

\* run() goes on from one place to the next.
Step(from, to) == Running /\ main = from /\ main' = to

-----------------------------------------------------------------------------
(* The main goroutine                                                      *)

\* A step of Startup, and one that the process takes by itself.
Starting == Running /\ main = "startup" /\ StartupNext /\ UNCHANGED process
StartRuns == Running /\ main = "startup" /\ Start /\ UNCHANGED process
StartWaits == Running /\ main = "startup" /\ StartupTick /\ UNCHANGED process

\* run() returns the error.
StartupFails ==
  /\ Step("startup", "startup")
  /\ at = "stopped"
  /\ exit' = "error"
  /\ UNCHANGED <<starting, run, servers, signals, elapsed>>

\* Everything is validated; the two serve goroutines are started.
StartListeners ==
  /\ Step("startup", "announce")
  /\ StartupOver
  /\ listener' = [l \in Listener |-> "new"]
  /\ UNCHANGED <<run, closing, inflight, failures, signals, elapsed, exit>>

Announce ==
  /\ Step("announce", "notify")
  /\ ready' = TRUE
  /\ UNCHANGED <<starting, draining, failed, servers, signals, elapsed, exit>>

\* signal.Notify: from here on a signal does not kill the process.
Notify ==
  /\ Step("notify", "select")
  /\ UNCHANGED <<starting, run, servers, signals, elapsed, exit>>

\* The select statement takes any case that is ready.
TakeSignal ==
  /\ Step("select", "unready")
  /\ pending
  /\ pending' = FALSE
  /\ UNCHANGED <<starting, run, servers, signalled, elapsed, exit>>

\* (mutants) A listener's error ends run() at once; only both errors end it.
TakeFailureAtOnce ==
  /\ Step("select", "return")
  /\ \E l \in failures : failures' = failures \ {l}
  /\ failed' = TRUE
  /\ UNCHANGED <<starting, draining, ready, listener, closing, inflight, signals, elapsed, exit>>

TakeFailureOfBoth ==
  /\ Step("select", "unready")
  /\ failures = Listener
  /\ failures' = {}
  /\ failed' = TRUE
  /\ UNCHANGED <<starting, draining, ready, listener, closing, inflight, signals, elapsed, exit>>

TakeFailure ==
  /\ Step("select", "unready")
  /\ \E l \in failures : failures' = failures \ {l}
  /\ failed' = TRUE
  /\ UNCHANGED <<starting, draining, ready, listener, closing, inflight, signals, elapsed, exit>>

\* (mutant) The flag stays.
UnreadyForgotten ==
  /\ Step("unready", "shutdown")
  /\ UNCHANGED <<starting, run, servers, signals, elapsed, exit>>

\* ready.Store(false), and the shared deadline begins.
Unready ==
  /\ Step("unready", "shutdown")
  /\ ready' = FALSE
  /\ UNCHANGED <<starting, draining, failed, servers, signals, elapsed, exit>>

\* Shutdown is called: the listener accepts no more.
ShutdownCloses ==
  /\ Step("shutdown", "drain")
  /\ closing' = [closing EXCEPT ![draining] = TRUE]
  /\ listener' = [listener EXCEPT ![draining] = IF @ = "open" THEN "closed" ELSE @]
  /\ UNCHANGED <<starting, run, inflight, failures, signals, elapsed, exit>>

\* (mutant) The error of a Shutdown that ran out of time is dropped.
OutcomeIgnored ==
  (inflight[draining] = 0 \/ elapsed = Drain) /\ UNCHANGED failed

\* Shutdown returns nil when it sees nothing in flight, the context's error
\* when the deadline has passed; at the deadline either may come first.
Outcome ==
  \/ inflight[draining] = 0 /\ UNCHANGED failed
  \/ elapsed = Drain /\ failed' = TRUE

ShutdownReturns ==
  /\ Step("drain", IF draining = Public THEN "shutdown" ELSE "return")
  /\ Outcome
  /\ draining' = Operations
  /\ UNCHANGED <<starting, ready, servers, signals, elapsed, exit>>

\* errors.Join and os.Exit; what is in flight ends with the process.
Return ==
  /\ Step("return", "return")
  /\ exit' = IF failed THEN "error" ELSE "ok"
  /\ UNCHANGED <<starting, run, servers, signals, elapsed>>

Main ==
  \/ StartRuns \/ StartupFails \/ StartListeners \/ Announce \/ Notify
  \/ TakeSignal \/ TakeFailure
  \/ Unready \/ ShutdownCloses \/ ShutdownReturns \/ Return

-----------------------------------------------------------------------------
(* The listeners and their requests, signals, time                         *)

\* ListenAndServe binds, unless Shutdown was first.
Bind(l) ==
  /\ Running
  /\ listener[l] = "new"
  /\ listener' = [listener EXCEPT ![l] = IF closing[l] THEN "closed" ELSE "open"]
  /\ UNCHANGED <<starting, main, run, closing, inflight, failures, signals, elapsed, exit>>

\* The address is taken, or Accept fails for good; serve sends the error.
Break(l) ==
  /\ Running
  /\ listener[l] \in {"new", "open"}
  /\ ~closing[l]
  /\ listener' = [listener EXCEPT ![l] = "failed"]
  /\ failures' = failures \cup {l}
  /\ UNCHANGED <<starting, main, run, closing, inflight, signals, elapsed, exit>>

Request(l) ==
  /\ Running
  /\ listener[l] = "open"
  /\ inflight[l] < MaxRequests
  /\ inflight' = [inflight EXCEPT ![l] = @ + 1]
  /\ UNCHANGED <<starting, main, run, listener, closing, failures, signals, elapsed, exit>>

Respond(l) ==
  /\ Running
  /\ inflight[l] > 0
  /\ inflight' = [inflight EXCEPT ![l] = @ - 1]
  /\ UNCHANGED <<starting, main, run, listener, closing, failures, signals, elapsed, exit>>

\* SIGINT or SIGTERM.  Before signal.Notify it ends the process there and
\* then; with a signal already in the channel it is dropped.
Signal ==
  /\ Running
  /\ signalled' = TRUE
  /\ IF main \in {"startup", "announce", "notify"}
     THEN exit' = "killed" /\ UNCHANGED pending
     ELSE pending' = TRUE /\ UNCHANGED exit
  /\ UNCHANGED <<starting, main, run, servers, elapsed>>

\* (mutant) Shutdown with a context that has no deadline.
TickOn ==
  /\ Running
  /\ main = "drain"
  /\ elapsed' = elapsed + 1
  /\ UNCHANGED <<starting, main, run, servers, signals, exit>>

\* The deadline is in force while Shutdown waits; the clock stops there.
Tick ==
  /\ Running
  /\ main = "drain"
  /\ elapsed < Drain
  /\ elapsed' = elapsed + 1
  /\ UNCHANGED <<starting, main, run, servers, signals, exit>>

Next ==
  \/ Starting
  \/ Main
  \/ \E l \in Listener : Bind(l) \/ Break(l) \/ Request(l) \/ Respond(l)
  \/ Signal
  \/ Tick

(***************************************************************************)
(* The goroutines run and time passes: ListenAndServe binds the address,   *)
(* or fails to.  Nothing is asked of requests, which may take for ever,    *)
(* nor of GitHub and S3, which need never answer.                          *)
(***************************************************************************)
Fairness ==
  WF_vars(Main) /\ WF_vars(StartWaits) /\ WF_vars(Tick) /\ \A l \in Listener : WF_vars(Bind(l))

Spec == Init /\ [][Next]_vars
LiveSpec == Spec /\ Fairness

-----------------------------------------------------------------------------
Places == {"startup", "announce", "notify", "select", "unready", "shutdown",
           "drain", "return"}

TypeOK ==
  /\ StartupTypeOK
  /\ main \in Places /\ (main # "startup" <=> at = "over")
  /\ draining \in Listener
  /\ {ready, failed, pending, signalled} \subseteq BOOLEAN
  /\ listener \in [Listener -> {"none", "new", "open", "closed", "failed"}]
  /\ closing \in [Listener -> BOOLEAN]
  /\ inflight \in [Listener -> 0..MaxRequests]
  /\ failures \subseteq Listener
  /\ elapsed \in 0..Drain
  /\ exit \in {"running", "ok", "error", "killed"}

Returned == exit \in {"ok", "error"}

(***************************************************************************)
(* run() returns success only if it was asked to stop, and then no request *)
(* of either listener is lost: neither listener's failure nor a drain that *)
(* ran out of time, in either Shutdown, is reported as success to the      *)
(* supervisor (main.go:131-135).                                           *)
(***************************************************************************)
SuccessIsClean ==
  exit = "ok" => signalled /\ \A l \in Listener : inflight[l] = 0

(***************************************************************************)
(* However run() ends, by a signal or by the failure of one listener, a    *)
(* request of either listener is cut off only after the whole time to      *)
(* drain (main.go:124-135; docs/content/docs/operations.md, Graceful       *)
(* shutdown).                                                              *)
(***************************************************************************)
NothingCutEarly ==
  Returned => \A l \in Listener : inflight[l] > 0 => elapsed = Drain

(***************************************************************************)
(* While a listener is shut down the process does not call itself ready,   *)
(* whatever signals and failures come meanwhile (main.go:130).             *)
(***************************************************************************)
UnreadyFirst == (\E l \in Listener : closing[l]) => ~ready

(***************************************************************************)
(* The process starts to listen or ends, whoever of GitHub and S3 never    *)
(* answers (main.go:74-83).                                                *)
(***************************************************************************)
StartupEnds == <>(at = "over" \/ ~Running)

(***************************************************************************)
(* A signal or the failure of one listener ends the process, even with     *)
(* requests that never finish, and with the other listener healthy         *)
(* (main.go:124-135).                                                      *)
(***************************************************************************)
StopsWhenTold ==
  (signalled \/ \E l \in Listener : listener[l] = "failed") ~> ~Running

(***************************************************************************)
(* The flag is set before either listener is bound, and one may fail while *)
(* the other answers /readyz.  A process that calls itself ready comes to  *)
(* listen on both addresses, or ceases to call itself so (main.go:117-119, *)
(* 124-130).                                                               *)
(***************************************************************************)
ReadyComesTrue ==
  ready ~> \/ ~ready \/ ~Running
           \/ \A l \in Listener : listener[l] = "open"

(***************************************************************************)
(* docs/content/docs/operations.md:41: "On SIGINT or SIGTERM, GOLFS first  *)
(* makes readiness false, then gives both listeners a shared eight-second  *)
(* window to drain".  A process that is ready is not killed by a signal.   *)
(* Not so: the flag is set and the listeners serve before signal.Notify is *)
(* called (main.go:117-121).                                               *)
(***************************************************************************)
SignalMakesUnready == exit = "killed" => ~ready
=============================================================================
