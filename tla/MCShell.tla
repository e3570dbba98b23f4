---------- MODULE MCShell ----------
(* What runs beside the window: restore, the shell itself and the quote refresh.
   They share no state here: a behaviour is one of the component that focus
   names, and the others stay in one initial state.  The shell is taken twice:
   with the ticks and the calls of one thread but no evidence jobs, and with the
   jobs of two threads but neither ticks nor calls. *)
EXTENDS RestoreCommit, DesktopShell, QuoteCache, TLC

MCIds == {[source |-> "binance", kind |-> "crypto"], [source |-> "yahoo", kind |-> "generic"]}

CONSTANT Caller   \* the thread that calls into the loop

VARIABLE focus   \* the component that moves

MCVars == <<focus, vars, shellVars, quoteVars>>

MCInit ==
    /\ focus \in {"restore", "shell", "jobs", "quotes"}
    /\ Init /\ ShellInit /\ QuoteInit
    /\ focus # "restore" => ordered

MCNext ==
    /\ UNCHANGED focus
    /\ \/ focus = "restore" /\ Next /\ UNCHANGED <<shellVars, quoteVars>>
       \/ focus = "shell" /\ ShellNext /\ UNCHANGED <<jobs, vars, quoteVars>>
          /\ \A u \in UiThreads \ {Caller} : uiCall'[u] = Idle
       \/ focus = "jobs" /\ ShellNext /\ UNCHANGED <<price, uiCall, vars, quoteVars>>
       \/ focus = "quotes" /\ QuoteNext /\ UNCHANGED <<vars, shellVars>>

MCSpec == MCInit /\ [][MCNext]_MCVars

OfShell == focus \in {"shell", "jobs"}

\* The fairness of each component, for the behaviours that are its own.
MCFairSpec ==
    /\ MCSpec
    /\ WF_vars(focus = "restore" /\ Step) /\ WF_vars(focus = "restore" /\ Recover)
    /\ WF_shellVars(OfShell /\ Exit)
    /\ WF_shellVars(OfShell /\ (\E k \in Closers : closing[k] # "none") /\ BeginClose(Main))
    /\ \A k \in Closers : WF_shellVars(OfShell /\ closing[k] # "none" /\ Close(k))
    /\ \A r \in Refreshers : WF_quoteVars(focus = "quotes" /\ Work(r))
============================================================
