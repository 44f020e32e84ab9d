------------------------------ MODULE MCQueue -------------------------------
(***************************************************************************)
(* Small instances of the background work on the database: the core job    *)
(* queue, an import, and the liveness of torrents.  Each behaviour is one  *)
(* of one component.                                                       *)
(***************************************************************************)
EXTENDS QueueServer, Importer, Liveness

VARIABLE component   \* the component that this behaviour is about

\* Two sources, one of them of two items.
imSource == <<"p", "p", "q">>

mcVars == <<component, vars, imVars, lvVars>>

McInit ==
    /\ component \in {"queue", "import", "liveness"}
    /\ Init /\ ImInit /\ LvInit
    /\ component = "import" \/ sources = {}
    /\ component = "liveness" \/ rows = [h \in Watched |-> NoRow]

McNext ==
    /\ UNCHANGED component
    /\ \/ component = "queue" /\ Next /\ UNCHANGED <<imVars, lvVars>>
       \/ component = "import" /\ ImNext /\ UNCHANGED <<vars, lvVars>>
       \/ component = "liveness" /\ LvNext /\ UNCHANGED <<vars, imVars>>

\* No fair action of a component is enabled in its initial state, so the fairness of the components
\* that do not run asks for nothing.
McSpec == McInit /\ [][McNext]_mcVars /\ Fairness /\ ImFairness /\ LvFairness
=============================================================================
