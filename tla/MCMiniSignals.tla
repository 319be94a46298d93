---- MODULE MCMiniSignals ----
EXTENDS MiniSignals

\* A plain handler, a one-shot one, and one that blocks everything.
MCActs ==
    {[sa_handler |-> "function", sa_flags |-> {}, sa_mask |-> {}],
     [sa_handler |-> "function", sa_flags |-> SA_RESETHAND, sa_mask |-> Signals]}
=============================================================================
