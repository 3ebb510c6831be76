------------------------- MODULE MCClusterCommands -------------------------
\* Values for TLC.  The levels: no flag, which stands for all of them, one level, and some
\* with the variables, which only detach takes; or every choice there is.
EXTENDS ClusterCommands

MCPlan == PlanOf
MCInherited == KubeadmObjects
MCUserConfig == AdministratorConfig
MCLevels == { {}, {"core"}, {"app", "ui", "completely"} }
AllLevels == SUBSET ToSet(Levels)

\* Operators who change and revert a kubeadm cluster and run nothing else.
ChangeInit == Init /\ app = "kubeadm"
ChangeSpec == ChangeInit /\ [][Next]_vars
=============================================================================
