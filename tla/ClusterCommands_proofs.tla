----------------------- MODULE ClusterCommands_proofs -----------------------
(***************************************************************************)
(* Theorems about edgeadm's own commands.  They hold for every value of the*)
(* constants that meets the assumptions of ClusterCommands, which TLC      *)
(* evaluates on the plans of its instance, and for any number of failures  *)
(* and interruptions.                                                      *)
(***************************************************************************)
EXTENDS ClusterCommands, SoundPlans_proofs

LEMMA AddonsSucceedAgain == TypeInv /\ SoundInv => RerunSucceeds
<1> SUFFICES ASSUME TypeInv, SoundInv, calm, command.app \in {"topolvm", "edgex"},
                    command.verb = "addon", outcome = "error"
             PROVE  CSIDriverStays(before) /\ ~CSIDriverStays(Present)
  BY DEF RerunSucceeds, Ended
<1>1. command \in Command
  BY DEF TypeInv
<1>2. PICK x \in PlacesOf(command) :
        /\ Strict(command, x) /\ ~Meets(command, before, x)
        /\ Builds(command) => \A d : WrittenFirst(command, x, d) => d \in Present
  BY DEF SoundInv
<1>3. x[1] \in StrictStages(command) /\ Builds(command)
  BY <1>1, <1>2, PlaceFound DEF Strict, StrictStages, Builds
<1> DEFINE call == CallAt(command, x)
           found == InFront \cup {CSIDriver}
\* What fails is the call that makes the CSIDriver, and it was there.
<1>4. Collides(call) /\ call.doc = CSIDriver /\ CSIDriver \in before
  <2>1. Sound(command, {}, x[1]) /\ Fresh(command, {}, x[1]) \subseteq {CSIDriver}
    BY <1>1, <1>3, RerunAssumption
  <2>2. Collides(call) /\ ~ClearedFirst(command, {}, x) /\ call.doc \in before
    BY <1>1, <1>2, <2>1, MeetsGrows DEF Sound
  <2> QED
    BY <2>1, <2>2 DEF Fresh
\* Had the command found what stands in front of it, it would have deleted both.
<1>5. ~(InFront \subseteq before)
  <2> SUFFICES ASSUME InFront \subseteq before PROVE FALSE
    OBVIOUS
  <2>1. Sound(command, found, x[1]) /\ Fresh(command, found, x[1]) = {} /\ found \subseteq before
    BY <1>1, <1>3, <1>4, RerunAssumption
  <2>2. Collides(call) /\ ~ClearedFirst(command, found, x)
    BY <1>1, <1>2, <2>1, MeetsGrows DEF Sound
  <2> QED
    BY <2>1, <2>2 DEF Fresh
<1>6. InFront \subseteq Present
  BY <1>1, <1>2, <1>3, <1>4, RerunAssumption
<1> QED
  BY <1>4, <1>5, <1>6 DEF CSIDriverStays

\* An addon topolvm or edgex none of whose calls fails by itself ends in an error only where
\* the CSIDriver was left without what stands in front of it, and then not a second time:
\* whatever else an addon or a detach that failed or was interrupted before has left, it is
\* got over (ClusterCommands!RerunSucceeds).
THEOREM RerunAlwaysSucceeds == Spec => []RerunSucceeds
BY SpecSound, AddonsSucceedAgain, PTL

LEMMA InitsSucceed == TypeInv /\ SoundInv => InitSucceeds
<1> SUFFICES ASSUME TypeInv, SoundInv, calm, before = {}, command.verb = "init", outcome = "error"
             PROVE  FALSE
  BY DEF InitSucceeds, Ended
<1>1. command \in Command
  BY DEF TypeInv
<1>2. \A s \in StrictStages(command) : Sound(command, before, s)
  BY <1>1, InitAssumption
<1> QED
  BY <1>2, SoundnessSaves

\* init fills an empty cluster without an error unless a call fails by itself
\* (ClusterCommands!InitSucceeds).
THEOREM InitAlwaysSucceeds == Spec => []InitSucceeds
BY SpecSound, InitsSucceed, PTL

LEMMA TunnelEdgesDeployed == TypeInv /\ WrittenInv => TunnelEdgeDeployed
<1> SUFFICES ASSUME TypeInv, WrittenInv, outcome = "ok", command.verb \in {"addon", "init"}, calm,
                    TunnelEdge \cap DOMAIN api \cap before = {},
                    NEW d \in TunnelEdge \cap DOMAIN api
             PROVE  d \in Present
  BY DEF TunnelEdgeDeployed
<1>1. command \in Command /\ Builds(command) /\ DOMAIN api = Documents[command.app]
  BY DEF TypeInv, Builds
<1>2. PICK x \in PlacesOf(command) :
        /\ CallAt(command, x).op \in Writes /\ CallAt(command, x).doc = d
        /\ Sound(command, {}, x[1]) /\ Fresh(command, {}, x[1]) \subseteq TunnelEdge
        /\ Stays(command, x)
  BY <1>1, TunnelAssumption DEF Stays
<1>3. Fresh(command, {}, x[1]) \subseteq DOMAIN api
  BY <1>1, PlaceFound DEF Fresh
<1>4. Sound(command, before, x[1])
  BY <1>1, <1>2, <1>3, SoundGrows
<1> QED
  BY <1>2, <1>4 DEF WrittenInv, Passed

\* An addon edge-apps or an init that reports success has deployed tunnel-edge, although its
\* failure would have been dropped, if no call failed by itself and nothing of it was there
\* before (ClusterCommands!TunnelEdgeDeployed).
THEOREM TunnelEdgeAlwaysDeployed == Spec => []TunnelEdgeDeployed
BY SpecWritten, TunnelEdgesDeployed, PTL
=============================================================================
