------------------------------ MODULE SupportMerge ------------------------------
(* refresh_shapefile_from_txt (pipeline.py): from the detections of all images and
   the poles found beside them to the rows of the sign and the pole shapefile.
   Poles are inferred from other frames, pole observations are clustered, signals
   are attached to a shared arm, and repeated sightings of a sign are collapsed.
   A position is one integer coordinate, heights are left out; a support id, which is a hash of the
   detections that share the support, is the set of these detections. *)
EXTENDS Naturals, FiniteSets

CONSTANTS
    Sighting,           \* the accepted detections, all of one record and class
    FrameOf, Row,         \* FrameOf[d], Row[d]: source image of d and its pose row
    Signals,            \* the detections of traffic signals
    Looks,              \* what may be known of a detection
    NoPole,
    DirectDistance, AnchorRadius, HypothesisRadius, MaxLink, MaxFrameGap,
    MergeRadius, Reaches, PoleMinObservations,
    TargetRadius, MinArm, MaxFrameSpan,
    SupportedRadius, UnsupportedRadius

ASSUME LooksAreLooks ==
    Looks \subseteq [x : Nat, pole : Nat \cup {NoPole}, status : {"AUTO", "REVIEW"},
                     type : {"SINGLE", "ARM"}, valid : BOOLEAN, hyps : SUBSET Nat]
ASSUME SightingsAreFinite == IsFiniteSet(Sighting)

\* The pole observation of a detection, and the relation it gets to a pole.
Observations ==
    [pole : Nat, status : {"AUTO", "REVIEW"}, type : {"SINGLE", "ARM"},
     valid : BOOLEAN, inferred : BOOLEAN]
PoleRows ==
    [pole : Nat, support : SUBSET Sighting, obs : Nat, clean : BOOLEAN,
     inferred : BOOLEAN, status : {"AUTO", "REVIEW"}]
ASSUME NoPoleIsNone ==
    NoPole \notin Nat /\ NoPole \notin Observations /\ NoPole \notin PoleRows
ASSUME RadiiAreOrdered ==
    /\ {DirectDistance, MergeRadius, SupportedRadius, UnsupportedRadius} \subseteq Nat
    /\ AnchorRadius <= HypothesisRadius /\ HypothesisRadius <= DirectDistance
    /\ UnsupportedRadius <= SupportedRadius /\ DirectDistance < MaxLink

VARIABLES
    look,       \* the detection records and their pole observations
    obs,        \* the pole observation of a detection, NoPole when it has none
    rows,       \* the pole relation of a detection, NoPole when it has none
    remote,     \* detections that the remote reconciliation has not looked at
    anchors,    \* supports observed directly in two frames or more
    groups,     \* the clusters of sightings of one sign
    signs, poles,  \* the exported rows
    phase

mergeVars == <<look, obs, rows, remote, anchors, groups, signs, poles, phase>>

Gap(a, b) == IF a > b THEN a - b ELSE b - a

\* Connected components of S where near[a] are the neighbours of a.
Components(S, near) ==
    LET Whole(c) == \A t \in (SUBSET c) \ {{}, c} : \E a \in t : near[a] \cap (c \ t) # {}
    IN {c \in (SUBSET S) \ {{}} : Whole(c) /\ \A a \in c : near[a] \subseteq c}

-------------------------------------------------------------------------------
(* cluster_pole_observations. *)

\* One observation for each image of the cluster; their qualities decide which.
OnePerFrame(c) ==
    {u \in SUBSET c : \A f \in {FrameOf[d] : d \in c} :
                          Cardinality({d \in u : FrameOf[d] = f}) = 1}

\* The observations that agree: valid ones near a robust centre; how near depends
\* on their spread.  If none is left, all that were used for the centre.
Consensus(o, u) ==
    LET valid == {d \in u : o[d].valid}
        seed == IF Cardinality(valid) >= 2 THEN valid ELSE u
    IN {LET near == {d \in valid : Gap(o[d].pole, o[s].pole) <= reach}
        IN IF near = {} THEN seed ELSE near : s \in seed, reach \in Reaches}

\* What one cluster may be summarised to.
Aggregates(o, c) ==
    UNION {UNION {{[pole |-> o[d].pole, obs |-> Cardinality(u), clean |-> keep = u,
                    status |-> IF /\ \A e \in keep : o[e].status = "AUTO"
                                  /\ \A e, g \in c : o[e].type = o[g].type
                                  /\ keep = u
                               THEN "AUTO" ELSE "REVIEW"] : d \in keep}
                  : keep \in Consensus(o, u)} : u \in OnePerFrame(c)}

\* An inferred row is for review; beside one the others keep their own status.
RowStatus(o, c, agg, d) ==
    IF o[d].inferred THEN "REVIEW"
    ELSE IF \E e \in c : o[e].inferred THEN o[d].status
    ELSE agg.status

Clusters(o, radius) ==
    LET found == {d \in Sighting : o[d] # NoPole}
    IN Components(found, [a \in found |-> {b \in found : Gap(o[a].pole, o[b].pole) <= radius}])

-------------------------------------------------------------------------------
\* collect_detection_records and collect_pole_records.
MergeInit ==
    /\ look \in [Sighting -> Looks]
    /\ obs = [d \in Sighting |->
                IF look[d].pole = NoPole THEN NoPole
                ELSE [pole |-> look[d].pole, status |-> look[d].status,
                      type |-> look[d].type, valid |-> look[d].valid,
                      inferred |-> FALSE]]
    /\ rows = [d \in Sighting |-> NoPole]
    /\ remote = Signals /\ anchors = {} /\ groups = {} /\ signs = {} /\ poles = {}
    /\ phase = "anchors"

(* reconcile_remote_supports_from_direct_anchors. *)

IsDirect(d) == obs[d] # NoPole /\ Gap(look[d].x, obs[d].pole) <= DirectDistance

\* AUTO poles close to their sign; clusters of them that agree in two frames or more
\* and lie close together are anchors.
FindAnchors ==
    /\ phase = "anchors"
    /\ LET direct == [d \in Sighting |->
                         IF IsDirect(d) /\ obs[d].status = "AUTO" THEN obs[d] ELSE NoPole]
           comps == Clusters(direct, AnchorRadius)
       IN \E agg \in [comps -> UNION {Aggregates(direct, c) : c \in comps}] :
             /\ \A c \in comps : agg[c] \in Aggregates(direct, c)
             /\ anchors' = {[pole |-> agg[c].pole, rows |-> {Row[d] : d \in c}] :
                   c \in {k \in comps :
                            /\ agg[k].status = "AUTO"
                            /\ agg[k].obs >= 2
                            /\ Cardinality({Row[d] : d \in k}) >= 2
                            /\ \A d, e \in k :
                                   Gap(direct[d].pole, direct[e].pole) <= AnchorRadius}}
    /\ phase' = "remote"
    /\ UNCHANGED <<look, obs, rows, remote, groups, signs, poles>>

\* The rejected hypothesis of d that is closest to the anchor.
HypothesisGap(d, a) ==
    CHOOSE g \in {Gap(h, a.pole) : h \in look[d].hyps} :
        \A h \in look[d].hyps : g <= Gap(h, a.pole)

\* Anchors seen in two nearby frames, beyond the direct distance, at a hypothesis.
Matches(d) ==
    {a \in anchors :
        /\ Cardinality({r \in a.rows : Gap(Row[d], r) <= MaxFrameGap}) >= 2
        /\ Gap(a.pole, look[d].x) \in (DirectDistance + 1)..MaxLink
        /\ look[d].hyps # {}
        /\ HypothesisGap(d, a) <= HypothesisRadius}

\* A signal without a direct or an automatic pole, whose best match has no rival as
\* close, gets the pole of the anchor for review.
MayInfer(d) == obs[d] # NoPole => ~IsDirect(d) /\ obs[d].status = "REVIEW"

ReconcileRemote(d) ==
    /\ phase = "remote" /\ d \in remote
    /\ remote' = remote \ {d}
    /\ \/ \E a \in Matches(d) :
            /\ MayInfer(d)
            /\ \A b \in Matches(d) \ {a} : HypothesisGap(d, a) < HypothesisGap(d, b)
            /\ obs' = [obs EXCEPT ![d] =
                   [pole |-> a.pole, status |-> "REVIEW", type |-> "SINGLE",
                    valid |-> TRUE, inferred |-> TRUE]]
       \/ /\ \/ ~MayInfer(d)
             \/ \A a \in Matches(d) : \E b \in Matches(d) \ {a} :
                    HypothesisGap(d, b) <= HypothesisGap(d, a)
          /\ UNCHANGED obs
    /\ UNCHANGED <<look, rows, anchors, groups, signs, poles, phase>>

\* The observations are clustered; supports with too few frames are dropped.
ClusterPoles ==
    /\ phase = "remote" /\ remote = {}
    /\ LET comps == Clusters(obs, MergeRadius) IN
       \E agg \in [comps -> UNION {Aggregates(obs, c) : c \in comps}] :
          /\ \A c \in comps : agg[c] \in Aggregates(obs, c)
          /\ rows' = [d \in Sighting |->
                IF \E c \in comps : d \in c /\ agg[c].obs >= PoleMinObservations
                THEN LET c == CHOOSE k \in comps : d \in k IN
                     [pole |-> agg[c].pole, support |-> c, obs |-> agg[c].obs,
                      clean |-> agg[c].clean, inferred |-> obs[d].inferred,
                      status |-> RowStatus(obs, c, agg[c], d)]
                ELSE NoPole]
    /\ phase' = "arms"
    /\ UNCHANGED <<look, obs, remote, anchors, groups, signs, poles>>

-------------------------------------------------------------------------------
(* reconcile_repeated_shared_arm_supports. *)

\* The observed, automatic rows of a support.
Witnesses(c) == {d \in c : rows[d].status = "AUTO" /\ ~rows[d].inferred}

\* A support seen in two frames and without outliers, and the signals far enough
\* from its pole to be the end of an arm.
ArmSupports ==
    LET sups == {rows[d].support : d \in {e \in Sighting : rows[e] # NoPole}}
        Ends(c) == {d \in Witnesses(c) \cap Signals :
                        Gap(look[d].x, rows[d].pole) >= MinArm}
    IN {[support |-> c, ends |-> Ends(c), row |-> rows[CHOOSE d \in c : TRUE]] :
           c \in {k \in sups : /\ \A d \in k : rows[d].obs >= 2 /\ rows[d].clean
                               /\ Cardinality({FrameOf[d] : d \in Witnesses(k)}) >= 2
                               /\ Ends(k) # {}}}

\* Signals without a relation that keep to one place in two frames or more.
StableTargets ==
    LET free == {d \in Signals : rows[d] = NoPole}
        near == [a \in free |-> {b \in free : Gap(look[a].x, look[b].x) <= TargetRadius}]
    IN {c \in Components(free, near) :
          /\ \A a \in c : c \subseteq near[a]
          /\ Cardinality({FrameOf[d] : d \in c}) >= 2
          /\ Cardinality({Row[d] : d \in c}) >= 2
          /\ \A a, b \in c : Gap(Row[a], Row[b]) <= MaxFrameSpan}

\* x lies on the segment from the pole to the sign at the end of the arm.
OnArm(x, pole, end) ==
    \/ pole < x /\ x < end
    \/ end < x /\ x < pole

ArmMatches(c) ==
    {s \in ArmSupports :
        \E e \in s.ends : \A d \in c : OnArm(look[d].x, s.row.pole, look[e].x)}

\* Every stable target that lies on the arm of exactly one support joins it.
AttachArms ==
    /\ phase = "arms"
    /\ LET lucky == {c \in StableTargets : Cardinality(ArmMatches(c)) = 1} IN
       rows' = [d \in Sighting |->
          IF \E c \in lucky : d \in c
          THEN LET c == CHOOSE k \in lucky : d \in k
                   s == CHOOSE s \in ArmMatches(c) : TRUE
               IN [s.row EXCEPT !.status = "REVIEW", !.inferred = TRUE]
          ELSE rows[d]]
    /\ groups' = {{d} : d \in Sighting}
    /\ phase' = "merge"
    /\ UNCHANGED <<look, obs, remote, anchors, signs, poles>>

-------------------------------------------------------------------------------
(* attach_support_ids_to_detection_records and
   deduplicate_sign_and_pole_observations. *)

SupportOf(d) == IF rows[d] = NoPole THEN {} ELSE rows[d].support

\* Mutant of Close: only the distance of two sightings counts.
CloseBy(a, b) == Gap(look[a].x, look[b].x) <= SupportedRadius

\* Two sightings may be of one sign; without two supports the radius is tighter.
Close(a, b) ==
    /\ FrameOf[a] # FrameOf[b]
    /\ IF SupportOf(a) # {} /\ SupportOf(b) # {}
       THEN SupportOf(a) = SupportOf(b) /\ Gap(look[a].x, look[b].x) <= SupportedRadius
       ELSE Gap(look[a].x, look[b].x) <= UnsupportedRadius

\* Every pair must be close, so that a chain of near sightings joins nothing.
Joinable(g, h) == g # h /\ \A a \in g, b \in h : Close(a, b)

\* The two groups with the best score are joined; which they are is left open.
Merge ==
    /\ phase = "merge"
    /\ \E g, h \in groups :
         /\ Joinable(g, h)
         /\ groups' = (groups \ {g, h}) \cup {g \cup h}
    /\ UNCHANGED <<look, obs, rows, remote, anchors, signs, poles, phase>>

\* The row of a group is a sighting with a pole if it has one; position, support and
\* confidence decide between several.
Representatives(g) ==
    LET preferred == {d \in g : rows[d] # NoPole}
    IN IF preferred = {} THEN g ELSE preferred

\* The relation of the group: the one of the representative if it has one.
Relations(g, r) ==
    IF rows[r] # NoPole THEN {r} ELSE {d \in g : rows[d] # NoPole}

\* One sign row for each group, and one pole row for each group with a relation.
Export ==
    /\ phase = "merge"
    /\ \A g, h \in groups : ~Joinable(g, h)
    /\ \E rep \in [groups -> Sighting] :
         /\ \A g \in groups : rep[g] \in Representatives(g)
         /\ \E src \in [groups -> Sighting] :
              /\ \A g \in groups :
                   src[g] \in (IF Relations(g, rep[g]) = {} THEN {rep[g]}
                              ELSE Relations(g, rep[g]))
              /\ signs' = {[id |-> rep[g], support |-> SupportOf(rep[g]), sources |-> g] :
                              g \in groups}
              /\ poles' = {[id |-> rep[g], row |-> rows[src[g]], sources |-> g] :
                              g \in {k \in groups : rows[src[k]] # NoPole}}
    /\ phase' = "done"
    /\ UNCHANGED <<look, obs, rows, remote, anchors, groups>>

MergeNext ==
    \/ FindAnchors
    \/ \E d \in Sighting : ReconcileRemote(d)
    \/ ClusterPoles \/ AttachArms \/ Merge \/ Export

MergeSpec == MergeInit /\ [][MergeNext]_mergeVars

-------------------------------------------------------------------------------
Done == phase = "done"

\* Every sighting is behind one exported sign.  One sign never stands for two
\* sightings of one image, of two supports, or farther apart than the radius.
Collapsed ==
    Done => /\ UNION {s.sources : s \in signs} = Sighting
            /\ \A s, t \in signs : s # t => s.sources \cap t.sources = {}
            /\ \A s \in signs : \A a, b \in s.sources :
                  /\ a # b => FrameOf[a] # FrameOf[b]
                  /\ Gap(look[a].x, look[b].x) <= SupportedRadius
                  /\ {} \in {SupportOf(a), SupportOf(b)} \/ SupportOf(a) = SupportOf(b)

\* The two shapefiles join: a pole row has the id and the support of one sign row,
\* a sign has at most one pole row, and it has one if it names a support.
SheetsJoin ==
    Done => /\ \A p \in poles : \E s \in signs :
                  s.id = p.id /\ s.support = p.row.support
            /\ \A p, q \in poles : p.id = q.id => p = q
            /\ \A s \in signs : s.support # {} => \E p \in poles : p.id = s.id

\* An inferred pole is never automatic: the support of an automatic row was observed,
\* as automatic, in the image of the row, and every support in some image.
Witnessed ==
    Done => \A p \in poles :
        /\ p.row.status = "AUTO" =>
              /\ ~p.row.inferred
              /\ \E d \in p.row.support : /\ FrameOf[d] = FrameOf[p.id] /\ ~obs[d].inferred
                                          /\ obs[d].status = "AUTO"
        /\ \E d \in p.row.support : ~obs[d].inferred

\* A pole that was found in the image of the sign itself is not replaced by an
\* inferred one, unless it was remote and for review.
ObservedKept ==
    \A d \in Sighting : look[d].pole # NoPole /\ obs[d] # NoPole /\ obs[d].inferred =>
        look[d].status = "REVIEW" /\ Gap(look[d].x, look[d].pole) > DirectDistance

\* An inferred pole does not take the automatic status from the rows that agree.
NotDowngraded ==
    Done => \A c \in {rows[d].support : d \in {e \in Sighting : rows[e] # NoPole}} :
        (/\ \E d \in c : obs[d].inferred
         /\ \A d \in c : ~obs[d].inferred => obs[d].status = "AUTO")
        => \A d \in c : ~obs[d].inferred => rows[d].status = "AUTO"

\* What is exported is what was seen, each sign once and with the right pole
\* (refresh_shapefile_from_txt, deduplicate_sign_and_pole_observations).
ExportSound == Collapsed /\ SheetsJoin /\ Witnessed /\ ObservedKept /\ NotDowngraded

-------------------------------------------------------------------------------
(* The inductive invariant behind ExportSound. *)

MergeType ==
    /\ look \in [Sighting -> Looks]
    /\ obs \in [Sighting -> Observations \cup {NoPole}]
    /\ rows \in [Sighting -> PoleRows \cup {NoPole}]
    /\ phase \in {"anchors", "remote", "arms", "merge", "done"}
    /\ phase \in {"anchors", "remote"} => \A d \in Sighting : rows[d] = NoPole

\* p is where d was seen to have its pole, directly and without doubt.
SeenThere(d, p) ==
    /\ obs[d] # NoPole /\ ~obs[d].inferred /\ obs[d].status = "AUTO" /\ obs[d].pole = p
    /\ IsDirect(d)

\* A pole is where it was seen, or it is inferred from where another frame has seen one.
ObservedInv ==
    /\ \A d \in Sighting : obs[d] # NoPole /\ obs[d].inferred =>
          /\ obs[d].status = "REVIEW"
          /\ \E e \in Sighting : SeenThere(e, obs[d].pole)
          /\ look[d].pole # NoPole =>
                look[d].status = "REVIEW" /\ Gap(look[d].x, look[d].pole) > DirectDistance
    /\ \A d \in Sighting : look[d].pole # NoPole => obs[d] # NoPole
    /\ \A d \in Sighting : obs[d] # NoPole /\ ~obs[d].inferred =>
          obs[d].pole = look[d].pole /\ obs[d].status = look[d].status
    /\ \A a \in anchors : \E e \in Sighting : SeenThere(e, a.pole)

\* The members of a support have it as theirs, and some of them saw it; others that have
\* it were attached to its arm.
SupportInv ==
    \A d \in Sighting : rows[d] # NoPole =>
        /\ rows[d].support # {}
        /\ \A e \in rows[d].support :
              rows[e] # NoPole /\ rows[e].support = rows[d].support
        /\ \E e \in rows[d].support : ~obs[e].inferred
        /\ d \notin rows[d].support => rows[d].status = "REVIEW" /\ rows[d].inferred
        /\ d \in rows[d].support =>
              /\ rows[d].status = "AUTO" =>
                    /\ ~rows[d].inferred
                    /\ \E e \in rows[d].support :
                          FrameOf[e] = FrameOf[d] /\ ~obs[e].inferred /\ obs[e].status = "AUTO"
              /\ (\E e \in rows[d].support : obs[e].inferred) /\ ~obs[d].inferred =>
                    rows[d].status = obs[d].status

\* The groups divide the sightings, and any two of a group may be of one sign.
GroupInv ==
    phase \in {"merge", "done"} =>
        /\ groups \subseteq SUBSET Sighting /\ {} \notin groups /\ UNION groups = Sighting
        /\ \A g, h \in groups : g # h => g \cap h = {}
        /\ \A g \in groups : \A a, b \in g : a # b => Close(a, b)

\* The exported rows are those of the representatives of the groups.
ExportedBy(rep, src) ==
    /\ \A g \in groups :
          /\ rep[g] \in Representatives(g)
          /\ src[g] \in (IF Relations(g, rep[g]) = {} THEN {rep[g]} ELSE Relations(g, rep[g]))
    /\ signs = {[id |-> rep[g], support |-> SupportOf(rep[g]), sources |-> g] : g \in groups}
    /\ poles = {[id |-> rep[g], row |-> rows[src[g]], sources |-> g] :
                    g \in {k \in groups : rows[src[k]] # NoPole}}
ExportInv == Done => \E rep, src \in [groups -> Sighting] : ExportedBy(rep, src)

MergeInv ==
    MergeType /\ ObservedInv /\ SupportInv /\ GroupInv /\ ExportInv
===============================================================================
