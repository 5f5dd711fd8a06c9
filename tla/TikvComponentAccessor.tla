------------------------- MODULE TikvComponentAccessor -------------------------
(***************************************************************************)
(* The resolution of cluster-level settings and TiKV component overrides  *)
(* (componentAccessorImpl, pkg/apis/tikv/v1alpha1/component.go) and its    *)
(* use by getNewTiKVSetForTikvCluster and the TiKV ConfigMap sync          *)
(* (pkg/manager/member), which turn the resolved settings into the pod     *)
(* template of the TiKV StatefulSet and the name of the ConfigMap it       *)
(* mounts.                                                                 *)
(*                                                                         *)
(* The user edits the TikvCluster spec one field at a time; each Sync      *)
(* rebuilds the template from the spec and the template in use.  Go        *)
(* ranges over a map in a random order, so the two map merges take any    *)
(* order of their keys.                                                    *)
(*                                                                         *)
(* Abstractions.  A pointer or optional field is a value or Nil; a map is  *)
(* a function from a few keys to a value or Absent; a toleration list is   *)
(* NilList, the empty list or a one-element list; a PodSecurityContext is  *)
(* Nil or its set of sysctls.  A ConfigMap name is the config content it   *)
(* is derived from (its digest) or NoDigest for the plain name.  Template  *)
(* fields the settings do not reach (volumes, ports, resources) are left   *)
(* out.                                                                    *)
(***************************************************************************)
EXTENDS Naturals, SequencesExt

CONSTANTS
    Nil, Absent, NilList,  \* nil pointer, missing map key, nil slice
    NoTemplate,            \* no StatefulSet yet
    Vals,                  \* values of string settings and map entries
    Keys,                  \* node selector and annotation keys
    SysctlInitKey,         \* label.AnnSysctlInit
    Sysctls,               \* sysctls a PodSecurityContext may request
    TolerationValues,      \* toleration lists a spec may carry
    Configs,               \* TiKV config contents (tc.Spec.TiKV.Config)
    MaxEdits               \* bound on spec edits

ASSUME AccessorAssumption ==
    /\ Vals # {} /\ SysctlInitKey \in Keys
    /\ TolerationValues \subseteq {NilList, <<>>} \cup {<<v>> : v \in Vals}
    /\ NilList \in TolerationValues
    /\ MaxEdits \in Nat

InPlace == "InPlace"
RollingUpdate == "RollingUpdate"
PullPolicies == {"Always", "IfNotPresent"}
NoDigest == "NoDigest"
Maps(V) == [Keys -> V \cup {Absent}]

\* Values each field of TikvClusterSpec and of the TiKV ComponentSpec may
\* take; an edit sets one field to one of them.
ClusterFields ==
    [imagePullPolicy |-> PullPolicies, hostNetwork |-> BOOLEAN \cup {Nil},
     affinity |-> Vals \cup {Nil}, priorityClassName |-> Vals \cup {Nil},
     schedulerName |-> Vals \cup {""}, nodeSelector |-> Maps(Vals),
     annotations |-> Maps(Vals \cup {"true"}),
     tolerations |-> TolerationValues,
     configUpdateStrategy |-> {"", InPlace, RollingUpdate}]
ComponentFields ==
    [imagePullPolicy |-> PullPolicies \cup {Nil},
     hostNetwork |-> BOOLEAN \cup {Nil},
     affinity |-> Vals \cup {Nil}, priorityClassName |-> Vals \cup {Nil},
     schedulerName |-> Vals \cup {Nil}, nodeSelector |-> Maps(Vals),
     annotations |-> Maps(Vals \cup {"true"}),
     tolerations |-> TolerationValues,
     podSecurityContext |-> {Nil} \cup SUBSET Sysctls,
     env |-> {<<>>} \cup {<<v>> : v \in Vals},
     configUpdateStrategy |-> {Nil, "", InPlace, RollingUpdate}]

VARIABLES
    cluster,   \* tc.Spec (the cluster-level settings)
    tikv,      \* tc.Spec.TiKV.ComponentSpec
    config,    \* tc.Spec.TiKV.Config, or Nil
    template,  \* pod template of the TiKV StatefulSet, or NoTemplate
    fresh,     \* the template was built from the spec as it is now
    edits

vars == <<cluster, tikv, config, template, fresh, edits>>

-----------------------------------------------------------------------------
(* componentAccessorImpl: a is [cluster |-> ..., comp |-> ...].            *)

\* BaseTiKVSpec: the accessor over tc.Spec and tc.Spec.TiKV.ComponentSpec.
BaseTiKVSpec == [cluster |-> cluster, comp |-> tikv]

ImagePullPolicy(a) ==
    IF a.comp.imagePullPolicy = Nil THEN a.cluster.imagePullPolicy
    ELSE a.comp.imagePullPolicy

HostNetwork(a) ==
    IF a.comp.hostNetwork # Nil THEN a.comp.hostNetwork
    ELSE IF a.cluster.hostNetwork # Nil THEN a.cluster.hostNetwork
    ELSE FALSE

Affinity(a) ==
    IF a.comp.affinity = Nil THEN a.cluster.affinity ELSE a.comp.affinity

PriorityClassName(a) ==
    IF a.comp.priorityClassName = Nil THEN a.cluster.priorityClassName
    ELSE a.comp.priorityClassName

SchedulerName(a) ==
    IF a.comp.schedulerName = Nil THEN a.cluster.schedulerName
    ELSE a.comp.schedulerName

\* The keys a map holds, and the orders in which a range loop visits them.
Present(m) == {k \in Keys : m[k] # Absent}
RangeOrders(m) == SetToSeqs(Present(m))

\* for k, v := range src { dst[k] = v }, visiting the keys in order.
CopyEntries(dst, src, order) ==
    FoldLeft(LAMBDA acc, k : [acc EXCEPT ![k] = src[k]], dst, order)

EmptyMap == [k \in Keys |-> Absent]

\* Mutant of NodeSelector: the component's entries are copied first, so
\* the cluster's overwrite them.
NodeSelectorClusterLast(a, oc, ok) ==
    CopyEntries(CopyEntries(EmptyMap, a.comp.nodeSelector, ok),
                a.cluster.nodeSelector, oc)

\* NodeSelector and Annotations: the cluster's entries, then the
\* component's, each loop in the order the range gives.
NodeSelector(a, oc, ok) ==
    CopyEntries(CopyEntries(EmptyMap, a.cluster.nodeSelector, oc),
                a.comp.nodeSelector, ok)

Annotations(a, oc, ok) ==
    CopyEntries(CopyEntries(EmptyMap, a.cluster.annotations, oc),
                a.comp.annotations, ok)

\* Tolerations: the component's list unless it is empty (len == 0).
Tolerations(a) ==
    IF a.comp.tolerations \in {NilList, <<>>} THEN a.cluster.tolerations
    ELSE a.comp.tolerations

\* ConfigUpdateStrategy: an empty strategy is the safe default InPlace.
ConfigUpdateStrategy(a) ==
    LET s == IF a.comp.configUpdateStrategy = Nil
             THEN a.cluster.configUpdateStrategy
             ELSE a.comp.configUpdateStrategy
    IN  IF s = "" THEN InPlace ELSE s

PodSecurityContext(a) == a.comp.podSecurityContext
Env(a) == a.comp.env

\* BuildPodSpec: the pod-level settings; a nil PriorityClassName leaves
\* the field empty.
BuildPodSpec(a, oc, ok) ==
    [schedulerName |-> SchedulerName(a), affinity |-> Affinity(a),
     nodeSelector |-> NodeSelector(a, oc, ok),
     hostNetwork |-> HostNetwork(a), tolerations |-> Tolerations(a),
     priorityClassName |-> IF PriorityClassName(a) = Nil THEN ""
                           ELSE PriorityClassName(a)]

-----------------------------------------------------------------------------
(* The TiKV ConfigMap and pod template (pkg/manager/member).               *)

\* Mutant of ConfigMapName: the set mounts cm.Name without the nil check.
ConfigMapNameNilConfig(a) ==
    IF config = Nil THEN config
    ELSE IF template # NoTemplate /\ ConfigUpdateStrategy(a) = InPlace
    THEN template.configMap
    ELSE IF ConfigUpdateStrategy(a) = RollingUpdate THEN config
    ELSE NoDigest

\* The ConfigMap the set mounts: none is synced without a config (the
\* default name); under InPlace the one the existing set mounts keeps its
\* name; otherwise RollingUpdate adds the digest of the content.
ConfigMapName(a) ==
    IF config = Nil THEN NoDigest
    ELSE IF template # NoTemplate /\ ConfigUpdateStrategy(a) = InPlace
    THEN template.configMap
    ELSE IF ConfigUpdateStrategy(a) = RollingUpdate THEN config
    ELSE NoDigest

\* Mutant of SysctlInitContainer: only the component's own annotations
\* are consulted, not the merged ones.
SysctlInitContainerComponentOnly(a, ann) ==
    LET psc == PodSecurityContext(a)
    IN  a.comp.annotations[SysctlInitKey] = "true" /\ psc # Nil /\ psc # {}

\* The sysctl init container: added when the merged annotations carry
\* sysctl-init = "true" and the PodSecurityContext requests sysctls.
SysctlInitContainer(a, ann) ==
    LET psc == PodSecurityContext(a)
    IN  ann[SysctlInitKey] = "true" /\ psc # Nil /\ psc # {}

\* The pod's security context: a copy of the component's, its sysctls
\* cleared when the init container runs them.
PodSecurityContextOf(a, ann) ==
    IF SysctlInitContainer(a, ann) THEN {} ELSE PodSecurityContext(a)

\* getNewTiKVSetForTikvCluster, the parts the settings reach: the pod spec
\* of BuildPodSpec with the DNS policy of host networking, the sysctl init
\* container and the security context, the merged annotations, the
\* container's pull policy and env, and the ConfigMap.
TiKVPodTemplate(a, cm, oc, ok, ac, ak) ==
    LET ann == Annotations(a, ac, ak)
        pod == BuildPodSpec(a, oc, ok)
    IN  [schedulerName |-> pod.schedulerName, affinity |-> pod.affinity,
         nodeSelector |-> pod.nodeSelector, hostNetwork |-> pod.hostNetwork,
         tolerations |-> pod.tolerations,
         priorityClassName |-> pod.priorityClassName,
         dnsPolicy |-> IF HostNetwork(a) THEN "ClusterFirstWithHostNet"
                       ELSE "",
         securityContext |-> PodSecurityContextOf(a, ann),
         initSysctls |-> IF SysctlInitContainer(a, ann)
                         THEN PodSecurityContext(a) ELSE {},
         annotations |-> ann,
         imagePullPolicy |-> ImagePullPolicy(a),
         podNameEnv |-> HostNetwork(a),
         env |-> Env(a),
         configMap |-> cm]

\* A Sync rebuilds the template from the spec, the map loops visiting the
\* keys in any order.
Sync ==
    \E oc \in RangeOrders(cluster.nodeSelector),
       ok \in RangeOrders(tikv.nodeSelector),
       ac \in RangeOrders(cluster.annotations),
       ak \in RangeOrders(tikv.annotations) :
         /\ template' = TiKVPodTemplate(BaseTiKVSpec,
                                        ConfigMapName(BaseTiKVSpec),
                                        oc, ok, ac, ak)
         /\ fresh' = TRUE
         /\ UNCHANGED <<cluster, tikv, config, edits>>

\* The user edits one field of the spec.
Edit(change) ==
    /\ edits < MaxEdits
    /\ change
    /\ edits' = edits + 1
    /\ fresh' = FALSE
    /\ UNCHANGED template

EditCluster ==
    \E f \in DOMAIN ClusterFields : \E v \in ClusterFields[f] \ {cluster[f]} :
       Edit(cluster' = [cluster EXCEPT ![f] = v] /\ UNCHANGED <<tikv, config>>)

EditTiKV ==
    \E f \in DOMAIN ComponentFields : \E v \in ComponentFields[f] \ {tikv[f]} :
       Edit(tikv' = [tikv EXCEPT ![f] = v] /\ UNCHANGED <<cluster, config>>)

EditConfig ==
    \E c \in (Configs \cup {Nil}) \ {config} :
       Edit(config' = c /\ UNCHANGED <<cluster, tikv>>)

\* A cluster created by an early version: no strategy, nothing overridden.
Init ==
    /\ cluster = [imagePullPolicy |-> "IfNotPresent", hostNetwork |-> Nil,
                  affinity |-> Nil, priorityClassName |-> Nil,
                  schedulerName |-> "", nodeSelector |-> EmptyMap,
                  annotations |-> EmptyMap, tolerations |-> NilList,
                  configUpdateStrategy |-> ""]
    /\ tikv = [f \in DOMAIN ComponentFields |->
                 CASE f \in {"nodeSelector", "annotations"} -> EmptyMap
                   [] f = "tolerations" -> NilList
                   [] f = "env" -> <<>>
                   [] OTHER -> Nil]
    /\ config = Nil
    /\ template = NoTemplate
    /\ fresh = FALSE
    /\ edits = 0

Next == Sync \/ EditCluster \/ EditTiKV \/ EditConfig

Spec == Init /\ [][Next]_vars

-----------------------------------------------------------------------------
(* Properties.                                                             *)

TypeOK ==
    /\ \A f \in DOMAIN ClusterFields : cluster[f] \in ClusterFields[f]
    /\ \A f \in DOMAIN ComponentFields : tikv[f] \in ComponentFields[f]
    /\ config \in Configs \cup {Nil}
    /\ template = NoTemplate
       \/ /\ template.configMap \in Configs \cup {NoDigest}
          /\ template.nodeSelector \in Maps(Vals)
          /\ template.annotations \in Maps(Vals \cup {"true"})
          /\ template.initSysctls \subseteq Sysctls
    /\ fresh \in BOOLEAN
    /\ edits \in 0 .. MaxEdits

\* The override the accessor promises ("respects the cluster-level
\* properties and component-level overrides"): a map entry the component
\* specifies wins over the cluster's, and the cluster's entries are kept
\* otherwise.
MapOverride(c, k) == [key \in Keys |-> IF c[key] # Absent THEN c[key] ELSE k[key]]

\* The node selector and the annotations of the template a Sync builds
\* are the component's entries over the cluster's, whatever order Go's
\* map ranges take in NodeSelector and Annotations: the template is the
\* same on every Sync, so the StatefulSet is not rolled for nothing.
MergedMapsOverride ==
    fresh =>
      /\ template.nodeSelector
            = MapOverride(tikv.nodeSelector, cluster.nodeSelector)
      /\ template.annotations
            = MapOverride(tikv.annotations, cluster.annotations)

\* The sysctls the TiKV PodSecurityContext requests are run by the
\* privileged init container, and cleared from the pod's security context,
\* exactly when the sysctl-init annotation is "true" in the spec, whether
\* the component sets it or only the cluster does; otherwise the security
\* context keeps them (getNewTiKVSetForTikvCluster reads the annotation
\* from the merged Annotations()).
SysctlInitFollowsAnnotation ==
    fresh /\ tikv.podSecurityContext \notin {Nil, {}} =>
      IF MapOverride(tikv.annotations, cluster.annotations)[SysctlInitKey]
            = "true"
      THEN /\ template.initSysctls = tikv.podSecurityContext
           /\ template.securityContext = {}
      ELSE /\ template.initSysctls = {}
           /\ template.securityContext = tikv.podSecurityContext
=============================================================================
