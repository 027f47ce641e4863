----------------------------- MODULE Parameters -----------------------------
(***************************************************************************)
(* Volume parameters, pkg/pmem-csi-driver/parameters/parameters.go: string *)
(* maps that come from a storage class, a pod, a PV or a state file, the   *)
(* settings they are parsed into, and the string map that is stored.       *)
(*                                                                         *)
(* A map is a function from keys to texts.  A setting is a set with at     *)
(* most one element: {} for a nil pointer.  A quantity is the number it    *)
(* stands for, its notation is left out.                                   *)
(***************************************************************************)
EXTENDS Integers, FiniteSets

EraseAfter == "eraseafter"
KataContainers == "kataContainers"
Name == "name"
PersistencyModel == "persistencyModel"
Size == "size"
DeviceMode == "deviceMode"
UsageModel == "usage"
Ephemeral == "csi.storage.k8s.io/ephemeral"
PodName == "csi.storage.k8s.io/pod.name"
ProvisionerID == "storage.kubernetes.io/csiProvisionerIdentity"

PodInfo == {Ephemeral, PodName}     \* the keys with PodInfoPrefix

\* Which keys are valid in which context.
valid ==
    [CreateVolumeOrigin     |-> {EraseAfter, KataContainers, UsageModel, PersistencyModel},
     EphemeralVolumeOrigin  |-> {EraseAfter, KataContainers, UsageModel, Size} \cup PodInfo,
     PersistentVolumeOrigin |-> {EraseAfter, KataContainers, PersistencyModel, UsageModel,
                                 Name, ProvisionerID} \cup PodInfo,
     NodeVolumeOrigin       |-> {EraseAfter, KataContainers, UsageModel, Name,
                                 PersistencyModel, Size, DeviceMode}]

TrueTexts == {"1", "t", "T", "TRUE", "true", "True"}
FalseTexts == {"0", "f", "F", "FALSE", "false", "False"}
BoolText(b) == IF b THEN "true" ELSE "false"

\* DeviceMode.Set: "ndctl" is the old name of direct mode.
DeviceModes == [lvm |-> "lvm", direct |-> "direct", fake |-> "fake", ndctl |-> "direct"]

\* The text can be parsed as a value of the key.
ValueValid(origin, key, text) ==
    CASE key \in {KataContainers, EraseAfter, Ephemeral} -> text \in TrueTexts \cup FalseTexts
      [] key = PersistencyModel -> \/ text \in {"normal", "none"}
                                   \/ text = "ephemeral" /\ origin = "NodeVolumeOrigin"
      [] key = UsageModel -> text \in {"AppDirect", "FileIO", ""}
      [] key = DeviceMode -> text \in DOMAIN DeviceModes
      [] OTHER -> TRUE

\* The setting of a key: Value(text) if the map has the key.
Setting(m, key, Value(_)) == {Value(m[k]) : k \in {key} \cap DOMAIN m}

Default(setting, d) == IF setting = {} THEN d ELSE CHOOSE v \in setting : TRUE

GetEraseAfter(v) == Default(v.EraseAfter, TRUE)
GetKataContainers(v) == Default(v.KataContainers, FALSE)
GetUsage(v) == Default(v.Usage, "AppDirect")
GetSize(v) == Default(v.Size, 0)
GetDeviceMode(v) == Default(v.DeviceMode, "")

\* Only PersistentVolumeOrigin allows both keys for the persistency, then their
\* order in the map decides; nothing is stored from there.
Settings(m) ==
    [EraseAfter     |-> Setting(m, EraseAfter, LAMBDA t : t \in TrueTexts),
     KataContainers |-> Setting(m, KataContainers, LAMBDA t : t \in TrueTexts),
     Name           |-> Setting(m, Name, LAMBDA t : t),
     Persistency    |-> IF Ephemeral \in DOMAIN m /\ m[Ephemeral] \in TrueTexts
                          THEN {"ephemeral"}
                          ELSE Setting(m, PersistencyModel, LAMBDA t : IF t = "none" THEN "normal" ELSE t),
     Size           |-> Setting(m, Size, LAMBDA t : t),
     DeviceMode     |-> Setting(m, DeviceMode, LAMBDA t : DeviceModes[t]),
     Usage          |-> Setting(m, UsageModel, LAMBDA t : t) \ {""}]

\* Parse returns no error.
ParseOK(origin, m) ==
    /\ DOMAIN m \subseteq valid[origin]
    /\ \A key \in DOMAIN m : ValueValid(origin, key, m[key])
    /\ origin = "EphemeralVolumeOrigin" => Size \in DOMAIN m
    /\ GetKataContainers(Settings(m)) => GetUsage(Settings(m)) = "AppDirect"

\* The result of Parse, if it returns no error.
Parse(m) == Settings(m)

\* The entries with these texts: texts[key] is a set with at most one text.
Context(texts) ==
    [key \in {k \in DOMAIN texts : texts[k] # {}} |-> CHOOSE t \in texts[key] : TRUE]

\* The texts of all settings, by key.
Texts(v) ==
    [eraseafter |-> {BoolText(b) : b \in v.EraseAfter},
     name |-> v.Name,
     persistencyModel |-> v.Persistency,
     size |-> v.Size,
     kataContainers |-> {BoolText(b) : b \in v.KataContainers},
     deviceMode |-> v.DeviceMode,
     usage |-> v.Usage]

\* Mutant: the setting is formatted for people, not for Parse.
ToContextLoud(v) ==
    Context([Texts(v) EXCEPT !.eraseafter = {IF b THEN "yes" ELSE "no" : b \in v.EraseAfter}])

\* Mutant: erasing is not stored.
ToContextNoErase(v) == Context([Texts(v) EXCEPT !.eraseafter = {}])

ToContext(v) == Context(Texts(v))

=============================================================================
