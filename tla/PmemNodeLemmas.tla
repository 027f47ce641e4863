--------------------------- MODULE PmemNodeLemmas ---------------------------
(***************************************************************************)
(* Facts about the operators of Parameters and Regions, for all volume     *)
(* parameters, regions, alignments and namespaces.                         *)
(***************************************************************************)
EXTENDS PmemNodeInv, FiniteSetTheorems, WellFoundedInduction, TLAPS

Optional(V) == {{}} \cup {{x} : x \in V}

\* The settings that Parse can return, with these names and sizes.
VolumeSettings(names, sizes) ==
    [EraseAfter : Optional(BOOLEAN), KataContainers : Optional(BOOLEAN), Name : Optional(names),
     Persistency : Optional({"normal", "ephemeral"}), Size : Optional(sizes),
     DeviceMode : Optional({"lvm", "direct", "fake"}), Usage : Optional({"AppDirect", "FileIO"})]

\* The entry of a key has the text of that key.
LEMMA ContextFact ==
    ASSUME NEW texts, NEW k \in DOMAIN texts
    PROVE  /\ k \in DOMAIN Context(texts) <=> texts[k] # {}
           /\ \A x : texts[k] = {x} => Context(texts)[k] = x
<1>1. k \in DOMAIN Context(texts) <=> texts[k] # {}
  BY DEF Context
<1>2. ASSUME NEW x, texts[k] = {x} PROVE Context(texts)[k] = x
  BY <1>2 DEF Context
<1> QED BY <1>1, <1>2

\* ToContext has no other keys than those of the settings.
LEMMA ContextKeys ==
    ASSUME NEW v
    PROVE  /\ DOMAIN Texts(v) = {"eraseafter", "name", "persistencyModel", "size", "kataContainers",
                                 "deviceMode", "usage"}
           /\ DOMAIN ToContext(v) \subseteq DOMAIN Texts(v)
           /\ Ephemeral \notin DOMAIN ToContext(v)
<1>1. DOMAIN Texts(v) = {"eraseafter", "name", "persistencyModel", "size", "kataContainers",
                         "deviceMode", "usage"}
  BY DEF Texts
<1>2. DOMAIN ToContext(v) \subseteq DOMAIN Texts(v)
  BY DEF ToContext, Context
<1> QED BY <1>1, <1>2 DEF Ephemeral

\* The text of every setting can be read back.
LEMMA SettingTexts ==
    ASSUME NEW N, NEW S, NEW v \in VolumeSettings(N, S)
    PROVE  LET c == ToContext(v) IN
           /\ Setting(c, EraseAfter, LAMBDA t : t \in TrueTexts) = v.EraseAfter
           /\ Setting(c, KataContainers, LAMBDA t : t \in TrueTexts) = v.KataContainers
           /\ Setting(c, Name, LAMBDA t : t) = v.Name
           /\ Setting(c, PersistencyModel, LAMBDA t : IF t = "none" THEN "normal" ELSE t) = v.Persistency
           /\ Setting(c, Size, LAMBDA t : t) = v.Size
           /\ Setting(c, DeviceMode, LAMBDA t : DeviceModes[t]) = v.DeviceMode
           /\ Setting(c, UsageModel, LAMBDA t : t) = v.Usage
<1> DEFINE c == ToContext(v)
<1>0. c = Context(Texts(v))
  BY DEF ToContext
<1>1. /\ EraseAfter = "eraseafter" /\ KataContainers = "kataContainers" /\ Name = "name"
      /\ PersistencyModel = "persistencyModel" /\ Size = "size" /\ DeviceMode = "deviceMode"
      /\ UsageModel = "usage"
  BY DEF EraseAfter, KataContainers, Name, PersistencyModel, Size, DeviceMode, UsageModel
<1>2. ASSUME NEW k \in DOMAIN Texts(v)
      PROVE  /\ Texts(v)[k] = {} => k \notin DOMAIN c
             /\ \A x : Texts(v)[k] = {x} => k \in DOMAIN c /\ c[k] = x
  BY <1>0, ContextFact
<1>3. /\ v.EraseAfter \in Optional(BOOLEAN) /\ v.KataContainers \in Optional(BOOLEAN)
      /\ v.Name \in Optional(N) /\ v.Size \in Optional(S)
      /\ v.Persistency \in Optional({"normal", "ephemeral"})
      /\ v.DeviceMode \in Optional({"lvm", "direct", "fake"})
      /\ v.Usage \in Optional({"AppDirect", "FileIO"})
  BY DEF VolumeSettings
<1> HIDE DEF c
<1>4. ASSUME NEW k \in DOMAIN Texts(v), NEW V, Texts(v)[k] \in Optional(V)
      PROVE  Setting(c, k, LAMBDA t : t) = Texts(v)[k]
  <2>1. CASE Texts(v)[k] = {}
    BY <1>2, <2>1 DEF Setting
  <2>2. ASSUME NEW x, Texts(v)[k] = {x} PROVE Setting(c, k, LAMBDA t : t) = Texts(v)[k]
    BY <1>2, <2>2 DEF Setting
  <2> QED BY <1>4, <2>1, <2>2 DEF Optional
<1>5. Setting(c, Name, LAMBDA t : t) = v.Name
  <2>1. "name" \in DOMAIN Texts(v) /\ Texts(v)["name"] = v.Name
    BY DEF Texts
  <2> QED BY <1>1, <1>3, <1>4, <2>1
<1>6. Setting(c, Size, LAMBDA t : t) = v.Size
  <2>1. "size" \in DOMAIN Texts(v) /\ Texts(v)["size"] = v.Size
    BY DEF Texts
  <2> QED BY <1>1, <1>3, <1>4, <2>1
<1>7. Setting(c, UsageModel, LAMBDA t : t) = v.Usage
  <2>1. "usage" \in DOMAIN Texts(v) /\ Texts(v)["usage"] = v.Usage
    BY DEF Texts
  <2> QED BY <1>1, <1>3, <1>4, <2>1
<1>8. Setting(c, PersistencyModel, LAMBDA t : IF t = "none" THEN "normal" ELSE t) = v.Persistency
  <2>1. "persistencyModel" \in DOMAIN Texts(v) /\ Texts(v)["persistencyModel"] = v.Persistency
    BY DEF Texts
  <2>2. CASE v.Persistency = {}
    BY <1>1, <1>2, <2>1, <2>2 DEF Setting
  <2>3. ASSUME NEW x \in {"normal", "ephemeral"}, v.Persistency = {x}
        PROVE  Setting(c, PersistencyModel, LAMBDA t : IF t = "none" THEN "normal" ELSE t) = {x}
    <3>1. "persistencyModel" \in DOMAIN c /\ c["persistencyModel"] = x
      BY <1>2, <2>1, <2>3
    <3> QED BY <1>1, <3>1 DEF Setting
  <2> QED BY <1>3, <2>2, <2>3, Zenon DEF Optional
<1>9. Setting(c, DeviceMode, LAMBDA t : DeviceModes[t]) = v.DeviceMode
  <2>1. "deviceMode" \in DOMAIN Texts(v) /\ Texts(v)["deviceMode"] = v.DeviceMode
    BY DEF Texts
  <2>2. CASE v.DeviceMode = {}
    BY <1>1, <1>2, <2>1, <2>2 DEF Setting
  <2>3. ASSUME NEW x \in {"lvm", "direct", "fake"}, v.DeviceMode = {x}
        PROVE  Setting(c, DeviceMode, LAMBDA t : DeviceModes[t]) = {x}
    <3>1. "deviceMode" \in DOMAIN c /\ c["deviceMode"] = x
      BY <1>2, <2>1, <2>3
    <3>2. DeviceModes[x] = x
      BY DEF DeviceModes
    <3> QED BY <1>1, <3>1, <3>2 DEF Setting
  <2> QED BY <1>3, <2>2, <2>3, Zenon DEF Optional
<1>10. ASSUME NEW k \in DOMAIN Texts(v), NEW B \in Optional(BOOLEAN), Texts(v)[k] = {BoolText(b) : b \in B}
       PROVE  Setting(c, k, LAMBDA t : t \in TrueTexts) = B
  <2>1. CASE B = {}
    BY <1>2, <1>10, <2>1 DEF Setting
  <2>2. ASSUME NEW b \in BOOLEAN, B = {b}
        PROVE  Setting(c, k, LAMBDA t : t \in TrueTexts) = {b}
    <3>1. k \in DOMAIN c /\ c[k] = BoolText(b)
      BY <1>2, <1>10, <2>2
    <3>2. (BoolText(b) \in TrueTexts) = b
      BY DEF BoolText, TrueTexts
    <3> QED BY <3>1, <3>2 DEF Setting
  <2> QED BY <1>10, <2>1, <2>2, Zenon DEF Optional
<1>11. Setting(c, EraseAfter, LAMBDA t : t \in TrueTexts) = v.EraseAfter
  <2>1. "eraseafter" \in DOMAIN Texts(v) /\ Texts(v)["eraseafter"] = {BoolText(b) : b \in v.EraseAfter}
    BY DEF Texts
  <2> QED BY <1>1, <1>3, <1>10, <2>1, Zenon
<1>12. Setting(c, KataContainers, LAMBDA t : t \in TrueTexts) = v.KataContainers
  <2>1. "kataContainers" \in DOMAIN Texts(v)
        /\ Texts(v)["kataContainers"] = {BoolText(b) : b \in v.KataContainers}
    BY DEF Texts
  <2> QED BY <1>1, <1>3, <1>10, <2>1, Zenon
<1> QED BY <1>5, <1>6, <1>7, <1>8, <1>9, <1>11, <1>12, Zenon DEF c

\* What ToContext writes, Parse reads: all settings survive being stored.
THEOREM RoundTrip ==
    ASSUME NEW N, NEW S, NEW v \in VolumeSettings(N, S),
           GetKataContainers(v) => GetUsage(v) = "AppDirect"
    PROVE  /\ Parse(ToContext(v)) = v
           /\ ParseOK("NodeVolumeOrigin", ToContext(v))
<1> DEFINE c == ToContext(v)
<1>1. Settings(c) = v
  <2>1. /\ Settings(c).EraseAfter = v.EraseAfter /\ Settings(c).KataContainers = v.KataContainers
        /\ Settings(c).Name = v.Name /\ Settings(c).Size = v.Size /\ Settings(c).DeviceMode = v.DeviceMode
    <3>1. /\ Settings(c).EraseAfter = Setting(c, EraseAfter, LAMBDA t : t \in TrueTexts)
          /\ Settings(c).KataContainers = Setting(c, KataContainers, LAMBDA t : t \in TrueTexts)
          /\ Settings(c).Name = Setting(c, Name, LAMBDA t : t)
          /\ Settings(c).Size = Setting(c, Size, LAMBDA t : t)
          /\ Settings(c).DeviceMode = Setting(c, DeviceMode, LAMBDA t : DeviceModes[t])
      BY Zenon DEF Settings
    <3>2. /\ Setting(c, EraseAfter, LAMBDA t : t \in TrueTexts) = v.EraseAfter
          /\ Setting(c, KataContainers, LAMBDA t : t \in TrueTexts) = v.KataContainers
          /\ Setting(c, Name, LAMBDA t : t) = v.Name
          /\ Setting(c, Size, LAMBDA t : t) = v.Size
          /\ Setting(c, DeviceMode, LAMBDA t : DeviceModes[t]) = v.DeviceMode
      BY SettingTexts, Zenon
    <3> HIDE DEF c
    <3> QED BY <3>1, <3>2
  <2>2. Settings(c).Persistency = v.Persistency
    BY SettingTexts, ContextKeys, Zenon DEF Settings
  <2>3. Settings(c).Usage = v.Usage
    <3>1. Setting(c, UsageModel, LAMBDA t : t) = v.Usage
      BY SettingTexts, Zenon
    <3>2. "" \notin v.Usage
      BY Zenon DEF VolumeSettings, Optional
    <3> HIDE DEF c
    <3>3. Settings(c).Usage = Setting(c, UsageModel, LAMBDA t : t) \ {""}
      BY Zenon DEF Settings
    <3> QED BY <3>1, <3>2, <3>3, Zenon
  <2>4. /\ v = [EraseAfter |-> v.EraseAfter, KataContainers |-> v.KataContainers, Name |-> v.Name,
                Persistency |-> v.Persistency, Size |-> v.Size, DeviceMode |-> v.DeviceMode,
                Usage |-> v.Usage]
    BY DEF VolumeSettings
  <2>5. Settings(c) = [EraseAfter |-> Settings(c).EraseAfter, KataContainers |-> Settings(c).KataContainers,
                Name |-> Settings(c).Name, Persistency |-> Settings(c).Persistency,
                Size |-> Settings(c).Size, DeviceMode |-> Settings(c).DeviceMode,
                Usage |-> Settings(c).Usage]
    BY Zenon DEF Settings
  <2> HIDE DEF c
  <2> QED BY <2>1, <2>2, <2>3, <2>4, <2>5
<1>2. DOMAIN c \subseteq valid["NodeVolumeOrigin"]
  BY ContextKeys DEF valid, EraseAfter, KataContainers, UsageModel, Name, PersistencyModel, Size,
                     DeviceMode
<1>3. ASSUME NEW key \in DOMAIN c
      PROVE  ValueValid("NodeVolumeOrigin", key, c[key])
  <2>1. key \in DOMAIN Texts(v) /\ Texts(v)[key] # {}
    BY ContextKeys, ContextFact DEF ToContext
  <2>2. ASSUME NEW V, Texts(v)[key] \in Optional(V) PROVE c[key] \in V
    <3>1. PICK x \in V : Texts(v)[key] = {x}
      BY <2>1, <2>2 DEF Optional
    <3> QED BY <2>1, <3>1, ContextFact DEF ToContext
  <2> HIDE DEF c
  <2>3. CASE key \in {"eraseafter", "kataContainers"}
    <3>1. PICK B \in Optional(BOOLEAN) : Texts(v)[key] = {BoolText(b) : b \in B}
      BY <2>3 DEF Texts, VolumeSettings
    <3>2. PICK b \in BOOLEAN : Texts(v)[key] = {BoolText(b)}
      BY <2>1, <3>1 DEF Optional
    <3>3. c[key] = BoolText(b)
      BY <2>1, <3>2, ContextFact DEF ToContext, c
    <3>4. c[key] \in TrueTexts \cup FalseTexts
      BY <3>3 DEF BoolText, TrueTexts, FalseTexts
    <3> QED BY <2>3, <3>4, Zenon DEF ValueValid, PersistencyModel, KataContainers, EraseAfter,
                                     Ephemeral,
                              UsageModel, DeviceMode
  <2>4. CASE key = "persistencyModel"
    <3>1. Texts(v)[key] \in Optional({"normal", "ephemeral"})
      BY <2>4 DEF Texts, VolumeSettings
    <3>2. c[key] \in {"normal", "ephemeral"}
      BY <2>2, <3>1
    <3> QED BY <2>4, <3>2 DEF ValueValid, PersistencyModel, KataContainers, EraseAfter, Ephemeral,
                              UsageModel, DeviceMode
  <2>5. CASE key = "deviceMode"
    <3>1. Texts(v)[key] \in Optional({"lvm", "direct", "fake"})
      BY <2>5 DEF Texts, VolumeSettings
    <3>2. c[key] \in DOMAIN DeviceModes
      BY <2>2, <3>1 DEF DeviceModes
    <3> QED BY <2>5, <3>2 DEF ValueValid, PersistencyModel, KataContainers, EraseAfter, Ephemeral,
                              UsageModel, DeviceMode
  <2>6. CASE key = "usage"
    <3>1. Texts(v)[key] \in Optional({"AppDirect", "FileIO"})
      BY <2>6 DEF Texts, VolumeSettings
    <3>2. c[key] \in {"AppDirect", "FileIO"}
      BY <2>2, <3>1
    <3> QED BY <2>6, <3>2, Zenon DEF ValueValid, PersistencyModel, KataContainers, EraseAfter,
                                     Ephemeral,
                              UsageModel, DeviceMode
  <2>7. CASE key \in {"name", "size"}
    BY <2>7, Zenon DEF ValueValid, PersistencyModel, KataContainers, EraseAfter, Ephemeral,
                       UsageModel, DeviceMode
  <2> QED BY <2>1, <2>3, <2>4, <2>5, <2>6, <2>7, ContextKeys
<1> HIDE DEF c
<1>4. ParseOK("NodeVolumeOrigin", c)
  BY <1>1, <1>2, <1>3 DEF ParseOK
<1> QED BY <1>1, <1>4 DEF Parse, c

\* A setting has at most one value, one of those that its texts can have.
LEMMA SettingOptional ==
    ASSUME NEW m, NEW key, NEW V, key \in DOMAIN m => m[key] \in V
    PROVE  Setting(m, key, LAMBDA t : t) \in Optional(V)
<1>1. CASE key \in DOMAIN m
  BY <1>1 DEF Setting, Optional
<1>2. CASE key \notin DOMAIN m
  BY <1>2 DEF Setting, Optional
<1> QED BY <1>1, <1>2

\* Parse returns settings for the parameters of CreateVolume and of ephemeral
\* volumes; the name and the device mode are never among them.
LEMMA ParsedSettings ==
    ASSUME NEW m, NEW S, Size \in DOMAIN m => m[Size] \in S, ParseOK(Origin(m), m)
    PROVE  /\ Parse(m) \in VolumeSettings({}, S)
           /\ GetKataContainers(Parse(m)) => GetUsage(Parse(m)) = "AppDirect"
<1>0. Origin(m) \in {"CreateVolumeOrigin", "EphemeralVolumeOrigin"}
  BY DEF Origin
<1>1. /\ DOMAIN m \subseteq valid[Origin(m)]
      /\ \A key \in DOMAIN m : ValueValid(Origin(m), key, m[key])
      /\ GetKataContainers(Settings(m)) => GetUsage(Settings(m)) = "AppDirect"
  BY DEF ParseOK
<1>2. Name \notin DOMAIN m /\ DeviceMode \notin DOMAIN m
  BY <1>0, <1>1 DEF valid, EraseAfter, KataContainers, UsageModel, Name, PersistencyModel, Size,
                    DeviceMode,
                    PodInfo, Ephemeral, PodName
<1>3. /\ Settings(m).EraseAfter \in Optional(BOOLEAN)
      /\ Settings(m).KataContainers \in Optional(BOOLEAN)
  <2>1. ASSUME NEW key PROVE Setting(m, key, LAMBDA t : t \in TrueTexts) \in Optional(BOOLEAN)
    <3>1. CASE key \in DOMAIN m
      <4>1. Setting(m, key, LAMBDA t : t \in TrueTexts) = {m[key] \in TrueTexts}
        BY <3>1 DEF Setting
      <4>2. (m[key] \in TrueTexts) \in BOOLEAN
        OBVIOUS
      <4> QED BY <4>1, <4>2, Zenon DEF Optional
    <3>2. CASE key \notin DOMAIN m
      BY <3>2 DEF Setting, Optional
    <3> QED BY <3>1, <3>2
  <2> QED BY <2>1, Zenon DEF Settings
<1>4. Settings(m).Name = {} /\ Settings(m).DeviceMode = {}
  BY <1>2 DEF Settings, Setting
<1>5. Settings(m).Size \in Optional(S)
  BY SettingOptional, Zenon DEF Settings
<1>6. Settings(m).Persistency \in Optional({"normal", "ephemeral"})
  <2>1. PersistencyModel \in DOMAIN m => m[PersistencyModel] \in {"normal", "none"}
    BY <1>0, <1>1, Zenon DEF ValueValid, PersistencyModel, KataContainers, EraseAfter, Ephemeral,
                             UsageModel, DeviceMode
  <2> QED BY <2>1 DEF Settings, Setting, Optional
<1>7. Settings(m).Usage \in Optional({"AppDirect", "FileIO"})
  <2>1. UsageModel \in DOMAIN m => m[UsageModel] \in {"AppDirect", "FileIO", ""}
    BY <1>1, Zenon DEF ValueValid, PersistencyModel, KataContainers, EraseAfter, Ephemeral,
                       UsageModel, DeviceMode
  <2>2. Settings(m).Usage = Setting(m, UsageModel, LAMBDA t : t) \ {""}
    BY Zenon DEF Settings
  <2>3. Setting(m, UsageModel, LAMBDA t : t) \in Optional({"AppDirect", "FileIO", ""})
    BY <2>1, SettingOptional, Zenon
  <2> QED BY <2>2, <2>3, Zenon DEF Optional
<1>8. Settings(m) = [EraseAfter |-> Settings(m).EraseAfter, KataContainers |-> Settings(m).KataContainers,
                Name |-> Settings(m).Name, Persistency |-> Settings(m).Persistency,
                Size |-> Settings(m).Size, DeviceMode |-> Settings(m).DeviceMode,
                Usage |-> Settings(m).Usage]
  BY Zenon DEF Settings
<1>9. {} \in Optional({}) /\ {} \in Optional({"lvm", "direct", "fake"})
  BY DEF Optional
<1> QED BY <1>1, <1>3, <1>4, <1>5, <1>6, <1>7, <1>8, <1>9, Zenon DEF VolumeSettings, Parse

\* The usage that was asked for.
LEMMA UsageType ==
    ASSUME NEW m \in Maps, ParseOK(Origin(m), m)
    PROVE  GetUsage(Parse(m)) \in {"AppDirect", "FileIO"}
<1>1. Parse(m) \in VolumeSettings({}, Nat)
  BY ParsedSettings, PmemNodeAssumption
<1>2. Parse(m).Usage \in Optional({"AppDirect", "FileIO"})
  BY <1>1 DEF VolumeSettings
<1> QED BY <1>2 DEF GetUsage, Default, Optional

\* The size that was asked for.
LEMMA AskedType ==
    ASSUME NEW m \in Maps, ParseOK(Origin(m), m)
    PROVE  AskedSizes(m) \subseteq Nat
<1>1. Parse(m) \in VolumeSettings({}, Nat)
  BY ParsedSettings, PmemNodeAssumption
<1>2. Parse(m).Size \in Optional(Nat)
  BY <1>1 DEF VolumeSettings
<1>3. GetSize(Parse(m)) \in Nat
  BY <1>2 DEF GetSize, Default, Optional
<1>4. Sizes \subseteq Nat
  BY PmemNodeAssumption
<1> QED BY <1>3, <1>4, Zenon DEF AskedSizes

\* What is stored for a volume can be parsed again, and gives back the mode
\* that the driver was in and what the user has asked for.
LEMMA StoredFact ==
    ASSUME NEW id \in Ids, NEW m \in Maps, ParseOK(Origin(m), m), NEW mode \in {"lvm", "direct"}
    PROVE  LET p == StoredParams(id, m, mode) IN
           /\ ParseOK("NodeVolumeOrigin", p)
           /\ GetDeviceMode(Parse(p)) = mode
           /\ GetEraseAfter(Parse(p)) = GetEraseAfter(Parse(m))
           /\ GetUsage(Parse(p)) = GetUsage(Parse(m))
<1> DEFINE v == [Parse(m) EXCEPT !.Name = {id},
                                 !.Persistency = IF IsEphemeral(m) THEN {"ephemeral"} ELSE @,
                                 !.DeviceMode = {mode}]
<1>1. /\ Parse(m) \in VolumeSettings({}, Nat)
      /\ GetKataContainers(Parse(m)) => GetUsage(Parse(m)) = "AppDirect"
  BY ParsedSettings, PmemNodeAssumption
<1>2. /\ {id} \in Optional(Ids) /\ {"ephemeral"} \in Optional({"normal", "ephemeral"})
      /\ {mode} \in Optional({"lvm", "direct", "fake"})
  BY DEF Optional
<1>3. v \in VolumeSettings(Ids, Nat)
  BY <1>1, <1>2, Zenon DEF VolumeSettings
<1>4. /\ v.EraseAfter = Parse(m).EraseAfter /\ v.KataContainers = Parse(m).KataContainers
      /\ v.Usage = Parse(m).Usage /\ v.DeviceMode = {mode}
  BY <1>1 DEF VolumeSettings
<1>5. StoredParams(id, m, mode) = ToContext(v)
  BY DEF StoredParams
<1> HIDE DEF v
<1>6. GetKataContainers(v) => GetUsage(v) = "AppDirect"
  BY <1>1, <1>4 DEF GetKataContainers, GetUsage
<1>7. Parse(ToContext(v)) = v /\ ParseOK("NodeVolumeOrigin", ToContext(v))
  BY <1>3, <1>6, RoundTrip
<1>8. GetDeviceMode(v) = mode
  BY <1>4, Zenon DEF GetDeviceMode, Default
<1>9. GetEraseAfter(v) = GetEraseAfter(Parse(m)) /\ GetUsage(v) = GetUsage(Parse(m))
  BY <1>4 DEF GetEraseAfter, GetUsage
<1> QED BY <1>5, <1>7, <1>8, <1>9

-----------------------------------------------------------------------------
\* Two multiples of the alignment differ by at least the alignment.
LEMMA Multiples ==
    ASSUME NEW a \in Nat \ {0}, NEW i \in Int, NEW k \in Int
    PROVE  /\ (i + 1) * a = i * a + a
           /\ i < k => i * a + a <= k * a
           /\ i <= k => i * a <= k * a
           /\ i * a < k * a => i < k
           /\ (i * a) % a = 0
<1>1. (i + 1) * a = i * a + a
  OBVIOUS
<1>2. i < k => i * a + a <= k * a
  <2>1. SUFFICES ASSUME i < k PROVE (i + 1) * a <= k * a
    BY <1>1
  <2>2. \E d \in Nat : k = i + 1 + d
    <3>1. k - i - 1 \in Nat /\ k = i + 1 + (k - i - 1)
      BY <2>1
    <3> QED BY <3>1
  <2>3. PICK d \in Nat : k = i + 1 + d
    BY <2>2
  <2>4. k * a = (i + 1) * a + d * a
    BY <2>3
  <2>5. d * a >= 0
    OBVIOUS
  <2> QED BY <2>4, <2>5
<1>3. i <= k => i * a <= k * a
  BY <1>2
<1>4. i * a < k * a => i < k
  <2>1. ~(i < k) => k * a <= i * a
    <3>1. SUFFICES ASSUME i >= k PROVE k * a <= i * a
      OBVIOUS
    <3>2. PICK d \in Nat : i = k + d
      <4>1. i - k \in Nat /\ i = k + (i - k)
        BY <3>1
      <4> QED BY <4>1
    <3>3. i * a = k * a + d * a
      BY <3>2
    <3>4. d * a >= 0
      OBVIOUS
    <3> QED BY <3>3, <3>4
  <2> QED BY <2>1
<1>5. (i * a) % a = 0
  OBVIOUS
<1> QED BY <1>1, <1>2, <1>3, <1>4, <1>5

\* Division with remainder.
LEMMA Division ==
    ASSUME NEW a \in Nat \ {0}, NEW i \in Nat
    PROVE  /\ i \div a \in Nat /\ i % a \in 0 .. a - 1
           /\ i = (i \div a) * a + (i % a)
OBVIOUS

\* AlignUp returns the smallest multiple of the alignment, other than 0, that is
\* large enough; AlignDown the largest one that is small enough.
LEMMA Alignment ==
    ASSUME NEW size \in Nat
    PROVE  /\ AlignUp(size) \in Nat \ {0} /\ AlignUp(size) % align = 0
           /\ AlignUp(size) >= size /\ AlignUp(size) >= align
           /\ \A k \in Nat \ {0} : k % align = 0 /\ size <= k => AlignUp(size) <= k
           /\ AlignDown(size) \in Nat /\ AlignDown(size) % align = 0
           /\ AlignDown(size) <= size
           /\ \A k \in Nat : k % align = 0 /\ k <= size => k <= AlignDown(size)
<1> DEFINE a == align
           d == size \div align
<1>1. a \in Nat \ {0}
  BY AlignAssumption
<1> HIDE DEF a
<1>2. d \in Nat /\ size % a \in 0 .. a - 1 /\ size = d * a + (size % a)
  BY <1>1, Division, Zenon DEF a
<1>3. d * a \in Nat /\ (d + 1) * a = d * a + a
  BY <1>1, <1>2, Multiples
<1>4. (d * a) % a = 0 /\ ((d + 1) * a) % a = 0
  <2>1. \A i \in Int : (i * a) % a = 0
    BY <1>1, Multiples
  <2>2. d \in Int /\ d + 1 \in Int
    BY <1>2
  <2> HIDE DEF d
  <2> QED BY <2>1, <2>2, Zenon
<1> HIDE DEF d
<1>5. AlignUp(size) = IF size = 0 \/ size % a # 0 THEN (d + 1) * a ELSE size
  BY DEF AlignUp, a, d
<1>6. AlignDown(size) = d * a
  BY DEF AlignDown, a, d
<1>7. ASSUME NEW k \in Nat, k % a = 0 PROVE \E j \in Nat : k = j * a
  <2>1. k \div a \in Nat /\ k = (k \div a) * a + (k % a) /\ (k \div a) * a \in Nat
    BY <1>1, Division
  <2>2. k = (k \div a) * a
    BY <1>7, <2>1
  <2> QED BY <2>1, <2>2
<1>8. ASSUME NEW k \in Nat \ {0}, k % a = 0, size <= k PROVE AlignUp(size) <= k
  <2>1. PICK j \in Nat : k = j * a
    BY <1>7, <1>8
  <2>2. CASE size = 0
    <3>1. d = 0
      <4>0. \A x, y \in Nat : size = x + y => x = 0
        BY <2>2
      <4>1. d * a = 0
        <5>1. size % a \in Nat
          BY <1>1, <1>2
        <5> QED BY <1>2, <1>3, <4>0, <5>1, Zenon
      <4>2. 0 < d => 0 * a + a <= d * a
        BY <1>1, <1>2, Multiples
      <4>3. 0 * a = 0
        BY <1>1
      <4> QED BY <1>1, <1>2, <4>1, <4>2, <4>3
    <3>2. 0 < j
      <4>1. j # 0
        BY <1>1, <1>8, <2>1
      <4> QED BY <4>1
    <3>3. 0 * a + a <= j * a /\ 0 * a = 0
      BY <1>1, <3>2, Multiples
    <3> QED BY <1>1, <1>3, <1>5, <2>1, <2>2, <3>1, <3>3
  <2>3. CASE size # 0 /\ size % a # 0
    <3>1. d * a < j * a
      BY <1>1, <1>2, <1>3, <1>8, <2>1, <2>3
    <3>2. d * a + a <= j * a
      BY <1>1, <1>2, <3>1, Multiples
    <3> QED BY <1>3, <1>5, <2>1, <2>3, <3>2
  <2>4. CASE size # 0 /\ size % a = 0
    BY <1>5, <1>8, <2>4
  <2> QED BY <2>2, <2>3, <2>4
<1>9. ASSUME NEW k \in Nat, k % a = 0, k <= size PROVE k <= AlignDown(size)
  <2>1. PICK j \in Nat : k = j * a
    BY <1>7, <1>9
  <2>2. j * a < (d + 1) * a
    BY <1>1, <1>2, <1>3, <1>9, <2>1
  <2>3. j < d + 1
    BY <1>1, <1>2, <2>2, Multiples
  <2>4. j * a <= d * a
    BY <1>1, <1>2, <2>3, Multiples
  <2> QED BY <1>6, <2>1, <2>4
<1>10. /\ AlignUp(size) \in Nat \ {0} /\ AlignUp(size) % a = 0
       /\ AlignUp(size) >= size
  BY <1>1, <1>2, <1>3, <1>4, <1>5
<1>11. AlignUp(size) >= a
  <2>1. PICK j \in Nat : AlignUp(size) = j * a
    BY <1>7, <1>10
  <2>2. j > 0
    <3>1. j # 0
      BY <1>1, <1>10, <2>1
    <3> QED BY <3>1
  <2>3. 0 * a + a <= j * a /\ 0 * a = 0
    BY <1>1, <2>2, Multiples
  <2> QED BY <1>1, <2>1, <2>3
<1>12. AlignDown(size) \in Nat /\ AlignDown(size) % a = 0 /\ AlignDown(size) <= size
  BY <1>1, <1>2, <1>3, <1>4, <1>6
<1> QED BY <1>8, <1>9, <1>10, <1>11, <1>12 DEF a

-----------------------------------------------------------------------------
\* Every set of numbers has a smallest one.
LEMMA Smallest ==
    ASSUME NEW S, S \subseteq Nat, S # {}
    PROVE  \E x \in S : \A y \in S : x <= y
<1>1. PICK x \in S : \A y \in S : ~(<<y, x>> \in OpToRel(<, Nat))
  BY NatLessThanWellFounded, WFMin, Zenon
<1>2. ASSUME NEW y \in S PROVE x <= y
  <2>1. x \in Nat /\ y \in Nat
    OBVIOUS
  <2>2. y < x => <<y, x>> \in OpToRel(<, Nat)
    BY <2>1 DEF OpToRel
  <2>3. ~(y < x)
    BY <1>1, <2>2, Zenon
  <2> QED BY <2>1, <2>3
<1> QED BY <1>2

\* Every bounded set of numbers has a largest one.
LEMMA Largest ==
    ASSUME NEW S, S \subseteq Nat, S # {}, NEW bound \in Nat, \A x \in S : x <= bound
    PROVE  Max(S) \in S /\ \A y \in S : y <= Max(S)
<1> DEFINE D == {bound - x : x \in S}
<1>1. D \subseteq Nat /\ D # {}
  <2>1. ASSUME NEW x \in S PROVE bound - x \in Nat
    OBVIOUS
  <2>2. D \subseteq Nat
    BY <2>1
  <2>3. D # {}
    BY Zenon
  <2> QED BY <2>2, <2>3
<1>2. PICK d \in D : \A y \in D : d <= y
  <2> HIDE DEF D
  <2> QED BY <1>1, Smallest, Zenon
<1>3. PICK x \in S : d = bound - x
  OBVIOUS
<1>4. ASSUME NEW y \in S PROVE x >= y
  <2>1. bound - x <= bound - y
    BY <1>2, <1>3
  <2>2. x \in Nat /\ y \in Nat
    OBVIOUS
  <2> QED BY <2>1, <2>2
<1>5. /\ Max(S) \in S /\ \A y \in S : Max(S) >= y
  BY <1>4, Zenon DEF Max
<1> QED BY <1>5

\* GetMaxAvailableExtent returns the size of the largest free extent, 0 if there
\* is none.
LEMMA LargestExtent ==
    ASSUME NEW r \in Regions
    PROVE  /\ MaxAvailableExtent(r) \in Nat
           /\ AvailableSize(r) \in Nat
           /\ \A e \in Extents(r, ns) : e[2] - e[1] + 1 <= MaxAvailableExtent(r)
           /\ MaxAvailableExtent(r) > 0 =>
                \E e \in Extents(r, ns) : e[2] - e[1] + 1 = MaxAvailableExtent(r)
<1> DEFINE S == {e[2] - e[1] + 1 : e \in Extents(r, ns)}
           T == {0} \cup (S \cap Nat)
<1>1. RegionSize[r] \in Nat
  BY RegionsAssumption, Zenon
<1>2. FreeSpace(r, ns) \subseteq 0 .. RegionSize[r] - 1
  BY DEF FreeSpace
<1>3. ASSUME NEW e \in Extents(r, ns)
      PROVE  e[1] \in 0 .. RegionSize[r] - 1 /\ e[2] \in 0 .. RegionSize[r] - 1
  BY <1>2, <1>3 DEF Extents
<1>4. \A x \in S : x \in Int /\ x <= RegionSize[r]
  BY <1>1, <1>3
<1>5. Max({0} \cup S) = Max(T)
  <2>1. ASSUME NEW x PROVE (x \in {0} \cup S /\ \A y \in {0} \cup S : x >= y)
                             <=> (x \in T /\ \A y \in T : x >= y)
    BY <1>4
  <2> HIDE DEF S, T
  <2>2. (CHOOSE x : x \in {0} \cup S /\ \A y \in {0} \cup S : x >= y)
          = (CHOOSE x : x \in T /\ \A y \in T : x >= y)
    BY <2>1, Zenon
  <2> QED BY <2>2 DEF Max
<1>6. T \subseteq Nat /\ T # {} /\ \A x \in T : x <= RegionSize[r]
  BY <1>1, <1>4
<1>7. Max(T) \in T /\ \A y \in T : y <= Max(T)
  <2> HIDE DEF T
  <2> QED BY <1>1, <1>6, Largest, Zenon
<1>8. MaxAvailableExtent(r) = Max(T)
  BY <1>5 DEF MaxAvailableExtent
<1>9. AvailableSize(r) \in Nat
  <2>1. IsFiniteSet(0 .. RegionSize[r] - 1)
    BY <1>1, FS_Interval
  <2>2. IsFiniteSet(FreeSpace(r, ns))
    BY <1>2, <2>1, FS_Subset, Zenon
  <2> QED BY <2>2, FS_CardinalityType DEF AvailableSize
<1> HIDE DEF T
<1>10. Max(T) \in Nat
  BY <1>6, <1>7, Zenon
<1>11. ASSUME NEW e \in Extents(r, ns) PROVE e[2] - e[1] + 1 <= Max(T)
  <2>1. e[2] - e[1] + 1 \in S /\ e[2] - e[1] + 1 \in Int
    BY <1>4
  <2>2. e[2] - e[1] + 1 \in Nat => e[2] - e[1] + 1 <= Max(T)
    BY <1>7, <2>1 DEF T
  <2> QED BY <1>10, <2>1, <2>2
<1>12. Max(T) > 0 => \E e \in Extents(r, ns) : e[2] - e[1] + 1 = Max(T)
  BY <1>7 DEF T
<1> QED BY <1>8, <1>9, <1>10, <1>11, <1>12

\* The sum of the sizes is a number, 0 for no namespaces.
LEMMA TotalSizeType ==
    ASSUME NEW S, IsFiniteSet(S), \A n \in S : RawSize(n) \in Int
    PROVE  /\ IsFiniteSet(UNION {{n} \X (1 .. RawSize(n)) : n \in S})
           /\ TotalSize(S) \in Nat
<1> DEFINE f == [n \in S |-> {n} \X (1 .. RawSize(n))]
           T == {{n} \X (1 .. RawSize(n)) : n \in S}
<1>1. f \in Surjection(S, T)
  BY Zenon DEF Surjection
<1>2. IsFiniteSet(T)
  <2> HIDE DEF f, T
  <2> QED BY <1>1, FS_Surjection
<1>3. ASSUME NEW t \in T PROVE IsFiniteSet(t)
  <2>1. PICK n \in S : t = {n} \X (1 .. RawSize(n))
    OBVIOUS
  <2>2. IsFiniteSet({n})
    BY FS_Singleton, Zenon
  <2>3. IsFiniteSet(1 .. RawSize(n))
    BY FS_Interval
  <2>4. IsFiniteSet({n} \X (1 .. RawSize(n)))
    BY <2>2, <2>3, FS_Product, Zenon
  <2> QED BY <2>1, <2>4
<1>4. IsFiniteSet(UNION T)
  <2> HIDE DEF T
  <2> QED BY <1>2, <1>3, FS_UNION
<1> QED BY <1>4, FS_CardinalityType DEF TotalSize

\* One more namespace adds its size to the total.
LEMMA TotalAdd ==
    ASSUME NEW S, IsFiniteSet(S), \A m \in S : RawSize(m) \in Int,
           NEW n, n \notin S, RawSize(n) \in Nat
    PROVE  TotalSize(S \cup {n}) = TotalSize(S) + RawSize(n)
<1> DEFINE U == UNION {{m} \X (1 .. RawSize(m)) : m \in S}
           V == {n} \X (1 .. RawSize(n))
<1>1. IsFiniteSet(U) /\ Cardinality(U) \in Nat
  BY TotalSizeType, FS_CardinalityType
<1>2. IsFiniteSet(V) /\ Cardinality(V) = RawSize(n)
  <2>1. IsFiniteSet({n}) /\ Cardinality({n}) = 1
    BY FS_Singleton
  <2>2. IsFiniteSet(1 .. RawSize(n)) /\ Cardinality(1 .. RawSize(n)) = RawSize(n)
    BY FS_Interval
  <2>3. IsFiniteSet(V) /\ Cardinality(V) = Cardinality({n}) * Cardinality(1 .. RawSize(n))
    BY <2>1, <2>2, FS_Product, Zenon
  <2> QED BY <2>1, <2>2, <2>3
<1>3. U \cap V = {}
  OBVIOUS
<1>4. UNION {{m} \X (1 .. RawSize(m)) : m \in S \cup {n}} = U \cup V
  OBVIOUS
<1> HIDE DEF U, V
<1>5. Cardinality(U \cup V) = Cardinality(U) + Cardinality(V) - Cardinality(U \cap V)
  BY <1>1, <1>2, FS_Union
<1>6. Cardinality(U \cap V) = 0
  BY <1>3, FS_EmptySet
<1>7. TotalSize(S) = Cardinality(U)
  BY DEF TotalSize, U
<1>8. TotalSize(S \cup {n}) = Cardinality(U \cup V)
  BY <1>4 DEF TotalSize
<1> QED BY <1>1, <1>2, <1>5, <1>6, <1>7, <1>8

\* Changes that keep namespaces apart and leave their sizes alone keep the total.
LEMMA TotalImage ==
    ASSUME NEW S, IsFiniteSet(S), NEW f,
           \A m \in S : RawSize(m) \in Int /\ RawSize(f[m]) = RawSize(m),
           \A m, n \in S : f[m] = f[n] => m = n
    PROVE  TotalSize({f[m] : m \in S}) = TotalSize(S)
<1> DEFINE T == {f[m] : m \in S}
           U == UNION {{m} \X (1 .. RawSize(m)) : m \in S}
           V == UNION {{m} \X (1 .. RawSize(m)) : m \in T}
           g == [p \in U |-> <<f[p[1]], p[2]>>]
<1>1. IsFiniteSet(U)
  BY TotalSizeType
<1>2. \A p : p \in U <=> \E m \in S : \E i \in 1 .. RawSize(m) : p = <<m, i>>
  OBVIOUS
<1>3. \A p : p \in V <=> \E m \in S : \E i \in 1 .. RawSize(m) : p = <<f[m], i>>
  OBVIOUS
<1>4. TotalSize(S) = Cardinality(U) /\ TotalSize(T) = Cardinality(V)
  BY DEF TotalSize
<1> HIDE DEF U, V, T
<1>5. \A m \in S : \A i \in 1 .. RawSize(m) : <<m, i>> \in U /\ g[<<m, i>>] = <<f[m], i>>
  BY <1>2
<1>6. g \in Surjection(U, V)
  <2>1. g \in [U -> V]
    BY <1>2, <1>3
  <2> HIDE DEF g
  <2>2. ASSUME NEW q \in V PROVE \E p \in U : g[p] = q
    <3>1. PICK m \in S : \E j \in 1 .. RawSize(m) : q = <<f[m], j>>
      BY <1>3
    <3>2. PICK i \in 1 .. RawSize(m) : q = <<f[m], i>>
      BY <3>1
    <3>3. <<m, i>> \in U /\ g[<<m, i>>] = q
      BY <1>5, <3>2
    <3> QED BY <3>3
  <2> QED BY <2>1, <2>2 DEF Surjection
<1>7. g \in Injection(U, V)
  <2>1. g \in [U -> V]
    BY <1>2, <1>3
  <2>2. ASSUME NEW p \in U, NEW q \in U, g[p] = g[q] PROVE p = q
    <3>1. PICK m \in S : \E j \in 1 .. RawSize(m) : p = <<m, j>>
      BY <1>2
    <3>2. PICK n \in S : \E j \in 1 .. RawSize(n) : q = <<n, j>>
      BY <1>2
    <3>3. PICK i \in 1 .. RawSize(m) : p = <<m, i>>
      BY <3>1
    <3>4. PICK k \in 1 .. RawSize(n) : q = <<n, k>>
      BY <3>2
    <3> HIDE DEF g
    <3>5. <<f[m], i>> = <<f[n], k>>
      BY <1>5, <2>2, <3>3, <3>4
    <3> QED BY <3>3, <3>4, <3>5
  <2> HIDE DEF g
  <2> QED BY <2>1, <2>2 DEF Injection, IsInjective
<1> HIDE DEF g
<1>8. Cardinality(V) = Cardinality(U)
  BY <1>1, <1>6, <1>7, FS_Surjection
<1> QED BY <1>4, <1>8 DEF T

\* setupNS asks for no more than the largest extent.
LEMMA SetupSizeFact ==
    ASSUME ns \subseteq Namespaces, IsFiniteSet(ns), NEW r \in Regions,
           \A n \in OwnNamespaces(r) : RawSize(n) \in Int
    PROVE  /\ SetupSize(r) \in Nat
           /\ SetupSize(r) > 0 =>
                /\ SetupSize(r) <= MaxAvailableExtent(r)
                /\ SetupSize(r) <= (Percentage * RegionSize[r]) \div 100 - TotalSize(OwnNamespaces(r))
<1> DEFINE share == (Percentage * RegionSize[r]) \div 100
           a == share - TotalSize(OwnNamespaces(r))
           b == AvailableSize(r)
           c == MaxAvailableExtent(r)
<1>1. IsFiniteSet(OwnNamespaces(r))
  BY FS_Subset DEF OwnNamespaces, ActiveNamespaces
<1>2. a \in Int /\ b \in Int /\ c \in Int
  <2>0. RegionSize[r] \in Nat
    BY RegionsAssumption, Zenon
  <2>1. Percentage \in Int
    BY PmemNodeAssumption
  <2>2. share \in Int
    <3>1. Percentage * RegionSize[r] \in Int
      BY <2>0, <2>1
    <3> QED BY <3>1
  <2>3. TotalSize(OwnNamespaces(r)) \in Nat
    BY <1>1, TotalSizeType, Zenon
  <2> HIDE DEF share
  <2> QED BY <2>2, <2>3, LargestExtent
<1>3. SetupSize(r) = Max({0, Min({a, b, c})})
  BY DEF SetupSize
<1> HIDE DEF a, b, c
<1>4. Min({a, b, c}) \in Int /\ Min({a, b, c}) <= a /\ Min({a, b, c}) <= c
  <2>1. \E x \in {a, b, c} : \A y \in {a, b, c} : x <= y
    BY <1>2
  <2>2. Min({a, b, c}) \in {a, b, c} /\ \A y \in {a, b, c} : Min({a, b, c}) <= y
    BY <2>1 DEF Min
  <2> QED BY <1>2, <2>2
<1> DEFINE m == Min({a, b, c})
<1>5. m \in Int /\ m <= a /\ m <= c
  BY <1>4
<1> HIDE DEF m
<1>6. Max({0, m}) = IF m > 0 THEN m ELSE 0
  <2>1. \E x \in {0, m} : \A y \in {0, m} : x >= y
    BY <1>5
  <2>2. Max({0, m}) \in {0, m} /\ \A y \in {0, m} : Max({0, m}) >= y
    BY <2>1 DEF Max
  <2> QED BY <1>5, <2>2
<1>7. SetupSize(r) = IF m > 0 THEN m ELSE 0
  BY <1>3, <1>6 DEF m
<1> QED BY <1>2, <1>5, <1>7 DEF a, c

\* A finite set of numbers is bounded.
LEMMA FiniteBounded ==
    ASSUME NEW S, S \subseteq Nat, IsFiniteSet(S)
    PROVE  \E b \in Nat : \A x \in S : x <= b
<1> DEFINE f == [x \in S |-> 1 .. x]
           T == {1 .. x : x \in S}
           U == UNION T
<1>1. f \in Surjection(S, T)
  BY DEF Surjection
<1>2. IsFiniteSet(T)
  <2> HIDE DEF f, T
  <2> QED BY <1>1, FS_Surjection
<1>3. ASSUME NEW t \in T PROVE IsFiniteSet(t)
  <2>1. PICK x \in S : t = 1 .. x
    OBVIOUS
  <2>2. IsFiniteSet(1 .. x)
    BY FS_Interval
  <2> QED BY <2>1, <2>2
<1>4. IsFiniteSet(U)
  <2> HIDE DEF T
  <2> QED BY <1>2, <1>3, FS_UNION
<1>5. ASSUME NEW x \in S PROVE x <= Cardinality(U)
  <2>1. (1 .. x) \in SUBSET U
    OBVIOUS
  <2> HIDE DEF U
  <2>2. Cardinality(1 .. x) <= Cardinality(U)
    BY <1>4, <2>1, FS_Subset
  <2>3. Cardinality(1 .. x) = x
    BY FS_Interval
  <2> QED BY <2>2, <2>3
<1>6. Cardinality(U) \in Nat
  <2> HIDE DEF U
  <2> QED BY <1>4, FS_CardinalityType
<1> HIDE DEF U
<1> QED BY <1>5, <1>6, Zenon

\* If no command fails, setupNS only asks for what CreateNamespace can do,
\* unless the free space is no multiple of the alignment.
LEMMA SetupFitsFact ==
    ASSUME ns \subseteq Namespaces, IsFiniteSet(ns), NEW r \in Regions,
           \A n \in OwnNamespaces(r) : RawSize(n) \in Int,
           SetupSize(r) > 0, ~CanCreate(r, SetupSize(r))
    PROVE  r \in ReadOnly \/ MaxAvailableExtent(r) % align # 0
<1>1. SetupSize(r) \in Nat /\ SetupSize(r) <= MaxAvailableExtent(r)
  BY SetupSizeFact
<1>2. MaxAvailableExtent(r) \in Nat
  BY LargestExtent
<1>3. MaxAvailableExtent(r) % align = 0 => AlignUp(SetupSize(r)) <= MaxAvailableExtent(r)
  BY <1>1, <1>2, Alignment
<1> QED BY <1>3 DEF CanCreate

\* A volume of the size that GetCapacity returns in direct mode fits into a
\* region, a larger one does not.
LEMMA DirectCapacity ==
    DirectCapacityHonest
<1> DEFINE S == {AlignDown(MaxAvailableExtent(r)) : r \in Regions}
           M == MaxVolumeSize
           Fits(size) == \E r \in Regions :
                            CanCreate(r, size) \/ (r \in ReadOnly /\ AlignUp(size) <= MaxAvailableExtent(r))
<1>1. ASSUME NEW r \in Regions
      PROVE  /\ MaxAvailableExtent(r) \in Nat /\ MaxAvailableExtent(r) <= RegionSize[r]
             /\ RegionSize[r] \in Nat
  <2>1. MaxAvailableExtent(r) \in Nat /\ RegionSize[r] \in Nat
    BY LargestExtent, RegionsAssumption, Zenon
  <2>2. ASSUME NEW e \in Extents(r, ns) PROVE e[2] - e[1] + 1 <= RegionSize[r]
    <3>1. e[1] \in 0 .. RegionSize[r] - 1 /\ e[2] \in 0 .. RegionSize[r] - 1
      BY <2>2 DEF Extents, FreeSpace
    <3> QED BY <2>1, <3>1
  <2>3. MaxAvailableExtent(r) > 0 => MaxAvailableExtent(r) <= RegionSize[r]
    <3>1. SUFFICES ASSUME MaxAvailableExtent(r) > 0 PROVE MaxAvailableExtent(r) <= RegionSize[r]
      OBVIOUS
    <3>2. PICK e \in Extents(r, ns) : e[2] - e[1] + 1 = MaxAvailableExtent(r)
      BY <3>1, LargestExtent
    <3> QED BY <2>2, <3>2
  <2> QED BY <2>1, <2>3
<1>2. ASSUME NEW r \in Regions
      PROVE  AlignDown(MaxAvailableExtent(r)) \in Nat /\ AlignDown(MaxAvailableExtent(r)) <= RegionSize[r]
  BY <1>1, Alignment
<1>0. Regions # {} /\ IsFiniteSet(Regions)
  <2>1. NumRegions \in Nat \ {0}
    BY RegionsAssumption, Zenon
  <2>2. 1 \in Regions
    BY <2>1 DEF Regions
  <2>3. IsFiniteSet(1 .. NumRegions)
    BY <2>1, FS_Interval
  <2> QED BY <2>2, <2>3 DEF Regions
<1>3. M \in S /\ \A y \in S : y <= M
  <2>1. S \subseteq Nat /\ S # {}
    BY <1>0, <1>2
  <2>2. \E b \in Nat : \A x \in S : x <= b
    <3> DEFINE f == [r \in Regions |-> AlignDown(MaxAvailableExtent(r))]
    <3>2. f \in Surjection(Regions, S)
      BY DEF Surjection
    <3>3. IsFiniteSet(S)
      <4> HIDE DEF f, S
      <4> QED BY <1>0, <3>2, FS_Surjection
    <3> HIDE DEF S
    <3> QED BY <2>1, <3>3, FiniteBounded, Zenon
  <2>3. MaxVolumeSize = Max(S)
    BY DEF MaxVolumeSize
  <2> HIDE DEF S
  <2>4. PICK b \in Nat : \A x \in S : x <= b
    BY <2>2
  <2> QED BY <2>1, <2>3, <2>4, Largest, Zenon
<1>4. M \in Nat
  BY <1>2, <1>3
<1>5. PICK r0 \in Regions : M = AlignDown(MaxAvailableExtent(r0))
  BY <1>3
<1>6. M # 0 => Fits(M)
  <2>1. SUFFICES ASSUME M # 0 PROVE Fits(M)
    OBVIOUS
  <2>2. M % align = 0 /\ M <= MaxAvailableExtent(r0)
    BY <1>1, <1>5, Alignment
  <2>3. AlignUp(M) <= M /\ AlignUp(M) \in Nat
    BY <1>4, <2>1, <2>2, Alignment
  <2>4. AlignUp(M) <= MaxAvailableExtent(r0)
    BY <1>1, <1>4, <2>2, <2>3
  <2> HIDE DEF M
  <2> QED BY <2>4 DEF CanCreate
<1>7. ~Fits(M + 1)
  <2>1. SUFFICES ASSUME NEW r \in Regions, AlignUp(M + 1) <= MaxAvailableExtent(r) PROVE FALSE
    BY DEF CanCreate
  <2> DEFINE k == AlignUp(M + 1)
  <2>2. k \in Nat /\ k % align = 0 /\ k >= M + 1
    BY <1>4, Alignment
  <2> HIDE DEF k
  <2>3. k <= MaxAvailableExtent(r)
    BY <2>1 DEF k
  <2>4. k <= AlignDown(MaxAvailableExtent(r))
    BY <1>1, <2>2, <2>3, Alignment
  <2>5. AlignDown(MaxAvailableExtent(r)) <= M
    BY <1>3
  <2> HIDE DEF M
  <2> QED BY <1>2, <1>4, <2>2, <2>4, <2>5
<1> HIDE DEF Fits
<1>8. ASSUME NEW size \in {M, M + 1} \ {0} PROVE size <= M <=> Fits(size)
  <2> HIDE DEF M
  <2> QED BY <1>4, <1>6, <1>7
<1> QED BY <1>8 DEF DirectCapacityHonest, Fits

-----------------------------------------------------------------------------
\* Regions are numbered, and all constants are numbers.
LEMMA ConstantTypes ==
    /\ NumRegions \in Nat \ {0} /\ Regions \subseteq Nat \ {0}
    /\ align \in Nat \ {0} /\ BttOverhead \in Nat /\ BttOverhead < align
    /\ Ids \cap {pmemCSINamespaceName, "", None} = {}
<1>1. NumRegions \in Nat \ {0}
  BY RegionsAssumption, Zenon
<1>2. Regions \subseteq Nat \ {0}
  BY <1>1 DEF Regions
<1>3. Ids \cap {pmemCSINamespaceName, "", None} = {}
  BY RegionsAssumption, Zenon
<1>4. BttOverhead \in Nat
  BY RegionsAssumption, Zenon
<1> QED BY <1>1, <1>2, <1>3, <1>4, AlignAssumption, Zenon

\* The number of a region, or one less or more.
LEMMA RegionNumbers ==
    /\ 0 \in 0 .. NumRegions + 1 /\ 1 \in Regions
    /\ \A r \in Regions : r \in 0 .. NumRegions + 1 /\ r + 1 \in 0 .. NumRegions + 1 /\ r + 1 # 0
    /\ \A r \in 0 .. NumRegions + 1 : r < NumRegions => r + 1 \in Regions
    /\ \A r \in 0 .. NumRegions + 1 : r # 0 /\ r <= NumRegions => r \in Regions
<1>1. NumRegions \in Nat \ {0}
  BY ConstantTypes, Zenon
<1> QED BY <1>1 DEF Regions

\* GetNamespaceByName finds a namespace if there is one.
LEMMA FoundByName ==
    ASSUME ns \subseteq Namespaces, NEW name
    PROVE  GetNamespaceByName(name) = {} <=> Named(name) = {}
<1>1. GetNamespaceByName(name) \subseteq Named(name)
  BY DEF GetNamespaceByName, Named
<1>2. ASSUME Named(name) # {} PROVE GetNamespaceByName(name) # {}
  <2> DEFINE R == {n.region : n \in Named(name)}
  <2>1. R \subseteq Nat /\ R # {}
    <3>1. ASSUME NEW n \in Named(name) PROVE n.region \in Nat
      BY ConstantTypes, Zenon DEF Named, Namespaces
    <3>2. R # {}
      BY <1>2
    <3> QED BY <3>1, <3>2
  <2>2. PICK r \in R : \A s \in R : r <= s
    <3> HIDE DEF R
    <3> QED BY <2>1, Smallest, Zenon
  <2>3. PICK n \in Named(name) : n.region = r
    OBVIOUS
  <2>4. \A m \in ns : m.name = name => n.region <= m.region
    BY <2>2, <2>3 DEF Named
  <2>5. n \in GetNamespaceByName(name)
    BY <2>3, <2>4 DEF GetNamespaceByName, Named
  <2> QED BY <2>5
<1> QED BY <1>1, <1>2

\* If what is found for a volume is more than a left-over seed, then there is
\* nothing else with that name.
LEMMA FoundUnique ==
    ASSUME TypeOK, NamespaceInv, NEW id \in Ids, NEW n \in GetNamespaceByName(id), n.state # "seed"
    PROVE  n \in ns /\ n.name = id /\ \A m \in ns : m.name = id => m = n
<1>1. n \in ns /\ n.name = id /\ \A m \in ns : m.name = id => n.region <= m.region
  BY DEF GetNamespaceByName
<1>2. ASSUME NEW m \in ns, m.name = id PROVE m = n
  <2>1. n.region \in Nat /\ m.region \in Nat
    BY <1>1, ConstantTypes, Zenon DEF TypeOK, Namespaces
  <2>2. m # n => m.region < n.region
    BY <1>1, <1>2 DEF NamespaceInv
  <2>3. n.region <= m.region
    BY <1>1, <1>2, Zenon
  <2> QED BY <2>1, <2>2, <2>3
<1> QED BY <1>1, <1>2

\* What is stored can be read, and says what was asked for.
LEMMA EntryFact ==
    ASSUME TypeOK, EntryInv, NEW id \in Ids, entry[id] # None
    PROVE  /\ entry[id] \in Volumes
           /\ Mode(entry[id]) \in {"lvm", "direct"}
           /\ ParseOK("NodeVolumeOrigin", entry[id].params)
           /\ GetEraseAfter(Parse(entry[id].params)) = GetEraseAfter(Parse(wanted[id]))
           /\ GetUsage(Parse(entry[id].params)) = GetUsage(Parse(wanted[id]))
<1>1. wanted[id] \in Maps /\ ParseOK(Origin(wanted[id]), wanted[id])
  BY DEF EntryInv
<1>2. PICK mode \in {"lvm", "direct"} : entry[id].params = StoredParams(id, wanted[id], mode)
  BY DEF EntryInv
<1>3. entry[id] \in Volumes
  BY DEF TypeOK
<1>4. LET p == entry[id].params IN
      /\ ParseOK("NodeVolumeOrigin", p)
      /\ GetDeviceMode(Parse(p)) = mode
      /\ GetEraseAfter(Parse(p)) = GetEraseAfter(Parse(wanted[id]))
      /\ GetUsage(Parse(p)) = GetUsage(Parse(wanted[id]))
  BY <1>1, <1>2, StoredFact
<1> QED BY <1>2, <1>3, <1>4, Zenon DEF Mode

\* Namespaces are changed one by one.
Updated(g) == g \in [ns -> Namespaces] /\ ns' = {g[n] : n \in ns}

\* SetData changes namespaces one by one.
LEMMA SetDataUpdate ==
    ASSUME ns \subseteq Namespaces, NEW X, X \subseteq ns, NEW d \in {"stale", "clear", "pv", "user"},
           SetData(X, d)
    PROVE  Updated([n \in ns |-> IF n \in X THEN [n EXCEPT !.data = d] ELSE n])
<1> DEFINE g == [n \in ns |-> IF n \in X THEN [n EXCEPT !.data = d] ELSE n]
<1>1. ASSUME NEW n \in ns PROVE g[n] \in Namespaces
  BY DEF Namespaces
<1>2. g \in [ns -> Namespaces]
  BY <1>1
<1>3. ASSUME NEW k \in ns' PROVE \E n \in ns : k = g[n]
  BY <1>3 DEF SetData
<1>4. ASSUME NEW n \in ns PROVE g[n] \in ns'
  BY DEF SetData
<1> HIDE DEF g
<1>5. ns' = {g[n] : n \in ns}
  BY <1>3, <1>4
<1> QED BY <1>2, <1>5 DEF Updated, g

\* So does DisableNamespace.
LEMMA DisableUpdate ==
    ASSUME ns \subseteq Namespaces, NEW name, DisableNamespace(name)
    PROVE  Updated([n \in ns |-> IF n \in GetNamespaceByName(name)
                                   THEN [n EXCEPT !.state = "disabled"] ELSE n])
<1> DEFINE X == GetNamespaceByName(name)
           g == [n \in ns |-> IF n \in X THEN [n EXCEPT !.state = "disabled"] ELSE n]
<1>0. X \subseteq ns
  BY DEF GetNamespaceByName
<1>a. ns' = (ns \ X) \cup {[n EXCEPT !.state = "disabled"] : n \in X}
  BY DEF DisableNamespace
<1> HIDE DEF X
<1>1. ASSUME NEW n \in ns PROVE g[n] \in Namespaces
  BY DEF Namespaces
<1>2. g \in [ns -> Namespaces]
  BY <1>1
<1>3. ASSUME NEW k \in ns' PROVE \E n \in ns : k = g[n]
  BY <1>0, <1>3, <1>a
<1>4. ASSUME NEW n \in ns PROVE g[n] \in ns'
  BY <1>a
<1> HIDE DEF g
<1>5. ns' = {g[n] : n \in ns}
  BY <1>3, <1>4, Zenon
<1> QED BY <1>2, <1>5 DEF Updated, g, X

\* An update that keeps names, places and seeds keeps the invariant, if what
\* becomes usable belongs to a volume.
LEMMA UpdateInv ==
    ASSUME TypeOK, NamespaceInv, NEW g, Updated(g),
           \A n \in ns : /\ g[n].name = n.name /\ g[n].region = n.region /\ g[n].size = n.size
                         /\ g[n].state = "seed" <=> n.state = "seed"
                         /\ n.state = "seed" => g[n].data = "stale"
                         /\ n.name = pmemCSINamespaceName => g[n].data # "user"
                         /\ n.name \in Ids /\ g[n].state = "active" /\ g[n].data # "stale" =>
                              /\ entry'[n.name] # None /\ Mode(entry'[n.name]) = "direct"
                              /\ \A m \in ns : m.name = n.name => m = n
    PROVE  NamespaceInv' /\ ns' \subseteq Namespaces
<1>1. ns' = {g[n] : n \in ns} /\ g \in [ns -> Namespaces]
  BY DEF Updated
<1>2. ns' \subseteq Namespaces
  BY <1>1
<1>3. IsFiniteSet(ns')
  <2>1. g \in Surjection(ns, ns')
    BY <1>1 DEF Surjection
  <2> QED BY <2>1, FS_Surjection DEF NamespaceInv
<1>4. ASSUME NEW m \in ns', NEW n \in ns', m.state = "seed", n.state = "seed", m.region = n.region
      PROVE  m = n
  <2>1. PICK m0 \in ns, n0 \in ns : m = g[m0] /\ n = g[n0]
    BY <1>1
  <2>2. m0 = n0
    BY <1>4, <2>1 DEF NamespaceInv
  <2> QED BY <2>1, <2>2
<1>5. ASSUME NEW n \in ns'
      PROVE  /\ n.state = "seed" => n.data = "stale"
             /\ n.name \in Ids \/ n.state = "seed" => n.size >= align
             /\ n.name = pmemCSINamespaceName => n.data # "user"
  <2>1. PICK n0 \in ns : n = g[n0]
    BY <1>1
  <2> QED BY <2>1 DEF NamespaceInv
<1>6. ASSUME NEW m \in ns', NEW n \in ns', m.name = n.name, m.name \in Ids, m # n, n.state # "seed"
      PROVE  m.state = "seed" /\ m.region < n.region
  <2>1. PICK m0 \in ns, n0 \in ns : m = g[m0] /\ n = g[n0]
    BY <1>1
  <2>2. m0 # n0
    BY <1>6, <2>1, Zenon
  <2>3. m0.state = "seed" /\ m0.region < n0.region
    BY <1>6, <2>1, <2>2, Zenon DEF NamespaceInv
  <2> QED BY <2>1, <2>3
<1>7. ASSUME NEW n \in ns', n.name \in Ids, n.state = "active", n.data # "stale"
      PROVE  /\ entry'[n.name] # None /\ Mode(entry'[n.name]) = "direct"
             /\ \A m \in ns' : m.name = n.name => m = n
  <2>1. PICK n0 \in ns : n = g[n0]
    BY <1>1
  <2>2. /\ entry'[n0.name] # None /\ Mode(entry'[n0.name]) = "direct"
        /\ \A m \in ns : m.name = n0.name => m = n0
    BY <1>7, <2>1
  <2>3. ASSUME NEW m \in ns', m.name = n.name PROVE m = n
    <3>1. PICK m0 \in ns : m = g[m0]
      BY <1>1
    <3>2. m0 = n0
      BY <2>1, <2>2, <2>3, <3>1, Zenon
    <3> QED BY <2>1, <3>1, <3>2
  <2> QED BY <2>1, <2>2, <2>3
<1>8. \A n \in ns' : n.name \in Ids /\ n.state = "active" /\ n.data # "stale"
          => /\ (entry[n.name])' # None /\ Mode(entry[n.name])' = "direct"
             /\ \A m \in ns' : m.name = n.name => m = n
  BY <1>7 DEF Mode
<1> QED BY <1>2, <1>3, <1>4, <1>5, <1>6, <1>8, Zenon DEF NamespaceInv

\* Removing namespaces keeps the invariant.
LEMMA RemoveInv ==
    ASSUME TypeOK, NamespaceInv, ns' \subseteq ns,
           \A n \in ns' : n.name \in Ids /\ n.state = "active" /\ n.data # "stale" =>
                            entry'[n.name] # None /\ Mode(entry'[n.name]) = "direct"
    PROVE  NamespaceInv' /\ ns' \subseteq Namespaces
<1>1. ns' \subseteq Namespaces
  BY Zenon DEF TypeOK
<1>2. IsFiniteSet(ns')
  BY FS_Subset DEF NamespaceInv
<1>3. \A n \in ns' : n.name \in Ids /\ n.state = "active" /\ n.data # "stale"
          => /\ (entry[n.name])' # None /\ Mode(entry[n.name])' = "direct"
             /\ \A m \in ns' : m.name = n.name => m = n
  BY DEF Mode, NamespaceInv
<1> QED BY <1>1, <1>2, <1>3 DEF NamespaceInv

\* SetSize gives the seed of a region a place and a size.
LEMMA SetSizeFact ==
    ASSUME TypeOK, NamespaceInv, NEW r \in Regions, NEW size \in Nat, SetSize(r, size),
           UNCHANGED entry
    PROVE  /\ \E s \in Namespaces :
                 /\ ns' = (ns \ Seed(r)) \cup {s}
                 /\ s.region = r /\ s.state = "seed" /\ s.data = "stale"
                 /\ s.size >= size /\ s.size = AlignUp(size)
                 /\ s.name = "" \/ \E n \in Seed(r) : s.name = n.name
           /\ ns' \subseteq Namespaces /\ NamespaceInv'
<1>1. PICK e \in Extents(r, ns \ Seed(r)) :
          ns' = (ns \ Seed(r)) \cup
                   {[region |-> r, start |-> e[1], size |-> AlignUp(size),
                     name |-> IF Seed(r) = {} THEN "" ELSE (CHOOSE n \in Seed(r) : TRUE).name,
                     mode |-> "raw", state |-> "seed", data |-> "stale"]}
  BY Zenon DEF SetSize
<1> DEFINE name == IF Seed(r) = {} THEN "" ELSE (CHOOSE n \in Seed(r) : TRUE).name
           s == [region |-> r, start |-> e[1], size |-> AlignUp(size), name |-> name,
                 mode |-> "raw", state |-> "seed", data |-> "stale"]
<1>2. e[1] \in Nat
  <2>1. RegionSize[r] \in Nat
    BY RegionsAssumption, Zenon
  <2>2. e[1] \in 0 .. RegionSize[r] - 1
    BY DEF Extents, FreeSpace
  <2> QED BY <2>1, <2>2
<1>3. name = "" \/ \E n \in Seed(r) : name = n.name
  BY Zenon
<1> HIDE DEF name
<1>4. name \in NamespaceNames
  BY <1>3, Zenon DEF NamespaceNames, Seed, TypeOK, Namespaces
<1>5. /\ AlignUp(size) \in Nat \ {0} /\ AlignUp(size) >= size /\ AlignUp(size) >= align
  BY Alignment
<1>6. s \in Namespaces
  BY <1>2, <1>4, <1>5 DEF Namespaces
<1>7. /\ s.region = r /\ s.state = "seed" /\ s.data = "stale" /\ s.size = AlignUp(size) /\ s.name = name
  OBVIOUS
<1>8. ns' = (ns \ Seed(r)) \cup {s}
  BY <1>1, Zenon DEF name
<1> HIDE DEF s
<1>9. ns' \subseteq Namespaces
  BY <1>6, <1>8, Zenon DEF TypeOK
<1>10. NamespaceInv'
  <2>1. IsFiniteSet(ns')
    <3>1. IsFiniteSet(ns \ Seed(r))
      BY FS_Subset, Zenon DEF NamespaceInv
    <3> QED BY <1>8, <3>1, FS_AddElement, Zenon
  <2>2. ASSUME NEW m \in ns', NEW n \in ns', m.state = "seed", n.state = "seed", m.region = n.region
        PROVE  m = n
    <3>1. ASSUME NEW k \in ns', k # s PROVE k \in ns /\ ~(k.state = "seed" /\ k.region = r)
      BY <1>8, <3>1 DEF Seed
    <3>2. CASE m = s \/ n = s
      BY <1>7, <2>2, <3>1, <3>2, Zenon
    <3>3. CASE m # s /\ n # s
      BY <2>2, <3>1, <3>3 DEF NamespaceInv
    <3> QED BY <3>2, <3>3
  <2>3. \A n \in ns' : n \in ns \/ n = s
    BY <1>8, Zenon
  <2>4. \A n \in ns' : /\ n.state = "seed" => n.data = "stale"
                       /\ n.name \in Ids \/ n.state = "seed" => n.size >= align
                       /\ n.name = pmemCSINamespaceName => n.data # "user"
    BY <1>5, <1>7, <2>3 DEF NamespaceInv
  <2>5. ASSUME NEW n \in ns', n.name \in Ids, n.state # "seed"
        PROVE  /\ n \in ns
               /\ \A m \in ns' : m.name = n.name /\ m # n =>
                     m.state = "seed" /\ m.region < n.region /\ \E k \in ns : k.name = n.name /\ k # n
    <3>1. n \in ns
      BY <1>7, <2>3, <2>5
    <3>2. ASSUME NEW m \in ns', m.name = n.name, m # n
          PROVE  m.state = "seed" /\ m.region < n.region /\ \E k \in ns : k.name = n.name /\ k # n
      <4>1. CASE m = s
        <5>1. PICK k \in Seed(r) : s.name = k.name
          BY <1>3, <1>7, <2>5, <3>2, <4>1, ConstantTypes, Zenon
        <5>2. k \in ns /\ k.name = n.name /\ k # n /\ k.region = r
          BY <2>5, <3>2, <4>1, <5>1, Zenon DEF Seed
        <5> QED BY <1>7, <2>5, <3>1, <4>1, <5>2, Zenon DEF NamespaceInv
      <4>2. CASE m # s
        BY <2>3, <2>5, <3>1, <3>2, <4>2, Zenon DEF NamespaceInv
      <4> QED BY <4>1, <4>2, Zenon
    <3> QED BY <3>1, <3>2
  <2>6. \A n \in ns' : n.name \in Ids /\ n.state = "active" /\ n.data # "stale"
          => /\ (entry[n.name])' # None /\ Mode(entry[n.name])' = "direct"
             /\ \A m \in ns' : m.name = n.name => m = n
    <3>1. \A n \in ns' : entry'[n.name] = entry[n.name]
      OBVIOUS
    <3> QED BY <2>5, <3>1, Zenon DEF Mode, NamespaceInv
  <2> QED BY <2>1, <2>2, <2>4, <2>5, <2>6 DEF NamespaceInv
<1> QED BY <1>3, <1>5, <1>6, <1>7, <1>8, <1>9, <1>10, Zenon

\* The seed of the region gets a new name.
LEMMA SetAltNameFact ==
    ASSUME TypeOK, NamespaceInv, NEW r \in Regions, NEW name \in NamespaceNames, SetAltName(r, name),
           \A n \in ns : n.name = name /\ name \in Ids => n.state = "seed",
           UNCHANGED entry
    PROVE  /\ ns' \subseteq Namespaces /\ NamespaceInv'
           /\ \A n \in ns' : \/ n \in ns \ Seed(r)
                             \/ /\ n.region = r /\ n.state = "seed" /\ n.name = name
                                /\ \E m \in Seed(r) : n.size = m.size
           /\ ns \ Seed(r) \subseteq ns'
<1> DEFINE Ren(n) == [n EXCEPT !.name = name]
<1>1. ns' = (ns \ Seed(r)) \cup {Ren(n) : n \in Seed(r)}
  BY DEF SetAltName
<1>2. ASSUME NEW n \in Seed(r)
      PROVE  /\ Ren(n) \in Namespaces /\ Ren(n).name = name /\ Ren(n).region = r /\ Ren(n).size = n.size
             /\ Ren(n).state = "seed" /\ Ren(n).data = "stale" /\ n.size >= align
             /\ n.state = "seed" /\ n.region = r /\ n \in ns
  BY <1>2 DEF Seed, TypeOK, Namespaces, NamespaceInv
<1> HIDE DEF Ren
<1>3. ASSUME NEW n \in ns'
      PROVE  \/ n \in ns \ Seed(r)
             \/ \E m \in Seed(r) : n = Ren(m)
  BY <1>1, Zenon
<1>4. \A m, n \in Seed(r) : m = n
  BY <1>2 DEF NamespaceInv
<1>5. ns' \subseteq Namespaces
  BY <1>2, <1>3 DEF TypeOK
<1>6. IsFiniteSet(ns')
  <2>1. CASE Seed(r) = {}
    <3>1. ns' = ns
      BY <1>1, <2>1
    <3> QED BY <3>1, Zenon DEF NamespaceInv
  <2>2. CASE Seed(r) # {}
    <3>1. PICK s \in Seed(r) : TRUE
      BY <2>2
    <3>2. ns' = (ns \ Seed(r)) \cup {Ren(s)}
      BY <1>1, <1>4, <3>1, SMTT(20)
    <3>3. IsFiniteSet(ns \ Seed(r))
      BY FS_Subset DEF NamespaceInv
    <3> QED BY <3>2, <3>3, FS_AddElement, Zenon
  <2> QED BY <2>1, <2>2, Zenon
<1>7. ASSUME NEW m \in ns', NEW n \in ns', m.state = "seed", n.state = "seed", m.region = n.region
      PROVE  m = n
  <2>1. CASE m \in ns \ Seed(r) /\ n \in ns \ Seed(r)
    BY <1>7, <2>1 DEF NamespaceInv
  <2>2. CASE m \in ns \ Seed(r) /\ \E k \in Seed(r) : n = Ren(k)
    BY <1>2, <1>7, <2>2 DEF Seed
  <2>3. CASE n \in ns \ Seed(r) /\ \E k \in Seed(r) : m = Ren(k)
    BY <1>2, <1>7, <2>3 DEF Seed
  <2>4. CASE (\E k \in Seed(r) : m = Ren(k)) /\ (\E k \in Seed(r) : n = Ren(k))
    BY <1>4, <2>4, Zenon
  <2> QED BY <1>3, <2>1, <2>2, <2>3, <2>4, Zenon
<1>8. \A n \in ns' : /\ n.state = "seed" => n.data = "stale"
                     /\ n.name \in Ids \/ n.state = "seed" => n.size >= align
                     /\ n.name = pmemCSINamespaceName => n.data # "user"
  BY <1>2, <1>3, Zenon DEF NamespaceInv
<1>9. ASSUME NEW m \in ns', NEW n \in ns', m.name = n.name, m.name \in Ids, m # n, n.state # "seed"
      PROVE  m \in ns /\ n \in ns /\ m.state = "seed" /\ m.region < n.region
  <2>1. n \in ns
    BY <1>2, <1>3, <1>9
  <2>2. m \in ns
    BY <1>2, <1>3, <1>9, <2>1, Zenon
  <2> QED BY <1>9, <2>1, <2>2 DEF NamespaceInv
<1>10. \A n \in ns' : n.name \in Ids /\ n.state = "active" /\ n.data # "stale"
          => /\ (entry[n.name])' # None /\ Mode(entry[n.name])' = "direct"
             /\ \A m \in ns' : m.name = n.name => m = n
  <2>1. SUFFICES ASSUME NEW n \in ns', n.name \in Ids, n.state = "active", n.data # "stale"
        PROVE  /\ entry[n.name] # None /\ Mode(entry[n.name]) = "direct"
               /\ \A m \in ns' : m.name = n.name => m = n
    <3>1. \A n \in ns' : entry'[n.name] = entry[n.name]
      OBVIOUS
    <3> QED BY <3>1 DEF Mode
  <2>2. n \in ns
    BY <1>2, <1>3, <2>1, Zenon
  <2>3. ASSUME NEW m \in ns', m.name = n.name, m # n PROVE FALSE
    <3>1. m \in ns
      BY <1>9, <2>1, <2>3
    <3> QED BY <2>1, <2>2, <2>3, <3>1 DEF NamespaceInv
  <2> QED BY <2>1, <2>2, <2>3, Zenon DEF NamespaceInv
<1>11. ns \ Seed(r) \subseteq ns'
  BY <1>1, Zenon
<1>12. NamespaceInv'
  BY <1>6, <1>7, <1>8, <1>9, <1>10, Zenon DEF NamespaceInv
<1> QED BY <1>2, <1>3, <1>5, <1>11, <1>12

\* The seed of the region becomes a namespace that can be used.
LEMMA EnableFact ==
    ASSUME TypeOK, NamespaceInv, NEW r \in Regions, NEW mode \in {"fsdax", "sector"}, Enable(r, mode),
           \A s \in Seed(r) : s.name \in Ids =>
               \A n \in ns : n.name = s.name => n.state = "seed" /\ (n.region < r \/ n = s),
           UNCHANGED entry
    PROVE  /\ ns' \subseteq Namespaces /\ NamespaceInv'
           /\ \A n \in ns' : \/ n \in ns \ Seed(r)
                             \/ \E m \in Seed(r) : /\ n.region = r /\ n.state = "active" /\ n.data = "stale"
                                                   /\ n.mode = mode /\ n.name = m.name /\ n.size = m.size
           /\ ns \ Seed(r) \subseteq ns'
<1> DEFINE On(n) == [n EXCEPT !.mode = mode, !.state = "active"]
<1>1. ns' = (ns \ Seed(r)) \cup {On(n) : n \in Seed(r)}
  BY Zenon DEF Enable
<1>2. ASSUME NEW n \in Seed(r)
      PROVE  /\ On(n) \in Namespaces /\ On(n).name = n.name /\ On(n).region = r /\ On(n).size = n.size
             /\ On(n).state = "active" /\ On(n).data = "stale" /\ On(n).mode = mode /\ n.size >= align
             /\ n.state = "seed" /\ n.region = r /\ n \in ns
  BY <1>2, Zenon DEF Seed, TypeOK, Namespaces, NamespaceInv
<1> HIDE DEF On
<1>3. ASSUME NEW n \in ns'
      PROVE  \/ n \in ns \ Seed(r)
             \/ \E m \in Seed(r) : n = On(m)
  BY <1>1
<1>4. \A m, n \in Seed(r) : m = n
  BY <1>2 DEF NamespaceInv
<1>5. ns' \subseteq Namespaces
  BY <1>2, <1>3 DEF TypeOK
<1>6. IsFiniteSet(ns')
  <2>1. CASE Seed(r) = {}
    <3>1. ns' = ns
      BY <1>1, <2>1
    <3> QED BY <3>1 DEF NamespaceInv
  <2>2. CASE Seed(r) # {}
    <3>1. PICK s \in Seed(r) : TRUE
      BY <2>2
    <3>2. ns' = (ns \ Seed(r)) \cup {On(s)}
      BY <1>1, <1>4, <3>1, Zenon
    <3>3. IsFiniteSet(ns \ Seed(r))
      BY FS_Subset, Zenon DEF NamespaceInv
    <3> QED BY <3>2, <3>3, FS_AddElement
  <2> QED BY <2>1, <2>2, Zenon
<1>7. ASSUME NEW m \in ns', NEW n \in ns', m.state = "seed", n.state = "seed", m.region = n.region
      PROVE  m = n
  <2>1. m \in ns /\ n \in ns
    BY <1>2, <1>3, <1>7, Zenon
  <2> QED BY <1>7, <2>1 DEF NamespaceInv
<1>8. \A n \in ns' : /\ n.state = "seed" => n.data = "stale"
                     /\ n.name \in Ids \/ n.state = "seed" => n.size >= align
                     /\ n.name = pmemCSINamespaceName => n.data # "user"
  BY <1>2, <1>3 DEF NamespaceInv
<1>9. ASSUME NEW m \in ns', NEW n \in ns', m.name = n.name, m.name \in Ids, m # n, n.state # "seed"
      PROVE  /\ m.state = "seed" /\ m.region < n.region
             /\ n.data # "stale" => n \in ns /\ m \in ns
  <2>1. CASE n \in ns \ Seed(r) /\ m \in ns \ Seed(r)
    BY <1>9, <2>1, Zenon DEF NamespaceInv
  <2>2. CASE n \in ns \ Seed(r) /\ \E k \in Seed(r) : m = On(k)
    BY <1>2, <1>9, <2>2
  <2>3. ASSUME NEW s \in Seed(r), n = On(s)
        PROVE  /\ m.state = "seed" /\ m.region < n.region /\ n.data = "stale"
    <3>1. m \in ns \ Seed(r)
      BY <1>3, <1>4, <1>9, <2>3
    <3>2. m # s
      BY <3>1, Zenon
    <3> QED BY <1>2, <1>9, <2>3, <3>1, <3>2
  <2> QED BY <1>3, <2>1, <2>2, <2>3, Zenon
<1>10. \A n \in ns' : n.name \in Ids /\ n.state = "active" /\ n.data # "stale"
          => /\ (entry[n.name])' # None /\ Mode(entry[n.name])' = "direct"
             /\ \A m \in ns' : m.name = n.name => m = n
  <2>1. SUFFICES ASSUME NEW n \in ns', n.name \in Ids, n.state = "active", n.data # "stale"
        PROVE  /\ entry[n.name] # None /\ Mode(entry[n.name]) = "direct"
               /\ \A m \in ns' : m.name = n.name => m = n
    <3>1. \A n \in ns' : entry'[n.name] = entry[n.name]
      OBVIOUS
    <3> QED BY <3>1, Zenon DEF Mode
  <2>2. n \in ns
    BY <1>2, <1>3, <2>1, Zenon
  <2>3. ASSUME NEW m \in ns', m.name = n.name, m # n PROVE FALSE
    <3>1. m \in ns
      BY <1>9, <2>1, <2>3
    <3> QED BY <2>1, <2>2, <2>3, <3>1, Zenon DEF NamespaceInv
  <2> QED BY <2>1, <2>2, <2>3, Zenon DEF NamespaceInv
<1>11. ns \ Seed(r) \subseteq ns'
  BY <1>1, Zenon
<1>12. NamespaceInv'
  BY <1>6, <1>7, <1>8, <1>9, <1>10, ZenonT(40) DEF NamespaceInv
<1> QED BY <1>2, <1>3, <1>5, <1>11, <1>12

\* Joining the volume groups changes only the driver's own namespaces.
LEMMA DeviceManagerFact ==
    ASSUME TypeOK, NamespaceInv, (\E rs : JoinVG(rs)) \/ UNCHANGED ns,
           \A n \in ns : n.name \in Ids /\ n.state = "active" /\ n.data # "stale" =>
                            entry'[n.name] # None /\ Mode(entry'[n.name]) = "direct"
    PROVE  /\ ns' \subseteq Namespaces /\ NamespaceInv'
           /\ \A n \in ns : n.name \in Ids \/ n.state = "seed" \/ n.data = "user" => n \in ns'
           /\ \A n \in ns' : n.name \in Ids \/ n.state = "seed" => n \in ns
<1>1. CASE UNCHANGED ns
  <2>1. ns' \subseteq ns
    BY <1>1, Zenon
  <2> QED BY <1>1, <2>1, RemoveInv
<1>2. ASSUME NEW rs, JoinVG(rs)
      PROVE  /\ ns' \subseteq Namespaces /\ NamespaceInv'
             /\ \A n \in ns : n.name \in Ids \/ n.state = "seed" \/ n.data = "user" => n \in ns'
             /\ \A n \in ns' : n.name \in Ids \/ n.state = "seed" => n \in ns
  <2>1. PICK ignored : SetData(Unjoined(rs) \ ignored, "pv")
    BY <1>2, Zenon DEF JoinVG
  <2> DEFINE X == Unjoined(rs) \ ignored
             g == [n \in ns |-> IF n \in X THEN [n EXCEPT !.data = "pv"] ELSE n]
  <2>2. X \subseteq ns /\ \A n \in X : n.name = pmemCSINamespaceName /\ n.state = "active"
    BY DEF Unjoined
  <2> HIDE DEF X
  <2>3. Updated(g)
    BY <2>1, <2>2, SetDataUpdate, Zenon DEF TypeOK, X
  <2>4. ASSUME NEW n \in ns
        PROVE  /\ g[n].name = n.name /\ g[n].region = n.region /\ g[n].size = n.size
               /\ g[n].state = n.state
               /\ n \in X => g[n].data = "pv"
               /\ n \notin X => g[n] = n
    BY DEF TypeOK, Namespaces
  <2> HIDE DEF g
  <2>5. \A n \in X : n.name \notin Ids
    BY <2>2, ConstantTypes, Zenon
  <2>6. NamespaceInv' /\ ns' \subseteq Namespaces
    <3>1. \A n \in ns : /\ g[n].name = n.name /\ g[n].region = n.region /\ g[n].size = n.size
                        /\ g[n].state = "seed" <=> n.state = "seed"
                        /\ n.state = "seed" => g[n].data = "stale"
                        /\ n.name = pmemCSINamespaceName => g[n].data # "user"
      BY <2>2, <2>4 DEF NamespaceInv
    <3>2. \A n \in ns : n.name \in Ids /\ g[n].state = "active" /\ g[n].data # "stale" =>
                              /\ entry'[n.name] # None /\ Mode(entry'[n.name]) = "direct"
                              /\ \A m \in ns : m.name = n.name => m = n
      BY <2>4, <2>5 DEF NamespaceInv
    <3> QED BY <2>3, <3>1, <3>2, UpdateInv, ZenonT(40)
  <2>7. ns' = {g[n] : n \in ns}
    BY <2>3 DEF Updated
  <2>8. ASSUME NEW n \in ns, n.name \in Ids \/ n.state = "seed" \/ n.data = "user" PROVE n \in ns'
    <3>1. n \notin X
      BY <2>2, <2>5, <2>8, Zenon DEF NamespaceInv
    <3> QED BY <2>4, <2>7, <3>1, Zenon
  <2>9. ASSUME NEW k \in ns', k.name \in Ids \/ k.state = "seed" PROVE k \in ns
    <3>1. PICK n \in ns : k = g[n]
      BY <2>7
    <3>2. n \notin X
      BY <2>2, <2>4, <2>5, <2>9, <3>1, Zenon
    <3> QED BY <2>4, <3>1, <3>2
  <2> QED BY <2>6, <2>8, <2>9
<1> QED BY <1>1, <1>2, Zenon

\* What is confirmed stays so if its entry and its device stay.
LEMMA ConfirmedKeep ==
    ASSUME ConfirmedInv,
           \A id \in Ids : confirmed'[id] > 0 =>
               /\ confirmed'[id] = confirmed[id] /\ entry'[id] = entry[id] /\ wanted'[id] = wanted[id]
               /\ id \in lvs => id \in lvs'
               /\ \A n \in ns : n.name = id /\ n.state = "active" /\ n.data # "stale" =>
                     \E k \in ns' : /\ k.name = id /\ k.state = "active" /\ k.data # "stale"
                                    /\ k.size = n.size /\ k.mode = n.mode
    PROVE  ConfirmedInv'
<1>1. SUFFICES ASSUME NEW id \in Ids, confirmed'[id] > 0
               PROVE  /\ entry'[id] # None
                      /\ Mode(entry'[id]) = "lvm" => id \in lvs'
                      /\ Mode(entry'[id]) = "direct" => \E n \in ns' : Device(n, id)'
  BY Zenon DEF ConfirmedInv, Mode
<1>2. /\ confirmed'[id] = confirmed[id] /\ entry'[id] = entry[id] /\ wanted'[id] = wanted[id]
      /\ id \in lvs => id \in lvs'
  BY <1>1, Zenon
<1>3. /\ entry[id] # None
      /\ Mode(entry[id]) = "lvm" => id \in lvs
      /\ Mode(entry[id]) = "direct" => \E n \in ns : Device(n, id)
  BY <1>1, <1>2, ZenonT(40) DEF ConfirmedInv
<1>4. ASSUME NEW n \in ns, Device(n, id) PROVE \E k \in ns' : Device(k, id)'
  <2>1. PICK k \in ns' : /\ k.name = id /\ k.state = "active" /\ k.data # "stale"
                         /\ k.size = n.size /\ k.mode = n.mode
    BY <1>1, <1>4, Zenon DEF Device
  <2>2. RawSize(k) = RawSize(n)
    BY <2>1, Zenon DEF RawSize
  <2>3. Device(k, id)'
    BY <1>2, <1>4, <2>1, <2>2, SMTT(20) DEF Device, RawSize
  <2> QED BY <2>3, Zenon
<1> QED BY <1>2, <1>3, <1>4, Zenon

\* Outside of CreateDevice and DeleteDevice nothing is said about their steps.
LEMMA Quiet ==
    ASSUME job' = None, pc' \notin {"name", "enable", "register", "destroy", "forget"}
    PROVE  CreateInv' /\ DeleteInv'
BY DEF CreateInv, DeleteInv, CreatingNS

\* The invariant is true after a process has ended.
LEMMA ExitInv ==
    ASSUME TypeOK, IndInv, Exit, UNCHANGED <<lvs, label, entry, histVars>>,
           ns' \subseteq Namespaces, NamespaceInv', ConfirmedInv',
           label = "setup" => ns' = ns
    PROVE  TypeOK' /\ IndInv'
<1>1. TypeOK'
  <2>1. region' \in 0 .. NumRegions + 1
    BY RegionNumbers DEF Exit
  <2> QED BY <2>1 DEF TypeOK, Exit, histVars
<1>2. ProcInv'
  BY Zenon DEF ProcInv, Exit, ConvertSteps, DeleteSteps
<1>3. SetupInv'
  BY ZenonT(30) DEF IndInv, SetupInv, Exit, ConvertSteps
<1>4. EntryInv'
  <2>1. /\ job' = None /\ running' = "none" /\ UNCHANGED <<entry, wanted>>
        /\ \A id \in Ids : pmemVolumes'[id] = None
    BY DEF Exit, histVars
  <2> QED BY <2>1, Zenon DEF IndInv, EntryInv
<1>5. CreateInv' /\ DeleteInv'
  BY Quiet DEF Exit
<1> QED BY <1>1, <1>2, <1>3, <1>4, <1>5, Zenon DEF IndInv

\* The same if it changes nothing else.
LEMMA PlainExit ==
    ASSUME TypeOK, IndInv, Exit, UNCHANGED <<ns, lvs, label, entry, histVars>>
    PROVE  TypeOK' /\ IndInv'
<1>1. ns' \subseteq Namespaces
  BY Zenon DEF TypeOK
<1>2. NamespaceInv'
  BY RemoveInv, Zenon DEF IndInv, NamespaceInv
<1>3. ConfirmedInv'
  BY ConfirmedKeep DEF IndInv, histVars
<1> QED BY <1>1, <1>2, <1>3, ExitInv, Zenon

-----------------------------------------------------------------------------
\* Only the process changes.
LEMMA ProcStep ==
    ASSUME TypeOK, IndInv, UNCHANGED <<ns, lvs, entry, histVars>>
    PROVE  NamespaceInv' /\ ConfirmedInv'
<1>1. NamespaceInv'
  BY RemoveInv, Zenon DEF IndInv, NamespaceInv
<1>2. ConfirmedInv'
  BY ConfirmedKeep DEF IndInv, histVars
<1> QED BY <1>1, <1>2, Zenon

\* The setup pod starts and goes from region to region.
LEMMA SetupStepInv ==
    ASSUME TypeOK, IndInv, StartSetup \/ ConvertRegion \/ havePMEM \/ relabel
    PROVE  TypeOK' /\ IndInv'
<1>0. ProcInv /\ SetupInv /\ EntryInv
  BY DEF IndInv
<1>1. CASE StartSetup
  <2>1. job = None /\ todo = {}
    BY <1>0, <1>1, Zenon DEF StartSetup, ProcInv
  <2>2. TypeOK'
    <3>1. region' \in 0 .. NumRegions + 1
      BY <1>1, RegionNumbers DEF StartSetup
    <3> QED BY <1>1, <3>1, Zenon DEF StartSetup, TypeOK, histVars, ConvertSteps
  <2>3. ProcInv'
    BY <1>1, <2>1, Zenon DEF StartSetup, ProcInv, ConvertSteps, DeleteSteps
  <2>4. SetupInv'
    BY <1>0, <1>1, <2>1, Zenon DEF StartSetup, SetupInv, ConvertSteps
  <2>5. EntryInv'
    BY <1>0, <1>1, <2>1, Zenon DEF StartSetup, EntryInv, histVars
  <2>6. CreateInv' /\ DeleteInv'
    BY <1>1, <2>1, Quiet, Zenon DEF StartSetup
  <2>7. NamespaceInv' /\ ConfirmedInv'
    BY <1>1, ProcStep, Zenon DEF StartSetup
  <2> QED BY <2>2, <2>3, <2>4, <2>5, <2>6, <2>7, Zenon DEF IndInv
<1>2. CASE ConvertRegion
  <2>1. job = None /\ running = "setup" /\ label = "setup"
    BY <1>0, <1>2, Zenon DEF ConvertRegion, ProcInv, SetupInv, ConvertSteps
  <2>2. TypeOK'
    <3>1. region' \in 0 .. NumRegions + 1
      BY <1>2, RegionNumbers, Zenon DEF ConvertRegion, Goto, TypeOK
    <3> QED BY <1>2, <3>1, Zenon DEF ConvertRegion, TypeOK, histVars, ConvertSteps, Goto, AllNamespaces
  <2>3. ProcInv'
    BY <1>0, <1>2, <2>1, Zenon DEF ConvertRegion, Goto, ProcInv, ConvertSteps, DeleteSteps
  <2>4. SetupInv'
    BY <1>0, <1>2, <2>1, Zenon DEF ConvertRegion, Goto, SetupInv, ConvertSteps, AllNamespaces
  <2>5. EntryInv'
    BY <1>0, <1>2, <2>1, Zenon DEF ConvertRegion, Goto, EntryInv, histVars
  <2>6. CreateInv' /\ DeleteInv'
    BY <1>2, <2>1, Quiet, Zenon DEF ConvertRegion, Goto
  <2>7. NamespaceInv' /\ ConfirmedInv'
    BY <1>2, ProcStep DEF ConvertRegion
  <2> QED BY <2>2, <2>3, <2>4, <2>5, <2>6, <2>7 DEF IndInv
<1>3. CASE havePMEM
  <2>1. job = None /\ running = "setup" /\ label = "setup" /\ todo = {}
    BY <1>0, <1>3 DEF havePMEM, ProcInv, SetupInv, ConvertSteps
  <2>2. CASE Exit
    BY <1>3, <2>2, PlainExit, Zenon DEF havePMEM
  <2>3. CASE Goto("relabel")
    <3>2. TypeOK'
      BY <1>3, <2>3, Zenon DEF havePMEM, TypeOK, histVars, ConvertSteps, Goto
    <3>3. ProcInv'
      BY <1>0, <1>3, <2>1, <2>3, Zenon DEF havePMEM, Goto, ProcInv, ConvertSteps, DeleteSteps
    <3>4. SetupInv'
      BY <1>0, <1>3, <2>1, <2>3, Zenon DEF havePMEM, Goto, SetupInv, ConvertSteps
    <3>5. EntryInv'
      BY <1>0, <1>3, <2>1, <2>3, Zenon DEF havePMEM, Goto, EntryInv, histVars
    <3>6. CreateInv' /\ DeleteInv'
      BY <1>3, <2>1, <2>3, Quiet, Zenon DEF havePMEM, Goto
    <3>7. NamespaceInv' /\ ConfirmedInv'
      BY <1>3, ProcStep DEF havePMEM
    <3> QED BY <3>2, <3>3, <3>4, <3>5, <3>6, <3>7 DEF IndInv
  <2> QED BY <1>3, <2>2, <2>3, Zenon DEF havePMEM
<1>4. CASE relabel
  <2>1. job = None /\ running = "setup" /\ label = "setup" /\ todo = {}
    BY <1>0, <1>4 DEF relabel, ProcInv, SetupInv, ConvertSteps
  <2>2. CASE Exit /\ UNCHANGED label
    BY <1>4, <2>2, PlainExit, Zenon DEF relabel
  <2>3. CASE label' = "driver" /\ Goto("done")
    <3>2. TypeOK'
      BY <1>4, <2>3, Zenon DEF relabel, TypeOK, histVars, ConvertSteps, Goto
    <3>3. ProcInv'
      BY <1>0, <1>4, <2>1, <2>3, Zenon DEF relabel, Goto, ProcInv, ConvertSteps, DeleteSteps
    <3>4. SetupInv'
      BY <1>0, <1>4, <2>1, <2>3, ZenonT(40) DEF relabel, Goto, SetupInv, ConvertSteps
    <3>5. EntryInv'
      BY <1>0, <1>4, <2>1, <2>3, Zenon DEF relabel, Goto, EntryInv, histVars
    <3>6. CreateInv' /\ DeleteInv'
      BY <1>4, <2>1, <2>3, Quiet, Zenon DEF relabel, Goto
    <3>7. NamespaceInv' /\ ConfirmedInv'
      BY <1>4, ProcStep DEF relabel
    <3> QED BY <3>2, <3>3, <3>4, <3>5, <3>6, <3>7 DEF IndInv
  <2> QED BY <1>4, <2>2, <2>3, Zenon DEF relabel
<1> QED BY <1>1, <1>2, <1>3, <1>4

\* The next namespace of the conversion.
LEMMA NextNamespace ==
    ASSUME TypeOK, todo # {}
    PROVE  (CHOOSE m \in todo : \A k \in todo : m.start <= k.start) \in todo
<1> DEFINE S == {m.start : m \in todo}
<1>1. S \subseteq Nat /\ S # {}
  BY DEF TypeOK, Namespaces
<1>2. PICK x \in S : \A y \in S : x <= y
  <2> HIDE DEF S
  <2> QED BY <1>1, Smallest, Zenon
<1>3. \E m \in todo : \A k \in todo : m.start <= k.start
  BY <1>2
<1> QED BY <1>3

\* One namespace is replaced by one with the same name and place.
LEMMA ReplaceInv ==
    ASSUME TypeOK, NamespaceInv, NEW n \in ns, NEW k \in Namespaces, ns' = (ns \ {n}) \cup {k},
           n.name \notin Ids, n.state # "seed", k.data # "user",
           k.name = n.name, k.region = n.region, k.size = n.size, k.state = n.state, UNCHANGED entry
    PROVE  NamespaceInv' /\ ns' \subseteq Namespaces
<1> DEFINE g == [m \in ns |-> IF m = n THEN k ELSE m]
<1>1. g \in [ns -> Namespaces]
  BY DEF TypeOK
<1>2. \A m \in ns : g[m] = IF m = n THEN k ELSE m
  OBVIOUS
<1>3. ns' = {g[m] : m \in ns}
  OBVIOUS
<1> HIDE DEF g
<1>4. \A m \in ns : /\ g[m].name = m.name /\ g[m].region = m.region /\ g[m].size = m.size
                    /\ g[m].state = "seed" <=> m.state = "seed"
                    /\ m.state = "seed" => g[m].data = "stale"
                    /\ m.name = pmemCSINamespaceName => g[m].data # "user"
  BY <1>2, Zenon DEF NamespaceInv
<1>5. \A m \in ns : m.name \in Ids /\ g[m].state = "active" /\ g[m].data # "stale" =>
                              /\ entry'[m.name] # None /\ Mode(entry'[m.name]) = "direct"
                              /\ \A j \in ns : j.name = m.name => j = m
  BY <1>2, Zenon DEF NamespaceInv
<1> QED BY <1>1, <1>3, <1>4, <1>5, UpdateInv DEF Updated

\* The setup pod converts a namespace.
LEMMA ConvertInv ==
    ASSUME TypeOK, IndInv, Convert
    PROVE  TypeOK' /\ IndInv'
<1> DEFINE n == CHOOSE m \in todo : \A k \in todo : m.start <= k.start
           fsdax == [n EXCEPT !.mode = "fsdax", !.data = "clear"]
           pv == [n EXCEPT !.data = "pv"]
<1>0. ProcInv /\ SetupInv /\ EntryInv /\ NamespaceInv /\ ConfirmedInv
  BY Zenon DEF IndInv
<1>1. pc = "convert" /\ todo # {} /\ UNCHANGED <<lvs, label, entry, histVars>>
  BY Zenon DEF Convert
<1>2. n \in todo
  BY <1>1, NextNamespace, Zenon
<1>3. job = None /\ running = "setup" /\ label = "setup"
  BY <1>0, <1>1, Zenon DEF ProcInv, SetupInv, ConvertSteps
<1>4. n \in ns /\ n \in Namespaces /\ n.name \notin Ids /\ n.state # "seed" /\ n.region \notin ReadOnly
  BY <1>0, <1>1, <1>2, <1>3 DEF SetupInv, TypeOK
<1>5. ASSUME NEW k \in {fsdax, pv}
      PROVE  /\ k \in Namespaces /\ k.name = n.name /\ k.region = n.region /\ k.size = n.size
             /\ k.state = n.state /\ k.data # "user"
  <2> HIDE DEF n
  <2> QED BY <1>4, Zenon DEF Namespaces
<1>6. ASSUME UNCHANGED <<running, pc, region, job, pmemVolumes>>, todo' \subseteq ns',
             ns' \subseteq Namespaces, NamespaceInv',
             \A k \in ns' : k.name \notin Ids /\ k.state # "seed",
             \A k \in todo' : k.region \notin ReadOnly
      PROVE  TypeOK' /\ IndInv'
  <2>1. TypeOK'
    BY <1>1, <1>6 DEF TypeOK, histVars
  <2>2. ProcInv'
    BY <1>0, <1>1, <1>6, Zenon DEF ProcInv
  <2>3. SetupInv'
    BY <1>0, <1>1, <1>6, ZenonT(30) DEF SetupInv
  <2>4. EntryInv'
    BY <1>0, <1>1, <1>3, <1>6 DEF EntryInv, histVars
  <2>5. CreateInv' /\ DeleteInv'
    BY <1>1, <1>3, <1>6, Quiet, Zenon
  <2>6. ConfirmedInv'
    <3>1. \A m \in ns : m.name \notin Ids
      BY <1>0, <1>3 DEF SetupInv
    <3> QED BY <1>0, <1>1, <3>1, ConfirmedKeep, Zenon DEF histVars
  <2> QED BY <1>6, <2>1, <2>2, <2>3, <2>4, <2>5, <2>6 DEF IndInv
<1>7. ASSUME NEW k \in {fsdax, pv}, ns' = (ns \ {n}) \cup {k}, todo' \subseteq (todo \ {n}) \cup {k},
             UNCHANGED <<running, pc, region, job, pmemVolumes>>
      PROVE  TypeOK' /\ IndInv'
  <2> HIDE DEF n, fsdax, pv
  <2>1. NamespaceInv' /\ ns' \subseteq Namespaces
    BY <1>0, <1>1, <1>4, <1>5, <1>7, ReplaceInv, Zenon
  <2>2. todo' \subseteq ns'
    BY <1>7, Zenon DEF TypeOK
  <2>3. \A j \in ns' : j.name \notin Ids /\ j.state # "seed"
    BY <1>0, <1>3, <1>4, <1>5, <1>7, Zenon DEF SetupInv
  <2>4. \A j \in todo' : j.region \notin ReadOnly
    BY <1>0, <1>1, <1>4, <1>5, <1>7 DEF SetupInv
  <2> QED BY <1>6, <1>7, <2>1, <2>2, <2>3, <2>4, Zenon
<1>8. CASE Exit /\ UNCHANGED ns
  BY <1>1, <1>8, PlainExit, Zenon
<1>9. CASE todo' = todo \ {n} /\ UNCHANGED <<ns, running, pc, region, job, pmemVolumes>>
  <2> HIDE DEF n, fsdax, pv
  <2>1. NamespaceInv' /\ ns' \subseteq Namespaces
    BY <1>1, <1>9, ProcStep, Zenon DEF TypeOK
  <2> QED BY <1>0, <1>1, <1>3, <1>6, <1>9, <2>1, Zenon DEF TypeOK, SetupInv
<1>10. \/ \E k \in {fsdax, pv} : /\ ns' = (ns \ {n}) \cup {k} /\ todo' \subseteq (todo \ {n}) \cup {k}
                                 /\ UNCHANGED <<running, pc, region, job, pmemVolumes>>
       \/ Exit /\ UNCHANGED ns
       \/ todo' = todo \ {n} /\ UNCHANGED <<ns, running, pc, region, job, pmemVolumes>>
  BY Zenon DEF Convert
<1> HIDE DEF n, fsdax, pv
<1> QED BY <1>7, <1>8, <1>9, <1>10

-----------------------------------------------------------------------------
\* The driver runs only when the labels of the node select it.
LEMMA DriverRuns ==
    ASSUME TypeOK, IndInv, running \notin {"none", "setup"} \/ pc \notin {"idle"} \cup ConvertSteps
    PROVE  running \in {"lvm", "direct"} /\ label = "driver"
BY Zenon DEF IndInv, TypeOK, ProcInv, SetupInv

\* A step within the same operation keeps what is said about the volumes.
LEMMA EntrySame ==
    ASSUME EntryInv, UNCHANGED <<entry, histVars, pmemVolumes, running, job>>,
           Starting' <=> Starting,
           job # None => (pc' \in CreateSteps <=> pc \in CreateSteps) /\ (pc' \in DeleteSteps => pc \in DeleteSteps)
    PROVE  EntryInv'
<1>1. /\ entry' = entry /\ wanted' = wanted /\ confirmed' = confirmed /\ pmemVolumes' = pmemVolumes
      /\ running' = running /\ job' = job
  BY Zenon DEF histVars
<1>2. \A id \in Ids : entry[id] # None =>
          /\ wanted[id] \in Maps /\ ParseOK(Origin(wanted[id]), wanted[id])
          /\ \E mode \in {"lvm", "direct"} : entry[id].params = StoredParams(id, wanted[id], mode)
  BY Zenon DEF EntryInv
<1>3. ASSUME NEW id \in Ids
      PROVE  pmemVolumes[id] =
               IF running \in {"none", "setup"} \/ Starting' \/ (job = id /\ pc' \in CreateSteps)
                 THEN None ELSE entry[id]
  <2>1. CASE job = None
    BY <2>1, ConstantTypes, Zenon DEF EntryInv
  <2>2. CASE job # None
    BY <2>2, Zenon DEF EntryInv
  <2> QED BY <2>1, <2>2, Zenon
<1>4. /\ job # None => entry[job] # None
      /\ job # None /\ pc' \in CreateSteps => Mode(entry[job]) = running /\ confirmed[job] = 0
      /\ job # None /\ pc' \in DeleteSteps => confirmed[job] = 0
  BY DEF EntryInv
<1> QED BY <1>1, <1>2, <1>3, <1>4, Zenon DEF EntryInv, Mode

\* The driver is started.
LEMMA StartDriverInv ==
    ASSUME TypeOK, IndInv, NEW mode \in {"lvm", "direct"}, StartDriver(mode)
    PROVE  TypeOK' /\ IndInv'
<1>0. ProcInv /\ SetupInv /\ EntryInv
  BY DEF IndInv
<1>1. job = None /\ todo = {} /\ running = "none" /\ label = "driver"
  BY <1>0, Zenon DEF StartDriver, ProcInv
<1>2. TypeOK'
  <2>1. region' \in 0 .. NumRegions + 1
    BY RegionNumbers DEF StartDriver
  <2> QED BY <2>1 DEF StartDriver, TypeOK, histVars, SetupSteps
<1>3. ProcInv'
  <2>1. pc' = "setupNS" => region' \in Regions
    BY RegionNumbers, Zenon DEF StartDriver
  <2> QED BY <1>1, <2>1, Zenon DEF StartDriver, ProcInv, ConvertSteps, DeleteSteps
<1>4. SetupInv'
  BY <1>1, Zenon DEF StartDriver, SetupInv, ConvertSteps
<1>5. EntryInv'
  BY <1>0, <1>1, Zenon DEF StartDriver, EntryInv, Starting, SetupSteps, histVars
<1>6. CreateInv' /\ DeleteInv'
  BY <1>1, Quiet DEF StartDriver
<1>7. NamespaceInv' /\ ConfirmedInv'
  BY ProcStep DEF StartDriver
<1> QED BY <1>2, <1>3, <1>4, <1>5, <1>6, <1>7 DEF IndInv

=============================================================================
