------------------------------ MODULE Lending -------------------------------
(***************************************************************************)
(* How Swift copies a value that Rust lends it.                            *)
(*                                                                         *)
(* swift-bridge can return neither a collection nor an optional struct, so *)
(* that Rust lends such a field through a set of getters: whether it is    *)
(* there, its length, the element at an index (bridge/accessors/mod.rs:    *)
(* 16-24).  A getter that is asked for what is not there stops the program *)
(* with `unreachable!` or an index out of range.  Swift asks the getters   *)
(* in the order its initializers call them (Model/*.swift), and the copy   *)
(* must be the value: nil for None and for nothing else, every element in  *)
(* its place.  LentFields says which field crosses in which way.           *)
(*                                                                         *)
(* One field of one value is copied, getter by getter.  A value that is    *)
(* not a collection crosses as it is: a number, a String as its text, an   *)
(* enum as its raw value (a test of the repository compares those case by  *)
(* case), a struct through its own initializer, whose fields are rows of   *)
(* LentFields.  An Option is a sequence of at most one value, so that None *)
(* is <<>> and Some(x) is <<x>>.                                           *)
(***************************************************************************)
EXTENDS LentFields, Integers, SequencesExt

CONSTANTS
  Values,    \* what a field that is no collection may hold
  Bytes,     \* what a byte of an extended attribute may be
  Keys,      \* the keys of a map, in the order of Rust's strings
  Canonical, \* Canonical[k]: the class of keys that Swift holds equal to k
  MaxLen,    \* bound: the longest list, and the longest attribute
  Half       \* 2^64 in the code: how many numbers half a UInt128 can be

ASSUME KeysAssumption == Keys \subseteq Nat /\ Canonical \in [Keys -> Keys]
ASSUME HalfAssumption == Half \in Nat \ {0}

\* The fields of a table, and the kind it gives one of them.
FieldsOf(table) == UNION {table[kind] : kind \in DOMAIN table}
KindOf(table, field) == CHOOSE kind \in DOMAIN table : field \in table[kind]

\* Every field of a struct has getters and is read, and in one way.
ASSUME EveryFieldCrosses ==
  \A t \in DOMAIN Holds : \A table \in {Holds[t], Lends[t], Copies[t]} :
    /\ FieldsOf(table) = FieldsOf(Holds[t])
    /\ \A k, l \in DOMAIN table : k # l => table[k] \cap table[l] = {}

-----------------------------------------------------------------------------
(* What Rust may hold.                                                     *)

Some(x) == <<x>>
None == <<>>
Option(S) == {None} \cup {Some(x) : x \in S}

\* A BTreeMap: its entries in the order of its keys.
Entries(map) ==
  LET keys == SetToSortSeq(DOMAIN map, <)
  IN  [i \in DOMAIN keys |-> <<keys[i], map[keys[i]]>>]
BTreeMap(S) == {Entries(map) : map \in UNION {[D -> S] : D \in SUBSET Keys}}

\* The payload getters that answer for each kind of an enum.
ArchiveOptions == [CompressionLevel |-> {"option_compression_level_at"},
  CompressionStore |-> {}, CompressionDeflate |-> {},
  Xattrformat |-> {"option_xattr_format_at"}]
IPFamilies == [V4 |-> {"v4_value"}, V6 |-> {"v6"}]
InterfaceKinds == [Nat |-> {"nat_interface"}, Vmnet |-> {"vmnet_interface"}]
SeccompModes == [Unconfined |-> {}, Default |-> {},
  Profile |-> {"seccomp_profile"}]
PodVolumeKinds == [Nbd |-> {"location", "timeout", "read_only"},
  DiskImage |-> {"location", "read_only"}, Tmpfs |-> {"size_bytes"}]
BootLogKinds == [File |-> {"path", "append"}, FileHandle |-> {"file_handle"}]

Payloads == [ArchiveWriterConfiguration |-> ArchiveOptions,
  IPAddress |-> IPFamilies, Interfaces |-> InterfaceKinds,
  LinuxContainerConfiguration |-> SeccompModes,
  PodConfiguration |-> SeccompModes,
  PodContainerConfiguration |-> SeccompModes,
  PodVolume |-> PodVolumeKinds, BootLog |-> BootLogKinds]

\* The getters that have an answer for every kind, a stand-in if need be.
AnswersAnyway == [PodVolume |-> {"location", "timeout", "read_only", "size_bytes"},
  BootLog |-> {"path", "append", "file_handle"}]

Enum(type) ==
  UNION {[kind : {k}, payload : [Payloads[type][k] -> Values]] :
         k \in DOMAIN Payloads[type]}

\* The values that a field of a type may hold.
Domain(type, holds) ==
  CASE holds = "T" -> Values
    [] holds = "Option" -> Option(Values)
    [] holds = "OptionOption" -> Option(Option(Values))
    [] holds = "Vec" -> SeqOf(Values, MaxLen)
    [] holds = "OptionVec" -> Option(SeqOf(Values, MaxLen))
    [] holds = "Map" -> BTreeMap(Values)
    [] holds = "OptionMap" -> Option(BTreeMap(Values))
    [] holds = "DataMap" -> BTreeMap(SeqOf(Bytes, MaxLen))
    [] holds = "OptionDataMap" -> Option(BTreeMap(SeqOf(Bytes, MaxLen)))
    [] holds = "Wide" -> 0 .. (Half * Half - 1)
    [] holds = "Kind" -> Enum(type)
    [] holds = "OptionKind" -> Option(Enum(type))
    [] holds = "VecKind" -> SeqOf(Enum(type), MaxLen)

-----------------------------------------------------------------------------
(* Rust's getters.                                                         *)

\* How many options what a getter lends lies within.
Opens(form) ==
  CASE form = "present_twice" -> 2
    [] form \in {"present", "and_then", "or_default", "optional_list",
                 "list_within", "optional_map", "optional_kind",
                 "optional_joined"} -> 1
    [] OTHER -> 0

\* Whether the first n options that hold a value are Some.
Reaches(v, n) == n = 0 \/ (v # None /\ (n = 1 \/ v[1] # None))
Peel(v, n) == CASE n = 0 -> v [] n = 1 -> v[1] [] n = 2 -> v[1][1]

\* The getters that answer without the options, with None or nothing:
\* `map_or(0, ..)`, `and_then` and `unwrap_or_default`.
Total == {<<"and_then", "value">>, <<"or_default", "value">>,
          <<"optional_list", "len">>, <<"optional_map", "len">>,
          <<"optional_joined", "len">>}

\* What a getter lends, of which it takes an element, or the length.
Inside(form, v) ==
  IF Reaches(v, Opens(form)) THEN Peel(v, Opens(form)) ELSE None

\* `value_high` and `value_low`.
ValueHigh(v) == v \div Half
ValueLow(v) == v % Half

\* platform::xattrs: the names, each value's length, and the values joined.
Names(map) == [i \in DOMAIN map |-> map[i][1]]
Lengths(map) == [i \in DOMAIN map |-> Len(map[i][2])]
Joined(map) == FlattenSeq([i \in DOMAIN map |-> map[i][2]])

-----------------------------------------------------------------------------
(* Swift's initializers.                                                   *)

\* How many `has_` getters Swift asks first, and how it reads the rest.
Gates(form) ==
  CASE form = "gates_twice" -> 2
    [] form \in {"gates", "gates_lists", "gates_maps", "gates_switches",
                 "gates_slices"} -> 1
    [] OTHER -> 0
Reads(form) ==
  CASE form \in {"asks", "gates", "gates_twice"} -> "value"
    [] form \in {"lists", "gates_lists"} -> "list"
    [] form \in {"maps", "gates_maps"} -> "map"
    [] form \in {"switches", "gates_switches"} -> "kind"
    [] form = "lists_switches" -> "kinds"
    [] form = "rejoins" -> "halves"
    [] form \in {"slices", "gates_slices"} -> "data"

Wrap(n, x) == CASE n = 0 -> x [] n = 1 -> Some(x) [] n = 2 -> Some(Some(x))

\* The payload getters that Swift's switch asks for each kind.
ArchiveOptionSwitch == [CompressionLevel |-> {"option_compression_level_at"},
  CompressionStore |-> {}, CompressionDeflate |-> {},
  Xattrformat |-> {"option_xattr_format_at"}]
IPAddressSwitch == [V4 |-> {"v4_value"}, V6 |-> {"v6"}]
InterfaceSwitch == [Nat |-> {"nat_interface"}, Vmnet |-> {"vmnet_interface"}]
SeccompSwitch == [Unconfined |-> {}, Default |-> {},
  Profile |-> {"seccomp_profile"}]
PodVolumeSwitch == [Nbd |-> {"location", "timeout", "read_only"},
  DiskImage |-> {"location", "read_only"}, Tmpfs |-> {"size_bytes"}]
BootLogSwitch == [File |-> {"path", "append"}, FileHandle |-> {"file_handle"}]

Switch == [ArchiveWriterConfiguration |-> ArchiveOptionSwitch,
  IPAddress |-> IPAddressSwitch, Interfaces |-> InterfaceSwitch,
  LinuxContainerConfiguration |-> SeccompSwitch,
  PodConfiguration |-> SeccompSwitch,
  PodContainerConfiguration |-> SeccompSwitch,
  PodVolume |-> PodVolumeSwitch, BootLog |-> BootLogSwitch]

\* What Swift asks before it asks for the kind: a tmpfs's location, too.
AskedFirst == [PodVolume |-> {"location"}]

\* Mutant: `uniquingKeysWith: { first, _ in first }`.
StoreFirst(dictionary, key, value) ==
  [c \in DOMAIN dictionary \cup {Canonical[key]} |->
     IF c \in DOMAIN dictionary THEN dictionary[c] ELSE value]

\* A Dictionary with one more entry: of keys that Swift holds to be equal the
\* last one wins.
Store(dictionary, key, value) ==
  [c \in DOMAIN dictionary \cup {Canonical[key]} |->
     IF c = Canonical[key] THEN value ELSE dictionary[c]]

\* `UInt128(high) << 64 | UInt128(low)`, which Rust's `from_halves` does too.
FromHalves(high, low) == high * Half + low

-----------------------------------------------------------------------------
(* The copying of one field.                                               *)

VARIABLES
  type,    \* the type of the value
  field,   \* the field
  held,    \* what Rust holds in it
  stage,   \* what Swift asks next: "has", "value", "halves", "len",
           \* "elements", or "done"
  gate,    \* how many `has_` getters have said yes
  count,   \* the length Swift was told
  index,   \* the index of the next element
  kind,    \* the kind of the element at index, if Swift asked for it
  offset,  \* where the next attribute's bytes begin
  copy     \* what Swift has of it so far, and in the end

vars == <<type, field, held, stage, gate, count, index, kind, offset, copy>>

lends == KindOf(Lends[type], field)
copies == KindOf(Copies[type], field)

\* Where the reading goes on once every gate is open.
Opened == CASE Reads(copies) \in {"value", "halves"} -> Reads(copies)
            [] Reads(copies) = "kind" -> "elements"
            [] OTHER -> "len"

Init ==
  /\ type \in DOMAIN Holds
  /\ field \in FieldsOf(Holds[type])
  /\ held \in Domain(type, KindOf(Holds[type], field))
  /\ stage = IF Gates(copies) > 0 THEN "has" ELSE Opened
  /\ gate = 0 /\ index = 0 /\ kind = None /\ offset = 0 /\ copy = None
  /\ count = IF Reads(copies) = "kind" THEN 1 ELSE 0

\* A `has_` getter: nil if it says no.
AskHas ==
  /\ stage = "has"
  /\ IF Reaches(held, gate + 1)
       THEN /\ gate' = gate + 1
            /\ stage' = IF gate + 1 = Gates(copies) THEN Opened ELSE "has"
            /\ copy' = copy
       ELSE /\ stage' = "done" /\ copy' = Wrap(gate, None) /\ gate' = gate
  /\ UNCHANGED <<type, field, held, count, index, kind, offset>>

\* A getter that gives all there is to copy.
AskValue ==
  /\ stage = "value"
  /\ copy' = Wrap(gate, Inside(lends, held))
  /\ stage' = "done"
  /\ UNCHANGED <<type, field, held, gate, count, index, kind, offset>>

\* A number of 128 bits, which crosses as two of 64.
AskHalves ==
  /\ stage = "halves"
  /\ copy' = FromHalves(ValueHigh(held), ValueLow(held))
  /\ stage' = "done"
  /\ UNCHANGED <<type, field, held, gate, count, index, kind, offset>>

\* The length: from then on Swift asks for the indices below it.
AskLen ==
  /\ stage = "len"
  /\ count' = Len(Inside(lends, held))
  /\ stage' = "elements"
  /\ UNCHANGED <<type, field, held, gate, index, kind, offset, copy>>

\* What the next element is, of a list or of a single enum.
Element ==
  IF Reads(copies) = "kind" THEN Inside(lends, held)
                            ELSE Inside(lends, held)[index + 1]

\* `x_at`.
AskAt ==
  /\ stage = "elements" /\ index < count /\ Reads(copies) = "list"
  /\ copy' = Append(copy, Element)
  /\ index' = index + 1
  /\ UNCHANGED <<type, field, held, stage, gate, count, kind, offset>>

\* `x_key_at` and `x_value_at`.
AskEntry ==
  /\ stage = "elements" /\ index < count /\ Reads(copies) = "map"
  /\ copy' = Store(copy, Element[1], Element[2])
  /\ index' = index + 1
  /\ UNCHANGED <<type, field, held, stage, gate, count, kind, offset>>

\* The kind of an enum, alone or at an index.
AskKind ==
  /\ stage = "elements" /\ index < count
  /\ Reads(copies) \in {"kind", "kinds"} /\ kind = None
  /\ kind' = Some(Element.kind)
  /\ UNCHANGED <<type, field, held, stage, gate, count, index, offset, copy>>

\* What the switch's getters for the kind answer.
AskPayload ==
  /\ stage = "elements" /\ kind # None
  /\ copy' = Append(copy, [kind |-> kind[1],
               payload |-> [g \in Switch[type][kind[1]] |-> Element.payload[g]]])
  /\ index' = index + 1
  /\ kind' = None
  /\ UNCHANGED <<type, field, held, stage, gate, count, offset>>

\* Mutant: a loop that does not move on.
SliceInPlace ==
  /\ stage = "elements" /\ index < count /\ Reads(copies) = "data"
  /\ LET map == Inside(lends, held)
     IN  copy' = Store(copy, Names(map)[index + 1],
                   SubSeq(Joined(map), offset + 1,
                          offset + Lengths(map)[index + 1]))
  /\ index' = index + 1
  /\ UNCHANGED <<type, field, held, stage, gate, count, kind, offset>>

\* `dataMap`: the next attribute's bytes are the next that were joined.
Slice ==
  /\ stage = "elements" /\ index < count /\ Reads(copies) = "data"
  /\ LET map == Inside(lends, held)
         end == offset + Lengths(map)[index + 1]
     IN  /\ copy' = Store(copy, Names(map)[index + 1],
                          SubSeq(Joined(map), offset + 1, end))
         /\ offset' = end
  /\ index' = index + 1
  /\ UNCHANGED <<type, field, held, stage, gate, count, kind>>

\* The initializer has all elements.
Finish ==
  /\ stage = "elements" /\ index = count
  /\ copy' = Wrap(gate, IF Reads(copies) = "kind" THEN copy[1] ELSE copy)
  /\ stage' = "done"
  /\ UNCHANGED <<type, field, held, gate, count, index, kind, offset>>

Next == \/ AskHas \/ AskValue \/ AskHalves \/ AskLen \/ AskAt \/ AskEntry
        \/ AskKind \/ AskPayload \/ Slice \/ Finish

Spec == Init /\ [][Next]_vars

-----------------------------------------------------------------------------
(* Properties.                                                             *)

\* The getter that Swift asks at a stage, as `Total` names it.
Getter == IF stage = "elements" THEN "at" ELSE stage

(* Swift never asks a getter for what is not there: for a value or an      *)
(* element of a None, for an index that is not below the length, for the   *)
(* payload of another kind, or for bytes beyond the joined ones.  Each of  *)
(* these stops the program ("Swift asks for an optional field only after   *)
(* its `has_` getter", accessors/mod.rs:211), or brings a stand-in over.   *)
(* What Swift asks before it knows the kind has an answer for every kind.  *)
NeverAsksAmiss ==
  /\ stage \in {"value", "len", "elements"} =>
       Reaches(held, Opens(lends)) \/ <<lends, Getter>> \in Total
       \/ (stage = "elements" /\ index = count)
  /\ stage = "elements" /\ index < count /\ Reads(copies) # "kind" =>
       index < Len(Inside(lends, held))
  /\ kind # None =>
       /\ Switch[type][kind[1]] \subseteq Payloads[type][Element.kind]
       /\ type \in DOMAIN AskedFirst =>
            AskedFirst[type] \subseteq Payloads[type][Element.kind] \cup AnswersAnyway[type]
  /\ stage = "elements" /\ index < count /\ Reads(copies) = "data" =>
       offset + Lengths(Inside(lends, held))[index + 1]
         <= Len(Joined(Inside(lends, held)))

\* A map as Swift can hold it: the last value of each class of equal keys.
AsDictionary(map) ==
  [c \in {Canonical[map[i][1]] : i \in DOMAIN map} |->
     LET last == CHOOSE i \in DOMAIN map :
                   /\ Canonical[map[i][1]] = c
                   /\ \A j \in DOMAIN map : Canonical[map[j][1]] = c => j <= i
     IN  map[last][2]]

\* What Swift's copy of a field ought to be.
Expected ==
  LET holds == KindOf(Holds[type], field)
  IN  CASE holds \in {"Map", "DataMap"} -> AsDictionary(held)
        [] holds \in {"OptionMap", "OptionDataMap"} ->
             IF held = None THEN None ELSE Some(AsDictionary(held[1]))
        [] OTHER -> held

(* What Swift ends up with is what Rust holds, for every field of every    *)
(* type that is copied: nil exactly for None, at either depth; every       *)
(* element in its place; every kind with its payload; a 128-bit number     *)
(* whole though it crossed in halves; and of a map all that Swift can hold *)
(* of it, where the last of equal keys wins (Conversions.swift:29-31).     *)
CopiesWhole == stage = "done" => copy = Expected

=============================================================================
