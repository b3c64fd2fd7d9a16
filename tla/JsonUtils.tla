------------------------------ MODULE JsonUtils ------------------------------
(***************************************************************************)
(* JSON values and the leaf readers of runtime/json_utils.hpp, on which    *)
(* the readers of all documents rest.                                      *)
(*                                                                         *)
(* A JSON value is a record with one field named for its type, as the      *)
(* library's is_xxx() functions tell them apart:                           *)
(*   uint, int    an integer literal without or with a minus sign          *)
(*   float        any other number                                         *)
(*   string       a string; a decimal numeral with its leading zeros is    *)
(*                [numeral |-> [zeros, value]], a well-formed digest       *)
(*                [sha |-> what it is the digest of]                       *)
(*   bool, null                                                            *)
(*   array        a sequence, object: a function from member names         *)
(* A text that parse refuses (a duplicate key, a byte order mark, bad      *)
(* syntax) is [null |-> 0]: no reader accepts that either.                 *)
(*                                                                         *)
(* A part of a document has an operator that says what is accepted and,    *)
(* where something else is made of it, one that says what.                 *)
(***************************************************************************)
EXTENDS Integers, Sequences

CONSTANTS
  IntMax,    \* numeric_limits<int>::max()
  SafeMax,   \* 2^53 - 1, the largest byte length of a blob
  LongMax,   \* numeric_limits<int64_t>::max()
  WordMax    \* numeric_limits<uint64_t>::max()

ASSUME WidthsOK == {IntMax, SafeMax, LongMax, WordMax} \subseteq Nat

-----------------------------------------------------------------------------
JsonTypes ==
  {"uint", "int", "float", "string", "numeral", "sha", "bool", "null", "array", "object"}

Is(v, type) == type \in DOMAIN v

\* A set of JSON values with their parts: what the library's types are.
JsonClosed(J) ==
  \A v \in J :
    /\ \E type \in JsonTypes \cap DOMAIN v : v = [t \in {type} |-> v[t]]
    /\ Is(v, "uint") => v.uint \in Nat
    /\ Is(v, "int") => v.int \in Int /\ v.int <= 0
    /\ Is(v, "numeral") => v.numeral \in [zeros : Nat, value : Nat]
    /\ Is(v, "array") => v.array \in Seq(J)
    /\ Is(v, "object") => v.object \in [DOMAIN v.object -> J]

\* A zero with a minus sign is read as zero and would not be written back as it was.
MinusZero == [int |-> 0]

IsString(v) == Is(v, "string") \/ Is(v, "numeral") \/ Is(v, "sha")

\* Mutant: members nobody asked for are let pass.
HasAtLeast(v, names, optional) == Is(v, "object") /\ names \subseteq DOMAIN v.object

\* require_members: all of names, and nothing but names and optional.
HasMembers(v, names, optional) ==
  /\ Is(v, "object")
  /\ names \subseteq DOMAIN v.object /\ DOMAIN v.object \subseteq names \cup optional

\* read_int.  A number without a sign is compared with the upper bound only.
IntOk(v, min, max) ==
  IF Is(v, "uint") THEN v.uint <= max ELSE Is(v, "int") /\ v.int \in min .. max

\* read_safe_uint.
SafeUintOk(v, min, max) ==
  IF Is(v, "uint") THEN v.uint \in min .. max ELSE Is(v, "int") /\ v.int = 0 /\ min = 0

Number(v) == IF Is(v, "uint") THEN v.uint ELSE IF Is(v, "int") THEN v.int ELSE v.float

\* Mutant: from_chars' error is ignored.
IdOkAnySize(v) == Is(v, "numeral") /\ v.numeral.zeros = 0

\* read_id: one spelling for each number.
IdOk(v) == Is(v, "numeral") /\ v.numeral.zeros = 0 /\ v.numeral.value <= WordMax

\* The spellings of each enumeration (read_place, read_value_kind, ...).
Enums ==
  [value_kind |-> [plaintext |-> "Plaintext", ciphertext |-> "Ciphertext"],
   place |-> [host |-> "Host", device |-> "Device"],
   compute |-> [add_cc |-> "AddCC", add_cp |-> "AddCP", sub_cc |-> "SubCC", sub_cp |-> "SubCP",
                mul_cc |-> "MulCC", mul_cp |-> "MulCP", negate |-> "Negate",
                rotate |-> "Rotate", rescale |-> "Rescale", mod_switch |-> "ModSwitch",
                relinearize |-> "Relinearize", boot |-> "Boot"],
   comm |-> [transfer |-> "Transfer", replicate |-> "Replicate"],
   hint |-> [auto |-> "Auto", point_to_point |-> "PointToPoint", broadcast |-> "Broadcast",
             tree |-> "Tree", ring |-> "Ring", host_staged |-> "HostStaged"],
   boot |-> [native |-> "Native", decrypt_reencrypt |-> "DecryptReencrypt"],
   rescale_mode |-> [eager |-> "Eager", lazy |-> "Lazy"]]

\* What each leaf reader accepts; "any" is a member read by an operator of its own.
LeafOk(type, v) ==
  CASE type = "nonnegative" -> IntOk(v, 0, IntMax)
    [] type = "positive"    -> IntOk(v, 1, IntMax)
    [] type = "bits"        -> IntOk(v, 1, 64)
    [] type = "int"         -> IntOk(v, -IntMax - 1, IntMax)
    [] type = "count"       -> SafeUintOk(v, 0, LongMax)
    [] type = "length"      -> SafeUintOk(v, 8, SafeMax) /\ v.uint % 8 = 0
    [] type = "number"      -> Is(v, "uint") \/ Is(v, "int") \/ Is(v, "float")
    [] type = "id"          -> IdOk(v)
    [] type = "sha"         -> Is(v, "sha")
    [] type = "string"      -> IsString(v) /\ v # [string |-> ""]
    [] type = "bool"        -> Is(v, "bool")
    [] type \in DOMAIN Enums -> Is(v, "string") /\ v.string \in DOMAIN Enums[type]
    [] type = "any"         -> TRUE

Id(v) == v.numeral.value
Enum(type, v) == Enums[type][v.string]

ObjectOk(v, shape) ==
  /\ HasMembers(v, DOMAIN shape, {})
  /\ \A m \in DOMAIN shape : LeafOk(shape[m], v.object[m])

ItemsOk(v, Ok(_)) == Is(v, "array") /\ \A k \in DOMAIN v.array : Ok(v.array[k])
Items(v, Read(_)) == [k \in DOMAIN v.array |-> Read(v.array[k])]

\* An object with a member that says which of some shapes it has.
Tagged(v, tag, names) ==
  /\ Is(v, "object") /\ tag \in DOMAIN v.object
  /\ Is(v.object[tag], "string") /\ v.object[tag].string \in names

Tag(v, tag) == v.object[tag].string
=============================================================================
