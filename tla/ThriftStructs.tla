---------------------------- MODULE ThriftStructs ----------------------------
(***************************************************************************)
(* The structs of the generated code and their form on the wire.  Every    *)
(* class in gen-py has the same read() and write() but for its fields, so  *)
(* a class is its set of fields and the two methods are operators on it.   *)
(*                                                                         *)
(* An object is a function from the names of the fields that are not None. *)
(* On the wire each field has a number and a TType; the kinds of the       *)
(* elements of a map or list are known to both ends.                       *)
(***************************************************************************)
EXTENDS Integers

CONSTANTS
  I32,     \* the integers that fit 32 bits
  Texts    \* the strings write() can encode: in Python 2, the ASCII ones

Int32 == [ttype |-> "I32"]
Bool  == [ttype |-> "BOOL"]
Text  == [ttype |-> "STRING"]
Clock == [ttype |-> "MAP", key |-> Int32, value |-> Int32]
TextMap == [ttype |-> "MAP", key |-> Text, value |-> Text]
ListOf(type) == [ttype |-> "LIST", elem |-> type]
Struct(fields) == [ttype |-> "STRUCT", fields |-> fields]

Field(id, type, name) == [id |-> id, type |-> type, name |-> name]

(* A *_result: the value of the call is the field 0. *)
Success(type) == {Field(0, type, "success")}

NoFields == {}

-----------------------------------------------------------------------------
(***************************************************************************)
(* write() of a generated class: each field that is not None, under its    *)
(* number.  A struct within a struct has plain fields only.                *)
(***************************************************************************)
HoldsTrue(obj, f) ==   \* mutant: "if self.success" for "if self.success is not None"
  /\ f.name \in DOMAIN obj
  /\ CASE f.type.ttype = "BOOL" -> obj[f.name]
       [] f.type.ttype = "MAP" -> DOMAIN obj[f.name] # {}
       [] OTHER -> TRUE

Written(obj, f) == f.name \in DOMAIN obj

WriteFlat(fields, obj) ==
  LET sent == {f \in fields : Written(obj, f)}
      Numbered(i) == CHOOSE f \in sent : f.id = i
  IN  [i \in {f.id : f \in sent} |->
         [ttype |-> Numbered(i).type.ttype, body |-> obj[Numbered(i).name]]]

TypeOf(fields, name) == (CHOOSE f \in fields : f.name = name).type

WriteNested(type, v) == IF type.ttype = "STRUCT" THEN WriteFlat(type.fields, v) ELSE v

WriteStruct(fields, obj) ==
  WriteFlat(fields, [n \in DOMAIN obj |-> WriteNested(TypeOf(fields, n), obj[n])])

(***************************************************************************)
(* read(): a field of known number and type is taken, any other skipped,   *)
(* and what did not come stays None.                                       *)
(***************************************************************************)
ReadFlat(fields, wire) ==
  LET got == {f \in fields : f.id \in DOMAIN wire /\ wire[f.id].ttype = f.type.ttype}
      Named(n) == CHOOSE f \in got : f.name = n
  IN  [n \in {f.name : f \in got} |-> wire[Named(n).id].body]

ReadNested(type, b) == IF type.ttype = "STRUCT" THEN ReadFlat(type.fields, b) ELSE b

ReadStruct(fields, wire) ==
  LET flat == ReadFlat(fields, wire)
  IN  [n \in DOMAIN flat |-> ReadNested(TypeOf(fields, n), flat[n])]

-----------------------------------------------------------------------------
(***************************************************************************)
(* What makes write() raise: writeI32 of an integer past 32 bits, encode() *)
(* of a str that is not ASCII, anywhere in the value.                      *)
(***************************************************************************)
BasicFits(type, v) ==
  CASE type.ttype = "I32"    -> v \in I32
    [] type.ttype = "STRING" -> v \in Texts
    [] OTHER -> TRUE

MapFits(type, v) ==
  \A k \in DOMAIN v : BasicFits(type.key, k) /\ BasicFits(type.value, v[k])

ValueFits(type, v) ==
  CASE type.ttype = "MAP"  -> MapFits(type, v)
    [] type.ttype = "LIST" -> \A i \in DOMAIN v : MapFits(type.elem, v[i])
    [] OTHER -> BasicFits(type, v)

FlatFits(fields, obj) ==
  \A f \in fields : f.name \in DOMAIN obj => ValueFits(f.type, obj[f.name])

NestedFits(type, v) ==
  IF type.ttype = "STRUCT" THEN FlatFits(type.fields, v) ELSE ValueFits(type, v)

CanWrite(fields, obj) ==
  \A f \in fields : f.name \in DOMAIN obj => NestedFits(f.type, obj[f.name])

-----------------------------------------------------------------------------
(***************************************************************************)
(* What the callers and handlers of this system give to write(): an object *)
(* of the class, with an object of its class wherever a struct is due.     *)
(***************************************************************************)
IsFlatObject(fields, obj) ==
  /\ obj = [n \in DOMAIN obj |-> obj[n]]
  /\ DOMAIN obj \subseteq {f.name : f \in fields}

IsObject(fields, obj) ==
  /\ IsFlatObject(fields, obj)
  /\ \A n \in DOMAIN obj :
       TypeOf(fields, n).ttype = "STRUCT" => IsFlatObject(TypeOf(fields, n).fields, obj[n])
=============================================================================
