-------------------------------- MODULE Json --------------------------------
(***************************************************************************)
(* JSON documents built by calls (utils/Json.cpp), written out and read    *)
(* back by JsonReader.                                                     *)
(*                                                                         *)
(* The objects are cells of a heap: a JValue [type, val], a JArray [type,  *)
(* items] or a JSonObj [type, maps] that point to others; NULL is the null *)
(* pointer operator[] leaves under a key that was only looked up.  A       *)
(* scalar setter casts what it finds to JValue, and every call but         *)
(* setNull, set and remove dereferences it: callers know the type, so      *)
(* those are guards.  Strings and keys are sequences of lexemes, none of   *)
(* them a NUL.                                                             *)
(***************************************************************************)
EXTENDS JsonReader, FiniteSetsExt

CONSTANTS
  Scalars,       \* the values that are pushed and set: records [type, val]
  Keys,          \* key arguments
  MaxObjects,    \* bound on the heap
  MaxMembers,    \* bound on the keys of one object
  Alphabet,      \* lexemes of the texts that are read
  AnyLen,        \* texts up to this length are arbitrary
  MaxLen,        \* longer ones go on where the reader wants more
  MaxStr         \* lexemes between two quotes of a text

ASSUME JsonAssumption == MaxObjects > 0 /\ AnyLen <= MaxLen

VARIABLES
  heap,          \* the objects that exist
  lost,          \* ghost: objects under a key whose pointer was overwritten
  text           \* a text for the reader

jsonVars == <<heap, lost, text>>

NULL == 0

Root == 1

Array(objs) == [type |-> "array", items |-> objs]

Obj(map) == [type |-> "obj", maps |-> map]

IsContainer(node) == node.type \in {"array", "obj"}

Pointers(node) ==
  CASE node.type = "array" -> ToSet(node.items)
    [] node.type = "obj" -> {node.maps[k] : k \in DOMAIN node.maps} \ {NULL}
    [] OTHER -> {}

RECURSIVE Tree(_)

\* The object and everything below it: what its destructor deletes.
Tree(o) == {o} \cup UNION {Tree(c) : c \in Pointers(heap[o])}

RECURSIVE Document(_)

\* What the object says, as a value.
Document(o) ==
  LET node == heap[o]
  IN  CASE node.type = "array" -> Array([k \in 1..Len(node.items) |-> Document(node.items[k])])
        [] node.type = "obj" -> Obj([k \in DOMAIN node.maps |-> Document(node.maps[k])])
        [] OTHER -> node

JsonInit ==
  /\ \E node \in {Array(<< >>), Obj([k \in {} |-> NULL])} : heap = (Root :> node)
  /\ lost = {}
  /\ text = << >>

----------------------------------------------------------------------------
Fresh == Min(1 .. MaxObjects + 1 \ DOMAIN heap)

Room == Cardinality(DOMAIN heap) < MaxObjects

\* Fault: the container goes, its parts stay.
Deleted_Shallow(o) == [q \in DOMAIN heap \ {o} |-> heap[q]]

\* delete: the object and, through its destructor, all below it.
Deleted(o) == [q \in DOMAIN heap \ (IF o = NULL THEN {} ELSE Tree(o)) |-> heap[q]]

Become(h) == heap' = h /\ UNCHANGED <<lost, text>>

Containers(type) == {c \in Tree(Root) : heap[c].type = type}

NewNodes == Scalars \cup {Array(<< >>), Obj([k \in {} |-> NULL])}

----------------------------------------------------------------------------
\* JArray: pushInt .. pushNull, createArray, createObj.
pushBack(a, node) ==
  /\ Room
  /\ Become((Fresh :> node) @@ [heap EXCEPT ![a].items = Append(@, Fresh)])

\* JArray::setInt .. setBool.
setItem(a, idx, v) ==
  LET o == heap[a].items[idx]
  IN  /\ ~IsContainer(heap[o])
      /\ Become([heap EXCEPT ![o] = v])

\* Deleting a container for its null makes room for the new JValue first.
setItemNull(a, idx) ==
  LET o == heap[a].items[idx]
  IN  Become(IF IsContainer(heap[o]) THEN (o :> Scalar("null", 0)) @@ Deleted(o)
             ELSE [heap EXCEPT ![o] = Scalar("null", 0)])

\* remove, which does nothing one past the end.
removeItem(a, idx) ==
  IF idx > Len(heap[a].items) THEN UNCHANGED jsonVars
  ELSE Become([Deleted(heap[a].items[idx]) EXCEPT ![a].items = RemoveAt(@, idx)])

----------------------------------------------------------------------------
At(s, key) == IF key \in DOMAIN heap[s].maps THEN heap[s].maps[key] ELSE NULL

Point(h, s, key, o) == [h EXCEPT ![s].maps = (key :> o) @@ @]

\* JSonObj::setInt .. setBool.
setMember(s, key, v) ==
  LET o == At(s, key)
  IN  IF o = NULL THEN Room /\ Become((Fresh :> v) @@ Point(heap, s, key, Fresh))
      ELSE ~IsContainer(heap[o]) /\ Become([heap EXCEPT ![o] = v])

setMemberNull(s, key) ==
  LET o == At(s, key)
  IN  IF o = NULL
        THEN Room /\ Become((Fresh :> Scalar("null", 0)) @@ Point(heap, s, key, Fresh))
        ELSE Become(IF IsContainer(heap[o]) THEN (o :> Scalar("null", 0)) @@ Deleted(o)
                    ELSE [heap EXCEPT ![o] = Scalar("null", 0)])

removeMember(s, key) ==
  /\ key \in DOMAIN heap[s].maps
  /\ Become([Deleted(At(s, key)) EXCEPT ![s].maps = [k \in DOMAIN @ \ {key} |-> @[k]]])

\* createArray and createObj overwrite the pointer: what was there is lost.
createMember(s, key, node) ==
  LET o == At(s, key)
  IN  /\ Room
      /\ heap' = (Fresh :> node) @@ Point(heap, s, key, Fresh)
      /\ lost' = lost \cup (IF o = NULL THEN {} ELSE Tree(o))
      /\ UNCHANGED text

\* getJsonObj (operator[]) of a key that is not there leaves a null pointer.
getJsonObj(s, key) ==
  /\ key \notin DOMAIN heap[s].maps
  /\ Become(Point(heap, s, key, NULL))

----------------------------------------------------------------------------
Number == {"int", "float"}

\* The lexemes behind the quote that is open, or none.
OpenString ==
  LET quotes == {k \in DOMAIN text : text[k].tok = "q"}
  IN  IF Cardinality(quotes) % 2 = 0 THEN << >> ELSE From(text, Max(quotes) + 1)

\* Another lexeme of a text for the reader.
readMore(a) ==
  /\ heap = (Root :> Array(<< >>))
  /\ Len(text) < MaxLen
  /\ Len(text) < AnyLen \/ (parser(text).p > Len(text) /\ ~parser(text).thrown)
  /\ Len(OpenString) < MaxStr \/ a.tok = "q"
  /\ ~(a.tok \in Number /\ text # << >> /\ text[Len(text)].tok \in Number \cup {"-"})
  /\ text' = Append(text, a)
  /\ UNCHANGED <<heap, lost>>

ArrayNext ==
  \E a \in Containers("array") :
    \/ \E node \in NewNodes : pushBack(a, node)
    \/ \E idx \in 1..Len(heap[a].items) : setItemNull(a, idx) \/ \E v \in Scalars : setItem(a, idx, v)
    \/ \E idx \in 1 .. Len(heap[a].items) + 1 : removeItem(a, idx)

ObjNext ==
  \E s \in Containers("obj"), key \in Keys :
    /\ Cardinality(DOMAIN heap[s].maps \cup {key}) <= MaxMembers
    /\ \/ \E v \in Scalars : setMember(s, key, v)
       \/ \E node \in NewNodes \ Scalars : createMember(s, key, node)
       \/ setMemberNull(s, key) \/ removeMember(s, key) \/ getJsonObj(s, key)

JsonNext ==
  \/ text = << >> /\ (ArrayNext \/ ObjNext)
  \/ \E a \in Alphabet : readMore(a)

JsonSpec == JsonInit /\ [][JsonNext]_jsonVars

----------------------------------------------------------------------------
\* No two pointers lead to one object, none leads to a deleted one, and an
\* object no pointer leads to was overwritten by createArray or createObj:
\* the heap is one tree and what is lost.
HeapIsTree ==
  /\ \A o \in DOMAIN heap : Pointers(heap[o]) \subseteq DOMAIN heap \ {Root}
  /\ \A o, q \in DOMAIN heap : o # q => Pointers(heap[o]) \cap Pointers(heap[q]) = {}
  /\ \A o \in DOMAIN heap : heap[o].type = "array" => IsInjective(heap[o].items)
  /\ DOMAIN heap = Tree(Root) \cup lost /\ Tree(Root) \cap lost = {}

Strings == {heap[o].val : o \in {q \in Tree(Root) : heap[q].type = "string"}}
           \cup UNION {DOMAIN heap[o].maps : o \in Containers("obj")}

NoQuotes == \A string \in Strings : P("q") \notin ToSet(string)

\* What the document holds can be told by its text.
Sayable(layout) ==
  /\ NoQuotes /\ << >> \notin Strings
  /\ \A o \in Tree(Root) :
       /\ heap[o].type = "float" => heap[o].val # INF
       /\ layout => heap[o] # Array(<< >>) /\ heap[o] # Obj([k \in {} |-> NULL])

RECURSIVE Rounded(_)

\* The document with its floats as to_string prints them.
Rounded(d) ==
  CASE d.type = "array" -> Array([k \in 1..Len(d.items) |-> Rounded(d.items[k])])
    [] d.type = "obj" -> Obj([k \in DOMAIN d.maps |-> Rounded(d.maps[k])])
    [] d.type = "float" -> Scalar("float", d.val - (d.val % 2))
    [] OTHER -> d

\* A document without null pointers, written and read again, is the same
\* document, floats rounded, exactly when it has no empty string or key, no
\* quote in one, no infinity and, with layout, no empty container.
\* Otherwise it is refused, except that a quote, which nothing escapes
\* (Json.cpp:89, 365), may make it another document.
ReadsBack ==
  (\A s \in Containers("obj") : NULL \notin {heap[s].maps[k] : k \in DOMAIN heap[s].maps}) =>
    \A layout \in BOOLEAN :
      LET r == parser(write(Document(Root), layout, 0))
      IN  /\ ~r.thrown
          /\ (r.ok /\ r.doc = Rounded(Document(Root))) = Sayable(layout)
          /\ NoQuotes => r.ok = Sayable(layout)

Small(t) == [k \in DOMAIN t |-> IF t[k].val = HUGE THEN Lex(t[k].tok, 1) ELSE t[k]]

\* The reader accepts the language IsText states and no other text, and a text
\* whose only fault is a number out of range ends it with an exception.
AcceptsTexts ==
  LET r == parser(text)
  IN  /\ r.ok = IsText(text)
      /\ IsText(Small(text)) /\ ~IsText(text) => r.thrown
      /\ r.thrown => Small(text) # text

\* Documents, the writer and the reader fit together.
JsonSound == HeapIsTree /\ ReadsBack /\ AcceptsTexts
=============================================================================
