--------------------------- MODULE ProtoRegistry ---------------------------
(***************************************************************************)
(* Protolua's schema registry (protolua/parse.cpp, protolua.cpp): the      *)
(* importer with the files it has read, the enums it puts into the Lua     *)
(* globals, the factory's prototypes, and proto.reload.                    *)
(*                                                                         *)
(* A file's content is [ok, enums]: whether it imports, and its enums with *)
(* their values, one number standing for an enum's table.  The descriptors *)
(* of one file are one block of memory, allocated when an importer reads   *)
(* it and freed with the importer; the factory finds a prototype by the    *)
(* descriptor's address alone.                                             *)
(***************************************************************************)
EXTENDS ProtoCodec

CONSTANTS
  File,          \* file names
  Imports,       \* file -> the files it imports, in order
  Enum,          \* enum names, which become global names
  Contents,      \* what a file may contain
  Address,       \* addresses for the descriptors of a file
  MaxEdits,      \* bound on edits of files and globals
  MaxReloads     \* bound on reloads

ASSUME RegistryAssumption ==
  /\ \A f \in File : Imports[f] \in Seq(File)
  /\ Cardinality(Address) >= 2 * Cardinality(File) \* two importers live at once

VARIABLES
  disk,          \* file -> content
  pool,          \* g_importer: the files it read, with what it read
  where,         \* the files g_importer read -> where their descriptors are
  late,          \* ghost: those of them that parse read, not the last reload
  prototypes,    \* g_factory: address -> the descriptor it made a prototype for
  g_parsedFiles, \* g_parsedFiles
  g_parsedEnums, \* g_parsedEnums
  globals,       \* the Lua globals: enum -> value, 0 for nil, SCRIPT for the script's
  importers,     \* ghost: how many importers there have been
  edits          \* bound: edits so far

registryVars ==
  <<disk, pool, where, late, prototypes, g_parsedFiles, g_parsedEnums, globals, importers, edits>>

NIL == 0

SCRIPT == -1

RegistryInit ==
  /\ disk \in [File -> Contents]
  /\ pool = [f \in {} |-> 0]
  /\ where = [f \in {} |-> 0] /\ late = {}
  /\ prototypes = [a \in {} |-> 0]
  /\ g_parsedFiles = {} /\ g_parsedEnums = {}
  /\ globals = [e \in Enum |-> NIL]
  /\ importers = 1 /\ edits = 0

----------------------------------------------------------------------------
RECURSIVE Needed(_)

\* Importer::Import (external): a file it has read stays as it was read; one
\* that fails, or imports one that fails, is not kept, but the imports of a
\* file that can be parsed are.
Needed(f) == {f} \cup UNION {Needed(g) : g \in ToSet(Imports[f])}

Importable(read, f) == \A g \in Needed(f) \ DOMAIN read : disk[g].ok

RECURSIVE Reached(_, _)

Reached(read, f) ==
  {f} \cup (IF f \notin DOMAIN read /\ ~disk[f].ok THEN {}
            ELSE UNION {Reached(read, g) : g \in ToSet(Imports[f])})

Import(read, f) == read @@ [g \in {g \in Reached(read, f) : Importable(read, g)} |-> disk[g]]

\* New descriptors go where nothing lives.
Placements(files) == {at \in [files -> Address \ Range(where)] : IsInjective(at)}

RECURSIVE parse_file(_, _, _)

\* The imports first, then parse_enum for the file's own enums, those inside
\* its messages too: a global that is there is left alone.
parse_file(glob, read, f) ==
  LET deps == FoldLeft(LAMBDA g, dep : parse_file(g, read, dep), glob, Imports[f])
      own == read[f].enums
  IN  [e \in Enum |-> IF deps[e] = NIL /\ e \in DOMAIN own THEN own[e] ELSE deps[e]]

\* The enums that parse_file sets.
Defines(glob, read, f) == {e \in Enum : glob[e] = NIL /\ parse_file(glob, read, f)[e] # NIL}

\* proto.parse(f)
parse(f) ==
  /\ LET read == Import(pool, f)
         new == DOMAIN read \ DOMAIN pool
     IN  /\ pool' = read
         /\ \E at \in Placements(new) : where' = where @@ at
         /\ late' = late \cup new
         /\ IF Importable(pool, f)
              THEN /\ globals' = parse_file(globals, read, f)
                   /\ g_parsedEnums' = g_parsedEnums \cup Defines(globals, read, f)
                   /\ g_parsedFiles' = g_parsedFiles \cup {f}
              ELSE UNCHANGED <<globals, g_parsedEnums, g_parsedFiles>>
  /\ UNCHANGED <<disk, prototypes, importers, edits>>

\* The files a new importer reads, g_parsedFiles in turn.
Reread == FoldSet(LAMBDA f, read : Import(read, f), [f \in {} |-> 0], g_parsedFiles)

\* The globals after every file was parsed again, and the enums that were set.
Reparsed(read, glob) ==
  FoldSeq(LAMBDA f, acc : [globals |-> parse_file(acc.globals, read, f),
                           enums   |-> acc.enums \cup Defines(acc.globals, read, f)],
          [globals |-> glob, enums |-> {}], SetToSortSeq(g_parsedFiles, <))

\* Fault: the enums are parsed again but not cleared first.
reload_KeepsEnums ==
  /\ importers <= MaxReloads
  /\ IF \A f \in g_parsedFiles : Importable([g \in {} |-> 0], f)
       THEN LET read == Reread
                parsed == Reparsed(read, globals)
            IN  /\ pool' = read
                /\ where' \in Placements(DOMAIN read) /\ late' = {}
                /\ importers' = importers + 1
                /\ globals' = parsed.globals
                /\ g_parsedEnums' = g_parsedEnums \cup parsed.enums
       ELSE UNCHANGED <<pool, where, late, importers, globals, g_parsedEnums>>
  /\ UNCHANGED <<disk, prototypes, g_parsedFiles, edits>>

\* proto.reload(): the new importer is built while the old one still has its
\* memory, so its descriptors are elsewhere; then every enum protolua ever
\* set is cleared.  One file that does not import and nothing changes.
reload ==
  /\ importers <= MaxReloads
  /\ IF \A f \in g_parsedFiles : Importable([g \in {} |-> 0], f)
       THEN LET read == Reread
                cleared == [e \in Enum |-> IF e \in g_parsedEnums THEN NIL ELSE globals[e]]
                parsed == Reparsed(read, cleared)
            IN  /\ pool' = read
                /\ where' \in Placements(DOMAIN read) /\ late' = {}
                /\ importers' = importers + 1
                /\ globals' = parsed.globals
                /\ g_parsedEnums' = g_parsedEnums \cup parsed.enums
       ELSE UNCHANGED <<pool, where, late, importers, globals, g_parsedEnums>>
  /\ UNCHANGED <<disk, prototypes, g_parsedFiles, edits>>

Descriptor(f) == [importer |-> importers, file |-> f]

\* proto_create, _encode, _decode, _pack, _unpack find the descriptor and ask
\* the factory for its prototype, which it makes once per address.
getPrototype(f) ==
  /\ f \in DOMAIN pool
  /\ prototypes' = prototypes @@ (where[f] :> Descriptor(f))
  /\ UNCHANGED <<disk, pool, where, late, g_parsedFiles, g_parsedEnums, globals, importers, edits>>

\* Someone edits a file, or the script sets a global.
edit(f, c) ==
  /\ edits < MaxEdits
  /\ edits' = edits + 1
  /\ disk' = [disk EXCEPT ![f] = c]
  /\ UNCHANGED <<pool, where, late, prototypes, g_parsedFiles, g_parsedEnums, globals, importers>>

setGlobal(e) ==
  /\ edits < MaxEdits
  /\ edits' = edits + 1
  /\ globals' = [globals EXCEPT ![e] = SCRIPT]
  /\ UNCHANGED <<disk, pool, where, late, prototypes, g_parsedFiles, g_parsedEnums, importers>>

RegistryNext ==
  \/ \E f \in File : parse(f) \/ getPrototype(f) \/ \E c \in Contents : edit(f, c)
  \/ \E e \in Enum : setGlobal(e)
  \/ reload

RegistrySpec == RegistryInit /\ [][RegistryNext]_registryVars

----------------------------------------------------------------------------
\* An enum in the globals is the script's, or is one of the enums the importer
\* has read: also after a reload changed or dropped it, and after a reload or
\* a parse that failed.
EnumsCurrent ==
  \A e \in Enum : globals[e] \in {NIL, SCRIPT} \cup
    {pool[f].enums[e] : f \in {g \in DOMAIN pool : e \in DOMAIN pool[g].enums}}

\* Every file that was parsed is in the importer, with what it imports.
FilesKept == \A f \in g_parsedFiles : Needed(f) \subseteq DOMAIN pool

\* The factory's prototypes outlive the importer, so a message type may be
\* given the prototype of a freed descriptor.  For a file the reload read, that
\* takes two reloads: the descriptors of the importer before it still lived then.
\* For a file parsed after the reload it takes only the one (parse.cpp:84, 149).
StaleExplained ==
  \A f \in DOMAIN pool :
    where[f] \in DOMAIN prototypes =>
      LET made == prototypes[where[f]]
      IN  \/ made = Descriptor(f)
          \/ made.importer <= importers - (IF f \in late THEN 1 ELSE 2)

\* Protolua's codec and its registry.
ProtoSound == CodecSound /\ EnumsCurrent /\ FilesKept /\ StaleExplained
=============================================================================
