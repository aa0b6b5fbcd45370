------------------------------ MODULE Materializer ------------------------------
(***************************************************************************)
(* One npm candidate made real in a sandbox                                *)
(* (services/npm-validation-materializer.ts): the trusted archive is       *)
(* inspected entry by entry, uploaded and extracted; one dependency of     *)
(* package.json is set or removed; npm writes the lock file; and the       *)
(* result is accepted only if nothing else has changed.                    *)
(*                                                                         *)
(* Abstractions.  A name is what its split at the slashes gives, so one    *)
(* that ends in a slash ends in an empty segment; a size is a small number,*)
(* a manifest the version of each package, a file its content.  The type   *)
(* "0" stands for all three of a regular file.  tar and npm are external:  *)
(* tar names and makes an entry as GNU tar does, npm may do anything to    *)
(* the workspace.  A header with a bad magic, checksum, number or text is  *)
(* one that is not sound.                                                  *)
(***************************************************************************)
EXTENDS Integers, Sequences, FiniteSets

CONSTANTS
  Headers,         \* the headers an archive may hold
  MaxHeaders,      \* bound on their number
  MaxEntries, MaxFile, MaxBytes,   \* maximumArchiveEntries and the two sizes
  Packages, Versions,
  Operation,       \* [package |-> p, version |-> v], None to remove it
  None

(* type is the type flag; size and path may be missing in a pax header.    *)
Header == [type : {"0", "5", "x", "g", "L", "K", "2"}, sound : BOOLEAN,
           path : Seq(STRING) \union {None}, size : Nat \union {None}, link : BOOLEAN]

(* Any other header has a name and a size; a segment is never None.        *)
MaterializerAssumption ==
  /\ Headers \subseteq Header /\ None \notin Headers
  /\ None \notin {"invalid_archive", "unsupported_source", "archive_limits_exceeded"}
  /\ \A h \in Headers :
       /\ h.type \notin {"x", "g"} => h.path # None /\ h.size # None
       /\ h.path # None => \A i \in DOMAIN h.path : h.path[i] # None
  /\ {MaxHeaders, MaxEntries, MaxFile, MaxBytes} \subseteq Nat
  /\ Operation.package \in Packages /\ Operation.version \in Versions \union {None}

VARIABLES
  archive,         \* the headers read so far
  pending,         \* pendingPath and pendingPax
  paths,           \* kind of each path, from the root directory
  root, bytes,     \* rootDirectory and extractedBytes
  step,            \* the step of materialize
  uploaded,        \* is the uploaded archive the trusted one?
  tree,            \* content of each file of the workspace
  baseline,        \* what inventorySource wrote
  original         \* the manifest as it was

inspection == <<archive, pending, paths, root, bytes>>
sandbox == <<uploaded, tree, baseline, original>>
vars == <<inspection, step, sandbox>>

NoPending == [path |-> None, pax |-> None]
Manifest == <<"package.json">>
Lock == <<"package-lock.json">>
NoFiles == [p \in {} |-> None]

Init ==
  /\ archive = <<>> /\ pending = NoPending
  /\ paths = NoFiles /\ root = None /\ bytes = 0
  /\ step = "start"
  /\ uploaded = FALSE /\ tree = NoFiles /\ baseline = None /\ original = None

(* NpmDependencyOperation: set a version or remove the package.            *)
NpmDependencyOperation == [package : Packages, version : Versions \union {None}]

Fail(code) == step' = code

-----------------------------------------------------------------------------
(* What is handed to materialize has to be small enough and to have the    *)
(* digest that is trusted.                                                 *)
Start(next) ==
  /\ step = "start"
  /\ next \in {"inspect", "archive_too_large", "archive_digest_mismatch"}
  /\ Fail(next)
  /\ UNCHANGED <<inspection, sandbox>>

(* normalizeArchivePath: a slash at the end is dropped.                    *)
EndsInSlash(name) == Len(name) > 0 /\ name[Len(name)] = ""

Normalized(name) == IF EndsInSlash(name) THEN SubSeq(name, 1, Len(name) - 1) ELSE name

Escapes(path) ==
  \/ path = <<>>
  \/ \E i \in DOMAIN path : path[i] \in {"", ".", ".."}

Relative(path) == Tail(path)

Unsupported(path) ==
  \/ \E i \in DOMAIN Relative(path) : Relative(path)[i] \in {".git", "node_modules"}
  \/ Relative(path) = <<"npm-shrinkwrap.json">>
  \/ Len(path) > 1 /\ path[Len(path)] = ".npmrc"

Read(h) == /\ step = "inspect"
           /\ Len(archive) < MaxHeaders
           /\ archive' = Append(archive, h)
           /\ UNCHANGED sandbox

(* BoundedByteReader: the archive ends before its two zero blocks, is no   *)
(* gzip, or expands to more than the reader takes.                         *)
ReaderFails(code) ==
  /\ step = "inspect"
  /\ code \in {"invalid_archive", "archive_limits_exceeded"}
  /\ Fail(code)
  /\ UNCHANGED <<inspection, sandbox>>

(* A header that cannot be read, a link or a device, or a global pax header*)
(* that names what it applies to.                                          *)
Rejected(h) ==
  \/ ~h.sound
  \/ h.type \in {"K", "2"}
  \/ h.type = "g" /\ (h.path # None \/ h.size # None \/ h.link)

RejectHeader(h) ==
  /\ Read(h)
  /\ Rejected(h)
  /\ Fail("invalid_archive")
  /\ UNCHANGED <<pending, paths, root, bytes>>

(* An extended header names the next entry; a second one is refused.       *)
ExtendedHeader(h) ==
  /\ Read(h)
  /\ ~Rejected(h)
  /\ h.type \in {"x", "g", "L"}
  /\ IF h.type = "x" /\ pending.pax # None THEN Fail("invalid_archive") /\ UNCHANGED pending
     ELSE IF h.type = "L" /\ pending.path # None
          THEN Fail("archive_limits_exceeded") /\ UNCHANGED pending
     ELSE /\ pending' = CASE h.type = "x" -> [pending EXCEPT !.pax = h]
                          [] h.type = "L" -> [pending EXCEPT !.path = h.path]
                          [] h.type = "g" -> pending
          /\ UNCHANGED step
  /\ UNCHANGED <<paths, root, bytes>>

NameKeptPath(h) ==
  IF pending.path # None THEN pending.path ELSE h.path

(* The name and the size of an entry: of its pax header first.             *)
NameOf(h) ==
  IF pending.pax # None /\ pending.pax.path # None THEN pending.pax.path
  ELSE IF pending.path # None THEN pending.path
  ELSE h.path

SizeOf(h) ==
  IF pending.pax # None /\ pending.pax.size # None THEN pending.pax.size ELSE h.size

(* The first reason to refuse an entry.                                    *)
EntryRefusal(h) ==
  LET path == Normalized(NameOf(h)) IN
  IF pending.pax # None /\ pending.pax.link THEN "invalid_archive"
  ELSE IF Escapes(path) THEN "invalid_archive"
  ELSE IF Unsupported(path) THEN "unsupported_source"
  ELSE IF root # None /\ path[1] # root THEN "invalid_archive"
  ELSE IF h.type = "5" /\ SizeOf(h) # 0 THEN "invalid_archive"
  ELSE IF h.type = "0" /\ (SizeOf(h) > MaxFile \/ bytes + SizeOf(h) > MaxBytes)
       THEN "archive_limits_exceeded"
  ELSE IF Relative(path) \in DOMAIN paths THEN "invalid_archive"
  ELSE IF Relative(path) # <<>> /\ Cardinality(DOMAIN paths) >= MaxEntries
       THEN "archive_limits_exceeded"
  ELSE None

Entry(h) ==
  /\ Read(h)
  /\ ~Rejected(h)
  /\ h.type \in {"0", "5"}
  /\ IF EntryRefusal(h) # None
     THEN Fail(EntryRefusal(h)) /\ UNCHANGED <<pending, paths, root, bytes>>
     ELSE LET path == Relative(Normalized(NameOf(h))) IN
          /\ pending' = NoPending
          /\ root' = Normalized(NameOf(h))[1]
          /\ bytes' = IF h.type = "0" THEN bytes + SizeOf(h) ELSE bytes
          /\ paths' = IF path = <<>> THEN paths
                      ELSE [p \in DOMAIN paths \union {path} |->
                              IF p = path THEN h.type ELSE paths[p]]
          /\ UNCHANGED step

FileAsParent ==
  \E p, q \in DOMAIN paths :
    paths[p] = "0" /\ Len(p) < Len(q) /\ p = SubSeq(q, 1, Len(p))

(* The two zero blocks, and what materialize asks of the inspection.       *)
EndOfArchive ==
  /\ step = "inspect"
  /\ step' = IF root = None \/ pending # NoPending \/ FileAsParent THEN "invalid_archive"
             ELSE IF Manifest \notin DOMAIN paths THEN "unsupported_source"
             ELSE IF paths[Manifest] # "0" THEN "unsupported_source"
             ELSE "upload"
  /\ UNCHANGED <<inspection, sandbox>>

-----------------------------------------------------------------------------
(* A command times out, exits with an error or says too much; a transfer   *)
(* fails.                                                                  *)
CommandFails ==
  /\ step \in {"upload", "extract", "parse", "inventory", "mutate", "lock", "verify", "download"}
  /\ Fail("sandbox_command_failed")
  /\ UNCHANGED <<inspection, sandbox>>

(* uploadFile, and the download that checks it: faithful, the bytes are    *)
(* those the digest is of.                                                 *)
Upload(faithful) ==
  /\ step = "upload"
  /\ uploaded' = faithful
  /\ IF faithful THEN step' = "extract" ELSE Fail("archive_digest_mismatch")
  /\ UNCHANGED <<inspection, tree, baseline, original>>

Manifests == [Packages -> Versions \union {None}]
Contents == {"as archived", "changed"}

(* What GNU tar makes of the headers: the name of each of its entries, and *)
(* a directory of one whose name ends in a slash, a regular file's too.    *)
Contained(i) == archive[i].type \in {"0", "5"}
Extending(i) == {j \in 1..i - 1 : \A k \in j..i - 1 : ~Contained(k)}
NameGiven(i) ==
  LET pax == {j \in Extending(i) : archive[j].type = "x" /\ archive[j].path # None}
      long == {j \in Extending(i) : archive[j].type = "L"}
  IN  IF pax # {} THEN archive[CHOOSE j \in pax : TRUE].path
      ELSE IF long # {} THEN archive[CHOOSE j \in long : TRUE].path
      ELSE archive[i].path

PathGiven(i) == Normalized(NameGiven(i))
MakesFile(i) == archive[i].type = "0" /\ ~EndsInSlash(NameGiven(i))

(* tar with --strip-components=1: no name is left of the root directory.   *)
FilesExtracted ==
  {q \in {PathGiven(i) : i \in {j \in DOMAIN archive : MakesFile(j)}} : Len(q) > 1}
DirectoriesMade ==
  {PathGiven(i) : i \in {j \in DOMAIN archive : Contained(j) /\ ~MakesFile(j)}}

SourceFiles == {Relative(q) : q \in FilesExtracted}

Extract(manifest) ==
  /\ step = "extract"
  /\ tree' = [p \in SourceFiles |-> IF p = Manifest THEN manifest ELSE "as archived"]
  /\ step' = "parse"
  /\ UNCHANGED <<inspection, uploaded, baseline, original>>

(* parseAndValidatePackageJson: supported, no workspaces, overrides or     *)
(* bundles, npm its manager, and versions a registry serves.  The download *)
(* of a manifest that is a directory fails.                                *)
ParseManifest(supported) ==
  /\ step = "parse" /\ Manifest \in DOMAIN tree
  /\ original' = tree[Manifest]
  /\ IF supported THEN step' = "inventory" ELSE Fail("unsupported_source")
  /\ UNCHANGED <<inspection, uploaded, tree, baseline>>

(* inventorySource: every file, with its content.                          *)
Inventory == tree

TakeInventory ==
  /\ step = "inventory"
  /\ baseline' = Inventory
  /\ step' = "mutate"
  /\ UNCHANGED <<inspection, uploaded, tree, original>>

(* dependencyMutationSource.                                               *)
Operated(manifest) == [manifest EXCEPT ![Operation.package] = Operation.version]

Mutate ==
  /\ step = "mutate"
  /\ tree' = [tree EXCEPT ![Manifest] = Operated(@)]
  /\ step' = "lock"
  /\ UNCHANGED <<inspection, uploaded, baseline, original>>

(* npm install --package-lock-only: any manifest, any lock, and maybe      *)
(* another file changed, added or removed.                                 *)
NpmLock(manifest, locked, others) ==
  /\ step = "lock"
  /\ tree' = [p \in {Manifest, Lock} \union others |->
                IF p = Manifest THEN manifest ELSE IF p = Lock THEN locked
                ELSE "changed"]
  /\ step' = "verify"
  /\ UNCHANGED <<inspection, uploaded, baseline, original>>

NpmLockOnly(manifest, locked) ==
  /\ step = "lock"
  /\ tree' = [p \in DOMAIN tree \union {Lock} |->
                IF p = Manifest THEN manifest ELSE IF p = Lock THEN locked ELSE tree[p]]
  /\ step' = "verify"
  /\ UNCHANGED <<inspection, uploaded, baseline, original>>

UnexpectedNew ==
  {p \in DOMAIN tree \ {Manifest, Lock} : p \in DOMAIN baseline => tree[p] # baseline[p]}

(* verificationSource: what differs from the inventory but must not.       *)
Unexpected ==
  {p \in (DOMAIN tree \union DOMAIN baseline) \ {Manifest, Lock} :
     \/ p \notin DOMAIN tree
     \/ p \notin DOMAIN baseline
     \/ tree[p] # baseline[p]}

VerifyTree ==
  /\ step = "verify"
  /\ IF Unexpected = {} THEN step' = "download" ELSE Fail("unexpected_workspace_change")
  /\ UNCHANGED <<inspection, sandbox>>

(* verifyPackageJsonOperation and verifyPackageLock.                       *)
AsOperated ==
  /\ tree[Manifest][Operation.package] = Operation.version
  /\ \A p \in Packages \ {Operation.package} : tree[Manifest][p] = original[p]
  /\ tree[Lock] = [sound |-> TRUE, version |-> Operation.version]

Download ==
  /\ step = "download"
  /\ IF AsOperated THEN step' = "materialized" ELSE Fail("invalid_materialized_output")
  /\ UNCHANGED <<inspection, sandbox>>

Locks == [sound : BOOLEAN, version : Versions \union {None}]

Next ==
  \/ \E h \in Headers : RejectHeader(h) \/ ExtendedHeader(h) \/ Entry(h)
  \/ \E s \in {"inspect", "archive_too_large", "archive_digest_mismatch"} : Start(s)
  \/ \E code \in {"invalid_archive", "archive_limits_exceeded"} : ReaderFails(code)
  \/ EndOfArchive \/ CommandFails
  \/ \E b \in BOOLEAN : Upload(b) \/ ParseManifest(b)
  \/ \E m \in Manifests : Extract(m)
  \/ TakeInventory \/ Mutate \/ VerifyTree \/ Download
  \/ \E m \in Manifests, l \in Locks :
       NpmLockOnly(m, l) \/ \E others \in SUBSET (DOMAIN tree \union {<<"added">>}) :
                              NpmLock(m, l, others \ {Manifest, Lock})

Spec == Init /\ [][Next]_vars

-----------------------------------------------------------------------------
(* Every variable has its type.                                            *)
TypeOK ==
  /\ Len(archive) <= MaxHeaders
  /\ bytes \in 0..MaxBytes
  /\ Cardinality(DOMAIN paths) <= MaxEntries
  /\ \A p \in DOMAIN paths : paths[p] \in {"0", "5"}
  /\ uploaded \in BOOLEAN

(* What tar writes is what was inspected: every file it writes was         *)
(* inspected as one, and of what was inspected as a file it makes nothing  *)
(* else but a directory, of a name that ends in a slash; all of it under   *)
(* one root that it strips, nothing below a file, and no file npm would    *)
(* obey, whichever headers name the entries (inspectTrustedTarGzipArchive, *)
(* normalizeArchivePath).                                                  *)
InspectedIsExtracted ==
  step = "extract" =>
    /\ SourceFiles \subseteq {p \in DOMAIN paths : paths[p] = "0"}
    /\ \A p \in DOMAIN paths \ SourceFiles :
         paths[p] = "0" => \E q \in DirectoriesMade : p = Relative(q)
    /\ \A q \in FilesExtracted \union DirectoriesMade :
         ~Escapes(q) /\ ~Unsupported(q) /\ q[1] = root
    /\ ~FileAsParent

(* A result is handed over only of the trusted archive, with the one       *)
(* dependency changed in the manifest and in the lock, the files tar wrote *)
(* and no others, and each of the others as it was written, whatever npm   *)
(* did (materialize).                                                      *)
OnlyTheOperation ==
  step = "materialized" =>
    /\ uploaded
    /\ tree[Manifest] = [original EXCEPT ![Operation.package] = Operation.version]
    /\ tree[Lock].sound /\ tree[Lock].version = Operation.version
    /\ DOMAIN tree \ {Manifest, Lock} = SourceFiles \ {Manifest, Lock}
    /\ \A p \in SourceFiles \ {Manifest, Lock} : tree[p] = "as archived"
=============================================================================
