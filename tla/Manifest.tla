------------------------------ MODULE Manifest ------------------------------
(***************************************************************************)
(* The generated project as the agents and the validator hand it around:   *)
(* models/domain.py (FileEntry, ProjectManifest, Delta, FixerDelta),       *)
(* utils/patch_utils.py (apply_delta) and the three pure helpers of        *)
(* validation/feedback_controller.py that read a manifest.                 *)
(*                                                                         *)
(* project_name and base_package travel together through every delta, so   *)
(* one value of Name stands for the pair; NoName is the empty string, which *)
(* a delta uses for "keep what you have".  A file's place in the manifest's *)
(* list matters to one reader only (_pom_changed takes the first file whose *)
(* path ends in pom.xml), so a file carries its position instead of the    *)
(* manifest being a list.  Deltas are normalised: no path is written twice. *)
(***************************************************************************)
EXTENDS Integers, Sequences

CONSTANTS
    Path,        \* the file paths an agent may write
    RootPom,     \* the path "pom.xml"
    PomPath,     \* the paths that end in "pom.xml", RootPom among them
    DomainPath,  \* the .java paths under a /domain/ directory
    Content,     \* file contents
    Empty,       \* the empty content
    Name,        \* project identities
    NoName,      \* the empty project identity
    Absent       \* no file at this path

ASSUME ManifestAssumption ==
    /\ RootPom \in PomPath /\ PomPath \subseteq Path
    /\ DomainPath \subseteq Path
    /\ Empty \in Content
    /\ NoName \in Name
    /\ Absent \notin [content : Content, pos : Nat]

File == [content : Content, pos : Nat]

\* files[p] is the entry at path p; every position is below end.
ProjectManifest ==
    [name : Name, files : [Path -> File \cup {Absent}], end : Nat]

Delta ==
    { d \in [name    : Name,
             changed : Seq([path : Path, content : Content]),
             deleted : SUBSET Path] :
        \A i, j \in DOMAIN d.changed :
            d.changed[i].path = d.changed[j].path => i = j }

\* FixerDelta._require_file_operation: at least one file operation.
IsFixerDelta(d) == d.changed # <<>> \/ d.deleted # {}

Paths(m) == {p \in Path : m.files[p] # Absent}

\* file_map(), as dict equality compares it: by path, whatever the order.
FileMap(m) == [p \in Path |-> IF p \in Paths(m) THEN m.files[p].content ELSE Absent]

Written(d) == {d.changed[i].path : i \in DOMAIN d.changed}

\* Where delta d lists path p among its changed files.
EntryOf(d, p) == CHOOSE i \in DOMAIN d.changed : d.changed[i].path = p

-----------------------------------------------------------------------------
\* apply_delta: drop the deleted paths, then write the changed ones.  A file
\* that survives the deletions keeps its place, any other goes to the end.
ApplyDelta(base, d) ==
    LET Survives(p) == p \in Paths(base) \ d.deleted
        Entry(p) ==
            [content |-> d.changed[EntryOf(d, p)].content,
             pos     |-> IF Survives(p) THEN base.files[p].pos
                                        ELSE base.end + EntryOf(d, p)]
    IN  [name  |-> IF d.name # NoName THEN d.name ELSE base.name,
         files |-> [p \in Path |-> IF p \in Written(d) THEN Entry(p)
                                   ELSE IF Survives(p) THEN base.files[p]
                                   ELSE Absent],
         end   |-> base.end + Len(d.changed) + 1]

-----------------------------------------------------------------------------
\* get_pom: the content of the first listed file whose path ends in pom.xml,
\* the empty string when there is none.
GetPom(m) ==
    LET poms == PomPath \cap Paths(m)
        first == CHOOSE p \in poms : \A q \in poms : m.files[p].pos <= m.files[q].pos
    IN  IF poms = {} THEN Empty ELSE m.files[first].content

PomChanged(prev, curr) == GetPom(prev) # GetPom(curr)

\* A mutated _has_file_changes that trusts the delta to change something.
HasFileChanges_Trusting(m, d) == TRUE

HasFileChanges(m, d) == FileMap(ApplyDelta(m, d)) # FileMap(m)

\* _select_relevant_files: after a compilation error, the files the compiler
\* mentioned, the root pom and the domain classes; the whole manifest for any
\* other error, or when that selection would be empty.
SelectRelevant(m, phase, mentioned) ==
    LET relevant == mentioned \cup {RootPom} \cup DomainPath
        filtered == [m EXCEPT !.files =
                        [p \in Path |-> IF p \in relevant THEN m.files[p] ELSE Absent]]
    IN  IF \/ phase # "compilation"
           \/ mentioned = {}
           \/ relevant \cap Paths(m) = {}
        THEN m
        ELSE filtered
=============================================================================
