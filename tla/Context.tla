------------------------------ MODULE Context ------------------------------
(***************************************************************************)
(* Skills and project instructions (context.rs, context/preparation.rs,    *)
(* context/skill_loading.rs): a discovery reads the metadata of the skills *)
(* under two roots, a preparation reads project instructions and selected  *)
(* skills into one request, which is captured for the store                *)
(* (RecordedRunInput), and the run's load_skill tool reads more of them.   *)
(* The owner edits the files in between.                                   *)
(*                                                                         *)
(* A directory is read in one step, and a file in one step.                *)
(***************************************************************************)
EXTENDS Naturals, Sequences, FiniteSets, TLC, SequencesExt

CONSTANTS Names,      \* the names of files and directories, in order
          Worlds,     \* files to begin with
          Edits,      \* <<place, node>>: what the owner may write
          MaxEdits,
          Selections, \* sequences of skills that a caller selects
          MaxLoads    \* calls of load_skill

VARIABLES
    roots,      \* what each of the two roots is: "dir", "missing" or "bad"
    files,      \* place -> node; a place is <<scope, path>>
    edits,
    fresh,      \* no edit since the discovery began
    step,
    scope,      \* the scope that is being discovered
    frontier,   \* directories to visit, the next one last
    entries,    \* SkillCatalog.entries: id -> [front, place]
    notes,      \* SkillCatalog.diagnostics
    ask,        \* the caller's task, template and selection
    project,    \* whether there are project instructions
    loaded,     \* LoadedSkills of the preparation
    input,      \* the RecordedRunInput
    results     \* how calls of load_skill ended; the run is told of a failure, not which

contextVars == <<roots, files, edits, fresh, step, scope, frontier, entries, notes, ask, project,
                 loaded, input, results>>

Node(kind, front, body) == [kind |-> kind, front |-> front, body |-> body]
\* rest stands for the other keys; above 1 there are behavioral ones among them.
Metadata(state, name, rest) == [state |-> state, name |-> name, rest |-> rest]
NoMetadata == Metadata("invalid", "", 0)
Nothing == Node("none", NoMetadata, "")
NoAsk == [task |-> "", template |-> {}, wanted |-> <<>>]

At(place) == IF place \in DOMAIN files THEN files[place] ELSE Nothing
Under(place, name) == <<place[1], Append(place[2], name)>>
Start(s) == <<s, IF s = "global" THEN <<>> ELSE <<".agents", "skills">>>>

Init ==
    /\ roots \in [global : {"dir", "missing", "bad"}, project : {"dir", "bad"}]
    /\ files \in Worlds
    /\ edits = 0 /\ fresh = TRUE
    /\ step = "roots" /\ scope = "global" /\ frontier = <<>>
    /\ entries = <<>> /\ notes = {}
    /\ ask = NoAsk /\ project = FALSE /\ loaded = <<>> /\ input = <<>> /\ results = <<>>

-----------------------------------------------------------------------------
(***************************************************************************)
(* Reading.                                                                *)
(***************************************************************************)

\* checked_path: every component is there and none is a link.
checked_path(place, kind) ==
    /\ \A i \in 1..Len(place[2]) :
          At(<<place[1], SubSeq(place[2], 1, i)>>).kind \notin {"none", "link"}
    /\ place[2] # <<>> => At(place).kind = kind

open(place) == checked_path(place, "file")

\* read_bytes and read_text of a file.
read_bytes(place) ==
    IF ~open(place) THEN "read_failed"
    ELSE IF At(place).body = "huge" THEN "input_too_large"
    ELSE "ok"

Fail(error) ==
    /\ step' = error
    /\ UNCHANGED <<frontier, scope, entries, notes, ask, project, loaded, input>>

-----------------------------------------------------------------------------
(***************************************************************************)
(* discover.                                                               *)
(***************************************************************************)

\* resolve_root of both; a missing global root has no skills.
Roots ==
    /\ step = "roots"
    /\ IF roots.project # "dir" \/ roots.global = "bad" THEN Fail("invalid_root")
       ELSE /\ IF roots.global = "dir"
               THEN step' = "visit" /\ frontier' = <<Start("global")[2]>>
               ELSE step' = "project_skills" /\ frontier' = <<>>
            /\ UNCHANGED <<scope, entries, notes, ask, project, loaded, input>>
    /\ UNCHANGED <<roots, files, edits, fresh, results>>

Here == <<scope, Last(frontier)>>

\* What discover_skill makes of a manifest.
discover_skill(place) ==
    LET front == At(place).front
    IN  CASE ~open(place) -> "excluded"
          [] open(place) /\ front.state = "large" -> "input_too_large"
          [] open(place) /\ front.state = "invalid" -> "excluded"
          [] OTHER -> IF <<place[1], front.name>> \in DOMAIN entries THEN "duplicate_skill" ELSE "ok"

Mismatch(place) ==
    LET path == place[2]
    IN  Len(path) > 1 /\ path[Len(path) - 1] # At(place).front.name

\* A package: its manifest decides, whatever it is, and nothing below is read.
Package(manifest) ==
    LET found == discover_skill(manifest)
        id == <<scope, At(manifest).front.name>>
    IN  IF At(manifest).kind = "link"
        THEN notes' = notes \cup {<<manifest, "skipped_symlink">>} /\ UNCHANGED <<step, entries>>
        ELSE IF found \in {"input_too_large", "duplicate_skill"}
        THEN step' = found /\ UNCHANGED <<entries, notes>>
        ELSE IF found = "excluded"
        THEN notes' = notes \cup {<<manifest, "excluded">>} /\ UNCHANGED <<step, entries>>
        ELSE /\ entries' = entries @@ (id :> [front |-> At(manifest).front, place |-> manifest])
             /\ notes' = notes
                  \cup (IF Mismatch(manifest) THEN {<<manifest, "directory_name_mismatch">>} ELSE {})
                  \cup (IF At(manifest).front.rest > 1
                        THEN {<<manifest, "unsupported_behavioral_metadata">>} ELSE {})
             /\ UNCHANGED step

\* Fault: a manifest that is a link does not end the traversal.
EndsAtFiles(manifest) == At(manifest).kind \notin {"none", "link"}

\* Even malformed manifests end traversal at this package.
EndsTraversal(manifest) == At(manifest).kind # "none"

Visit ==
    LET manifest == Under(Here, "SKILL.md")
        children == {n \in Range(Names) : At(Under(Here, n)).kind # "none"}
        links == {n \in children : At(Under(Here, n)).kind = "link"}
        dirs == SelectSeq(Names, LAMBDA n : At(Under(Here, n)).kind = "dir")
    IN  /\ step = "visit" /\ frontier # <<>>
        /\ IF ~checked_path(Here, "dir") THEN Fail("read_failed")
           ELSE /\ IF EndsTraversal(manifest)
                   THEN /\ Package(manifest)
                        /\ frontier' = Front(frontier)
                   ELSE /\ notes' = notes \cup {<<Under(Here, n), "skipped_symlink">> : n \in links}
                        /\ frontier' = Front(frontier)
                             \o [i \in 1..Len(dirs) |-> Append(Here[2], Reverse(dirs)[i])]
                        /\ UNCHANGED <<step, entries>>
                /\ UNCHANGED <<scope, ask, project, loaded, input>>
        /\ UNCHANGED <<roots, files, edits, fresh, results>>

\* project_skills: both directories above the skills of the workspace.
ProjectSkills ==
    LET above == <<<<"project", <<".agents">>>>, Start("project")>>
        bad == {i \in 1..2 : At(above[i]).kind # "dir"}
        first == CHOOSE i \in bad : \A j \in bad : i <= j
    IN  /\ step = "project_skills"
        /\ IF bad = {} THEN /\ step' = "visit" /\ scope' = "project"
                            /\ frontier' = <<Start("project")[2]>>
                            /\ UNCHANGED <<entries, notes, ask, project, loaded, input>>
           ELSE IF At(above[first]).kind \in {"none", "link"}
           THEN /\ step' = "catalog"
                /\ notes' = notes \cup (IF At(above[first]).kind = "none" THEN {}
                                        ELSE {<<above[first], "skipped_symlink">>})
                /\ UNCHANGED <<scope, frontier, entries, ask, project, loaded, input>>
           ELSE Fail("invalid_root")
        /\ UNCHANGED <<roots, files, edits, fresh, results>>

ScopeEnds ==
    /\ step = "visit" /\ frontier = <<>>
    /\ step' = IF scope = "global" THEN "project_skills" ELSE "catalog"
    /\ UNCHANGED <<roots, files, edits, fresh, scope, frontier, entries, notes, ask, project,
                   loaded, input, results>>

-----------------------------------------------------------------------------
(***************************************************************************)
(* prepare_run_with_skill_loading, and the capture of what it prepared.    *)
(***************************************************************************)

valid_name(name) == name \in ToSet(Names)

\* lookup: an identifier is never a path.
lookup(id) ==
    IF ~valid_name(id[2]) THEN "invalid_skill_id"
    ELSE IF id \notin DOMAIN entries THEN "unknown_skill"
    ELSE "ok"

\* Fault: a skill that is selected twice is loaded twice.
EachSelection(wanted) == wanted

\* Each selected skill once, where it is first selected.
Selected(wanted) ==
    LET firsts == {i \in 1..Len(wanted) : \A j \in 1..(i - 1) : wanted[j] # wanted[i]}
    IN  [i \in 1..Cardinality(firsts) |->
            wanted[CHOOSE k \in firsts : Cardinality({j \in firsts : j <= k}) = i]]

\* register: the loader joins the tools of the template if there are skills.
Registry(template) == template \cup (IF entries = <<>> THEN {} ELSE {"load_skill"})

Collides(template) == entries # <<>> /\ "load_skill" \in template
Refused(wanted) == {i \in 1..Len(wanted) : lookup(wanted[i]) # "ok"}

\* The collision of the loader, then every selection, before any file is opened.
Prepare ==
    /\ step = "catalog"
    /\ \E task \in {"good", "blank"}, template \in {{}, {"add_numbers"}, {"load_skill"}},
          wanted \in Selections :
        LET first == CHOOSE i \in Refused(wanted) : \A j \in Refused(wanted) : i <= j
        IN  IF Collides(template) THEN Fail("invalid_request")
            ELSE IF Refused(wanted) # {} THEN Fail(lookup(wanted[first]))
            ELSE /\ ask' = [task |-> task, template |-> template, wanted |-> Selected(wanted)]
                 /\ step' = "project"
                 /\ UNCHANGED <<scope, frontier, entries, notes, project, loaded, input>>
    /\ UNCHANGED <<roots, files, edits, fresh, results>>

\* project_instructions: AGENTS.md of the workspace, if it is there and not empty.
ProjectInstructions ==
    LET place == <<"project", <<"AGENTS.md">>>>
        read == read_bytes(place)
    IN  /\ step = "project"
        /\ IF At(place).kind # "none" /\ read # "ok" THEN Fail(read)
           ELSE IF At(place).kind # "none" /\ At(place).body = "binary" THEN Fail("read_failed")
           ELSE /\ project' = (At(place).kind # "none" /\ At(place).body # "")
                /\ step' = "load"
                /\ UNCHANGED <<scope, frontier, entries, notes, ask, loaded, input>>
        /\ UNCHANGED <<roots, files, edits, fresh, results>>

\* load_skill: the recorded file, if its metadata is what was discovered.
load_skill(id) ==
    LET place == entries[id].place
        read == read_bytes(place)
        file == At(place)
    IN  CASE read # "ok" -> read
          [] read = "ok" /\ file.front # entries[id].front -> "context_changed"
          [] read = "ok" /\ file.front = entries[id].front /\ file.body = "binary" -> "read_failed"
          [] read = "ok" /\ file.front = entries[id].front /\ file.body = "" -> "invalid_body"
          [] OTHER -> "ok"

LoadedSkill(id) ==
    LET file == At(entries[id].place) IN [id |-> id, front |-> file.front, body |-> file.body]

LoadSelected ==
    LET id == ask.wanted[Len(loaded) + 1]
    IN  /\ step = "load" /\ Len(loaded) < Len(ask.wanted)
        /\ IF load_skill(id) # "ok" THEN Fail(load_skill(id))
           ELSE /\ loaded' = Append(loaded, LoadedSkill(id))
                /\ UNCHANGED <<step, scope, frontier, entries, notes, ask, project, input>>
        /\ UNCHANGED <<roots, files, edits, fresh, results>>

\* RecordedRunInput::new.
Recordable(i) ==
    /\ i.task # "blank"
    /\ \A k \in DOMAIN i.available : /\ valid_name(i.available[k][2])
                                     /\ \A j \in 1..(k - 1) : i.available[j] # i.available[k]
    /\ \A k \in DOMAIN i.active : /\ i.active[k] \in ToSet(i.available)
                                  /\ \A j \in 1..(k - 1) : i.active[j] # i.active[k]
    /\ i.source \in {"none", "project:AGENTS.md"}
    /\ Cardinality(ToSet(i.tools)) = Len(i.tools)

\* capture: the prepared snapshot and its matching registry.
capture ==
    [task |-> ask.task,
     prompt |-> IF project \/ entries # <<>> \/ loaded # <<>> THEN "payload" ELSE "task",
     available |-> SetToSeq(DOMAIN entries),
     active |-> [i \in DOMAIN loaded |-> loaded[i].id],
     source |-> IF project THEN "project:AGENTS.md" ELSE "none",
     tools |-> SetToSeq(Registry(ask.template))]

\* validate_request: the task itself, and what the payload makes of its size.
validate_request(task) == IF task = "blank" THEN {"invalid_request"} ELSE {"ok", "input_too_large"}

Capture ==
    /\ step = "load" /\ Len(loaded) = Len(ask.wanted)
    /\ \E verdict \in validate_request(ask.task) :
        IF verdict # "ok" THEN Fail(verdict)
        ELSE IF ~Recordable(capture) THEN Fail("unrecordable")
        ELSE /\ input' = <<capture>>
             /\ step' = "prepared"
             /\ UNCHANGED <<scope, frontier, entries, notes, ask, project, loaded>>
    /\ UNCHANGED <<roots, files, edits, fresh, results>>

\* The load_skill tool of the run: arguments_id, then one read of the file.
Execute ==
    /\ step = "prepared" /\ "load_skill" \in Registry(ask.template)
    /\ Len(results) < MaxLoads
    /\ \E wanted \in Selections :
        /\ wanted # <<>> /\ lookup(wanted[1]) = "ok"
        /\ results' = Append(results,
              IF load_skill(wanted[1]) = "ok"
              THEN [outcome |-> "ok", skill |-> LoadedSkill(wanted[1])]
              ELSE [outcome |-> load_skill(wanted[1]), skill |-> [id |-> wanted[1]]])
    /\ UNCHANGED <<roots, files, edits, fresh, step, scope, frontier, entries, notes, ask, project,
                   loaded, input>>

\* The owner writes, links or removes a file.
Edit ==
    /\ edits < MaxEdits
    /\ \E e \in Edits : /\ At(e[1]) # e[2]
                        /\ files' = (e[1] :> e[2]) @@ files
    /\ edits' = edits + 1 /\ fresh' = FALSE
    /\ UNCHANGED <<roots, step, scope, frontier, entries, notes, ask, project, loaded, input,
                   results>>

Next ==
    \/ Roots \/ Visit \/ ProjectSkills \/ ScopeEnds \/ Prepare \/ ProjectInstructions
    \/ LoadSelected \/ Capture \/ Execute \/ Edit

Spec == Init /\ [][Next]_contextVars

-----------------------------------------------------------------------------
(***************************************************************************)
(* Properties.                                                             *)
(***************************************************************************)

\* The manifests that a discovery of the scope is about: no link above them,
\* and no manifest of another package above them.
Packages(s) ==
    LET manifests == {p \in DOMAIN files : /\ p[1] = s /\ p[2] # <<>> /\ Last(p[2]) = "SKILL.md"
                                           /\ At(p).kind # "none"
                                           /\ IsPrefix(Start(s)[2], p[2])}
        Above(p) == {SubSeq(p[2], 1, i) : i \in Len(Start(s)[2])..(Len(p[2]) - 1)}
        Real(path) == path = <<>> \/ checked_path(<<s, path>>, "dir")
    IN  {p \in manifests :
            /\ \A path \in Above(p) : Real(path)
            /\ \A path \in Above(p) \ {Front(p[2])} : At(<<s, Append(path, "SKILL.md")>>).kind = "none"}

Sound(p) == At(p).kind = "file" /\ At(p).front.state = "ok"
AllPackages == (IF roots.global = "dir" THEN Packages("global") ELSE {}) \cup Packages("project")

\* A discovery that no edit disturbs finds each skill of the two roots under its
\* qualified name and no other, tells of each manifest that it leaves out, and
\* fails when two skills of one scope have one name (discover, discover_scope,
\* discover_skill).
DiscoveryExact ==
    /\ step = "catalog" /\ fresh =>
          /\ {entries[id].place : id \in DOMAIN entries} = {p \in AllPackages : Sound(p)}
          /\ \A id \in DOMAIN entries : id = <<entries[id].place[1], entries[id].front.name>>
          /\ \A p \in AllPackages : Sound(p) \/ \E why \in {"excluded", "skipped_symlink"} : <<p, why>> \in notes
    /\ step = "duplicate_skill" /\ fresh =>
          \E p, q \in AllPackages : /\ p # q /\ p[1] = q[1] /\ Sound(p) /\ Sound(q)
                                    /\ At(p).front.name = At(q).front.name

\* What was prepared can be recorded, and everything that the model is given of a
\* skill, with the request or through load_skill, is what the catalog advertises:
\* edits in between are noticed, and without any no skill is called changed
\* (prepare, load_skill, RecordedRunInput::new).
PreparedAsAdvertised ==
    /\ step # "unrecordable"
    /\ \A i \in DOMAIN loaded : loaded[i].front = entries[loaded[i].id].front
    /\ \A i \in DOMAIN results :
          results[i].outcome = "ok" => /\ results[i].skill.front = entries[results[i].skill.id].front
                                       /\ results[i].skill.id \in ToSet(input[1].available)
    /\ fresh => /\ step # "context_changed"
                /\ \A i \in DOMAIN results : results[i].outcome # "context_changed"
=============================================================================
