------------------------------- MODULE MCHttp -------------------------------
(***************************************************************************)
(* The HTTP adapter for TLC: the commands of a session, the checks of a    *)
(* request, and the skills and instructions that a task is prepared with.  *)
(* The parts do not interact and are explored side by side.                *)
(***************************************************************************)
EXTENDS HttpCommands, Sequences, TLC

VARIABLES part,
          request, altered,
          roots, files, edits, fresh, step, scope, frontier, entries, notes, ask, project, loaded,
          input, results,
          lines, documents

Command(kind, op, text) == [kind |-> kind, op |-> op, text |-> text]

\* Two tasks of one operation with different texts, two tasks, a rename, and the
\* creation of the session.
TheScenarios ==
    { {Command("task", 1, "a"), Command("task", 1, "b")},
      {Command("task", 1, "a"), Command("task", 2, "a")},
      {Command("rename", 3, "a")},
      {Command("create", 4, "a")} }

TheCommands == UNION TheScenarios
TheAttempts == 1..3

Requests == INSTANCE HttpRequest WITH MaxAltered <- 2

-----------------------------------------------------------------------------
(***************************************************************************)
(* Skills: one below another, one beside it, and one of the same name that *)
(* is global; their manifests are sound, odd, empty, linked or too large.  *)
(***************************************************************************)

Front(state, name, rest) == [state |-> state, name |-> name, rest |-> rest]
Node(kind, front, body) == [kind |-> kind, front |-> front, body |-> body]
Bare(kind) == Node(kind, Front("invalid", "", 0), "")
Skill(name, rest, body) == Node("file", Front("ok", name, rest), body)
Text(body) == Node("file", Front("invalid", "", 0), body)

Global(path) == <<"global", path>>
Project(path) == <<"project", <<".agents", "skills">> \o path>>
Agents == <<"project", <<"AGENTS.md">>>>
Above == <<"project", <<".agents">>>>

Directories == {Above, Project(<<>>), Project(<<"a">>), Project(<<"a", "b">>), Project(<<"c">>),
                Global(<<"a">>)}
Manifests == {Bare("none"), Bare("link"), Bare("odd"), Skill("a", 1, "text"), Skill("c", 1, ""),
              Text("text"), Node("file", Front("large", "", 0), "text")}

TheWorlds ==
    { (Project(<<"a", "SKILL.md">>) :> m) @@ (Project(<<"c", "SKILL.md">>) :> n)
        @@ (Global(<<"a", "SKILL.md">>) :> g)
        @@ (Project(<<"a", "b", "SKILL.md">>) :> Skill("a", 1, "text"))
        @@ [d \in Directories |-> Bare("dir")] :
      m \in Manifests, n \in Manifests, g \in {Bare("none"), Skill("a", 1, "text")} }

TheEdits ==
    { <<Project(<<"a", "SKILL.md">>), Skill("a", 2, "text")>>,
      <<Project(<<"a", "SKILL.md">>), Skill("a", 1, "other")>>,
      <<Project(<<"c", "SKILL.md">>), Bare("link")>>,
      <<Project(<<"a">>), Bare("link")>>,
      <<Project(<<>>), Text("text")>>,
      <<Above, Bare("link")>>,
      <<Agents, Text("text")>>, <<Agents, Text("huge")>> }

TheSelections ==
    { <<>>, <<<<"project", "a">>, <<"project", "a">>>>,
      <<<<"project", "c">>, <<"global", "a">>>>, <<<<"project", "../a">>>> }

Skills == INSTANCE Context WITH
    Names <- <<"a", "b", "c">>, Worlds <- TheWorlds, Edits <- TheEdits, MaxEdits <- 2,
    Selections <- TheSelections, MaxLoads <- 1

-----------------------------------------------------------------------------
(***************************************************************************)
(* Metadata: collections of collections, keys of every kind, two documents.*)
(***************************************************************************)

Tree(t, marked, kids) ==
    [t |-> t, text |-> "", plain |-> FALSE, marked |-> marked, kids |-> kids]
Scalar(text, plain, marked) ==
    [t |-> "scalar", text |-> text, plain |-> plain, marked |-> marked, kids |-> <<>>]

Scalars == {Scalar(text, TRUE, FALSE) : text \in {"a", "b", "<<", "1", "~", ".nan"}}
             \cup {Scalar("a", FALSE, FALSE), Scalar("<<", FALSE, FALSE), Scalar("a", TRUE, TRUE)}
Few == {Scalar("a", TRUE, FALSE), Scalar("1", TRUE, FALSE)}
Lists(S) == {Tree("sequence", FALSE, kids) : kids \in {<<>>} \cup {<<x>> : x \in S}}
Maps(K, V) ==
    {Tree("mapping", FALSE, kids) :
       kids \in {<<>>} \cup (K \X V) \cup {<<k, v, l, w>> : k \in K, v \in V, l \in K, w \in V}}
Inner == Scalars \cup Lists(Scalars) \cup Maps(Scalars, Few) \cup {Tree("mapping", TRUE, <<>>)}
TheRoots ==
    Inner \cup Maps(Scalars, Scalars)
      \cup {Tree("mapping", FALSE, <<k, v>>) : k \in Scalars \cup Lists(Few), v \in Inner}

Line(text, size) == [text |-> text, size |-> size]
TheTexts == UNION {[1..n -> {Line("---", 1), Line("x", 1), Line("x", 3)}] : n \in 0..4}

Heads == INSTANCE Frontmatter WITH
    Roots <- TheRoots, Texts <- TheTexts, MaxInput <- 4, KeyOrder <- <<"<<", "a", "b">>

-----------------------------------------------------------------------------
NoCommands == Init /\ Sent = {Command("create", 4, "a")}

NoRequest == request = 0 /\ altered = 0

NoSkills ==
    /\ roots = 0 /\ files = 0 /\ edits = 0 /\ fresh = 0 /\ step = 0 /\ scope = 0
    /\ frontier = 0 /\ entries = 0 /\ notes = 0 /\ ask = 0 /\ project = 0 /\ loaded = 0
    /\ input = 0 /\ results = 0

NoHeads == lines = 0 /\ documents = 0

requestVars == <<request, altered>>
skillVars == <<roots, files, edits, fresh, step, scope, frontier, entries, notes, ask, project,
               loaded, input, results>>
headVars == <<lines, documents>>

MCInit ==
    \/ part = "commands" /\ Init /\ NoRequest /\ NoSkills /\ NoHeads
    \/ part = "request" /\ Requests!RequestInit /\ NoCommands /\ NoSkills /\ NoHeads
    \/ part = "skills" /\ Skills!Init /\ NoCommands /\ NoRequest /\ NoHeads
    \/ part = "heads" /\ Heads!FrontInit /\ NoCommands /\ NoRequest /\ NoSkills

MCNext ==
    /\ UNCHANGED <<part, headVars>>
    /\ \/ part = "commands" /\ Next /\ UNCHANGED <<requestVars, skillVars>>
       \/ part = "request" /\ Requests!Alter /\ UNCHANGED <<vars, skillVars>>
       \/ part = "skills" /\ Skills!Next /\ UNCHANGED <<vars, requestVars>>

MCSpec == MCInit /\ [][MCNext]_<<part, vars, requestVars, skillVars, headVars>>

\* A preflight and the request it stands for are judged alike (HttpRequest;
\* router.rs, boundary.rs).
PreflightAgrees == part = "request" => Requests!PreflightAgrees

\* The catalog of skills is what the files say: each manifest is found or told
\* of, its metadata is what its text denotes, and a task is given only what the
\* catalog advertises (discover, frontmatter::read, prepare_run).
SkillsAreExact ==
    /\ part = "skills" => Skills!DiscoveryExact /\ Skills!PreparedAsAdvertised
    /\ part = "heads" => Heads!FrontmatterExact
=============================================================================
