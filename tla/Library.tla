-------------------------------- MODULE Library --------------------------------
(***************************************************************************)
(* Outreach templates with their approval (app/services/                   *)
(* outreach_templates.py) and the company home: its profile and knowledge  *)
(* entries (app/services/pendang_company.py).  Forms carry the row_version *)
(* of the page they are on; every start of the server adds the rows it     *)
(* finds missing (app/db/migrations.py).                                   *)
(*                                                                         *)
(* What a handler checks before its UPDATE or INSERT, the statement or a   *)
(* unique index repeats, and nothing it read is written.  So a request is  *)
(* one step, and one that is refused anywhere changes no row.              *)
(***************************************************************************)
EXTENDS Naturals, Sequences

CONSTANTS
  Slugs,         \* what template titles become in _slugify
  StarterSlugs,  \* SEED_TEMPLATES, in their order
  Wordings,      \* title, category and body of a template
  Titles,        \* section and title of a knowledge entry, case ignored
  SeedTitles,    \* SEED_SERVICES, in their order
  Plans,         \* contents of the profile; one has a blank Founder Plan
  BlankPlan,
  LibraryTabs,   \* pages open in browsers
  LibraryRooms   \* bounds: rows of the two tables and versions of their rows,
                 \* one record chosen at the start

ASSUME LibraryAssumption ==
  /\ StarterSlugs \in Seq(Slugs) /\ SeedTitles \in Seq(Titles)
  /\ \A m, n \in DOMAIN StarterSlugs : StarterSlugs[m] = StarterSlugs[n] => m = n
  /\ \A m, n \in DOMAIN SeedTitles : SeedTitles[m] = SeedTitles[n] => m = n
  /\ Wordings # {}
  /\ BlankPlan \in Plans /\ Plans # {BlankPlan}
  /\ LibraryRooms \subseteq [templates : Nat, templateVersion : Nat,
                             entries : Nat, entryVersion : Nat]

VARIABLES
  template,     \* table outreach_templates of a workspace; the id is the position
  entry,        \* table organization_knowledge_items
  profile,      \* its row of organization_company_profiles
  page,         \* the tabs: the row each shows
  server,       \* "up", or "down" after a start that failed
  libraryRoom   \* the record of LibraryRooms this behaviour has

libraryVars == <<template, entry, profile, page, server, libraryRoom>>

NewTemplate(slug, words) ==
  [live |-> TRUE, slug |-> slug, words |-> words, approved |-> FALSE, version |-> 1]
NewEntry(title, status) ==
  [live |-> TRUE, title |-> title, status |-> status, version |-> 1]

NoPage == [on |-> "nothing", id |-> 0, seen |-> [version |-> 0]]

LiveTemplates == {i \in DOMAIN template : template[i].live}
LiveEntries == {i \in DOMAIN entry : entry[i].live}

\* The unique index on the slug knows archived rows, the one on the title does not.
SlugsTaken == {template[i].slug : i \in DOMAIN template}
TitlesTaken == {entry[i].title : i \in LiveEntries}

FirstWords == CHOOSE w \in Wordings : TRUE

\* What is left of a list, in its order, without what is taken.
Without(list, taken) ==
  LET rest[n \in 0..Len(list)] ==
        IF n = 0 THEN <<>>
        ELSE IF list[n] \in taken THEN rest[n - 1] ELSE Append(rest[n - 1], list[n])
  IN  rest[Len(list)]

\* INSERT OR IGNORE
MissingStarters(taken) == Without(StarterSlugs, taken)

\* Mutant: a seed is looked for among the active entries, drafts are overlooked.
MissingSeedsOfActive(taken) ==
  Without(SeedTitles, {entry[i].title : i \in {j \in LiveEntries : entry[j].status = "active"}})

\* INSERT ... WHERE NOT EXISTS
MissingSeeds(taken) == Without(SeedTitles, taken)

Starters(slugs) == [n \in DOMAIN slugs |-> NewTemplate(slugs[n], FirstWords)]
Seeds(titles) == [n \in DOMAIN titles |-> NewEntry(titles[n], "active")]

LibraryInit ==
  /\ template = Starters(StarterSlugs)
  /\ entry = Seeds(SeedTitles)
  /\ \E plan \in Plans \ {BlankPlan} : profile = [plan |-> plan, version |-> 1]
  /\ page = [t \in LibraryTabs |-> NoPage]
  /\ server = "up"
  /\ libraryRoom \in LibraryRooms

-----------------------------------------------------------------------------
(* Pages.                                                                  *)

Open(t, on, id, row) ==
  /\ server = "up"
  /\ page[t] = NoPage
  /\ page' = [page EXCEPT ![t] = [on |-> on, id |-> id, seen |-> row]]
  /\ UNCHANGED <<template, entry, profile, server, libraryRoom>>

OpenTemplate(t) == \E i \in LiveTemplates : Open(t, "template", i, template[i])
OpenEntry(t) == \E i \in LiveEntries : Open(t, "entry", i, entry[i])
OpenProfile(t) == Open(t, "profile", 0, profile)

\* The form is given up, or its submission is refused.
ClosePage(t) ==
  /\ page[t] # NoPage
  /\ page' = [page EXCEPT ![t] = NoPage]
  /\ UNCHANGED <<template, entry, profile, server, libraryRoom>>

Submitted(t) == server = "up" /\ page' = [page EXCEPT ![t] = NoPage]

-----------------------------------------------------------------------------
(* Outreach templates.                                                     *)

\* Mutant: what is on the page is not compared with the row.
ShowsTemplateById(t) == page[t].on = "template" /\ page[t].id \in LiveTemplates

\* WHERE active = 1 AND row_version = ?
ShowsTemplate(t) ==
  /\ page[t].on = "template"
  /\ page[t].id \in LiveTemplates
  /\ page[t].seen.version = template[page[t].id].version
  /\ template[page[t].id].version < libraryRoom.templateVersion

ChangeTemplate(i, row) ==
  /\ template' = [template EXCEPT ![i] = [row EXCEPT !.version = template[i].version + 1]]
  /\ UNCHANGED <<entry, profile, server, libraryRoom>>

CreateTemplate ==
  /\ server = "up"
  /\ Len(template) < libraryRoom.templates
  /\ \E slug \in Slugs \ SlugsTaken, words \in Wordings :
       template' = Append(template, NewTemplate(slug, words))
  /\ UNCHANGED <<entry, profile, page, server, libraryRoom>>

\* The slug and the approval stay as they are.
UpdateTemplate(t) ==
  /\ ShowsTemplate(t)
  /\ \E words \in Wordings :
       ChangeTemplate(page[t].id, [template[page[t].id] EXCEPT !.words = words])
  /\ Submitted(t)

\* The page offers approval of what is not approved, and its revocation.
SetApproval(t) ==
  /\ ShowsTemplate(t)
  /\ ChangeTemplate(page[t].id, [template[page[t].id] EXCEPT !.approved = ~page[t].seen.approved])
  /\ Submitted(t)

\* No page has a form for it: the request carries no version.
ArchiveTemplate ==
  /\ server = "up"
  /\ \E i \in LiveTemplates :
       /\ template[i].version < libraryRoom.templateVersion
       /\ ChangeTemplate(i, [template[i] EXCEPT !.live = FALSE])
  /\ UNCHANGED page

-----------------------------------------------------------------------------
(* The company home.                                                       *)

\* WHERE deleted_at IS NULL AND row_version = ?
ShowsEntry(t) ==
  /\ page[t].on = "entry"
  /\ page[t].id \in LiveEntries
  /\ page[t].seen.version = entry[page[t].id].version
  /\ entry[page[t].id].version < libraryRoom.entryVersion

ChangeEntry(i, row) ==
  /\ entry' = [entry EXCEPT ![i] = [row EXCEPT !.version = entry[i].version + 1]]
  /\ UNCHANGED <<template, profile, server, libraryRoom>>

CreateEntry ==
  /\ server = "up"
  /\ Len(entry) < libraryRoom.entries
  /\ \E title \in Titles \ TitlesTaken, status \in {"draft", "active"} :
       entry' = Append(entry, NewEntry(title, status))
  /\ UNCHANGED <<template, profile, page, server, libraryRoom>>

UpdateEntry(t) ==
  /\ ShowsEntry(t)
  /\ \E title \in (Titles \ TitlesTaken) \cup {entry[page[t].id].title},
        status \in {"draft", "active"} :
       ChangeEntry(page[t].id, [entry[page[t].id] EXCEPT !.title = title, !.status = status])
  /\ Submitted(t)

ArchiveEntry(t) ==
  /\ ShowsEntry(t)
  /\ ChangeEntry(page[t].id, [entry[page[t].id] EXCEPT !.live = FALSE])
  /\ Submitted(t)

UpdateProfile(t) ==
  /\ page[t].on = "profile" /\ page[t].seen.version = profile.version
  /\ profile.version < libraryRoom.entryVersion
  /\ \E plan \in Plans \ {BlankPlan} : profile' = [plan |-> plan, version |-> profile.version + 1]
  /\ UNCHANGED <<template, entry, server, libraryRoom>>
  /\ Submitted(t)

-----------------------------------------------------------------------------
(* A start of the server.                                                  *)

\* No INSERT meets a row with its title and the validation finds a Founder Plan.
Starts(seeds) ==
  /\ profile.plan # BlankPlan
  /\ \A n \in DOMAIN seeds : seeds[n] \notin TitlesTaken

\* initialize_database adds the rows that are missing, in one transaction; when it
\* fails nothing is served.  Pages stay open in the browsers.
Restart ==
  /\ server = "up"
  /\ LET starters == MissingStarters(SlugsTaken)
         seeds    == MissingSeeds(TitlesTaken)
         starts   == Starts(seeds)
     IN  /\ Len(entry) + Len(seeds) <= libraryRoom.entries
         /\ server' = IF starts THEN "up" ELSE "down"
         /\ template' = template \o IF starts THEN Starters(starters) ELSE <<>>
         /\ entry' = entry \o IF starts THEN Seeds(seeds) ELSE <<>>
  /\ UNCHANGED <<profile, page, libraryRoom>>

LibraryNext ==
  \/ \E t \in LibraryTabs :
       \/ OpenTemplate(t) \/ OpenEntry(t) \/ OpenProfile(t) \/ ClosePage(t)
       \/ UpdateTemplate(t) \/ SetApproval(t)
       \/ UpdateEntry(t) \/ ArchiveEntry(t) \/ UpdateProfile(t)
  \/ CreateTemplate \/ ArchiveTemplate \/ CreateEntry
  \/ Restart

LibrarySpec == LibraryInit /\ [][LibraryNext]_libraryVars
-----------------------------------------------------------------------------
(* Properties.                                                             *)

LibraryTypeOK ==
  /\ template \in Seq([live : BOOLEAN, slug : Slugs, words : Wordings,
                       approved : BOOLEAN, version : Nat \ {0}])
  /\ entry \in Seq([live : BOOLEAN, title : Titles, status : {"draft", "active"},
                    version : Nat \ {0}])
  /\ profile \in [plan : Plans, version : Nat \ {0}]
  /\ \A t \in LibraryTabs :
       /\ page[t].on \in {"nothing", "template", "entry", "profile"}
       /\ page[t].on = "template" => page[t].id \in DOMAIN template
       /\ page[t].on = "entry" => page[t].id \in DOMAIN entry
  /\ server \in {"up", "down"}
  /\ libraryRoom \in LibraryRooms

\* The server starts whatever was written, renamed, archived or drafted before:
\* what the pages accept is what the start tolerates (db/pendang_company.py seed and
\* validate_schema), and no start brings a second template for a slug or a second
\* live entry for a title, archived and renamed seeds included.
LibraryStands ==
  /\ server = "up"
  /\ \A i, j \in DOMAIN template : template[i].slug = template[j].slug => i = j
  /\ \A i, j \in LiveEntries : entry[i].title = entry[j].title => i = j

\* A form changes only a live row that is still as its page shows it; so a template
\* becomes approved only with the wording the approver had before him, although any
\* number of edits, archivals and restarts came between page and form.
LibraryChangesAreSeen ==
  [][\A t \in LibraryTabs : page[t] # NoPage /\ page'[t] = NoPage =>
       /\ template' # template => page[t].on = "template" /\ page[t].seen = template[page[t].id]
       /\ entry' # entry => page[t].on = "entry" /\ page[t].seen = entry[page[t].id]
       /\ profile' # profile => page[t].on = "profile" /\ page[t].seen = profile]_libraryVars
=============================================================================
