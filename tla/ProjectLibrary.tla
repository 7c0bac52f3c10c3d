---------------------------- MODULE ProjectLibrary ----------------------------
(***************************************************************************)
(* The library of saved projects of apps/web_alpha/kutter_editor.js: a list *)
(* in localStorage that every tab of the editor reads once, when it opens,  *)
(* and writes as a whole after each change of its own copy.  A write may    *)
(* fail, the storage being full.  A library can be exported to a file and   *)
(* imported into another one.                                               *)
(*                                                                         *)
(* A name stands for all its spellings that differ by case, a document for  *)
(* its words.  The selected project is any project of the list; an id that  *)
(* is drawn at random is the least that nobody has.                         *)
(***************************************************************************)
EXTENDS Integers, Sequences, SequencesExt, FiniteSetsExt, Lists

CONSTANTS Tabs, Names, Docs,
          MaxProjects,      \* of a library (32 in the code)
          MaxKey            \* bound: ids that are drawn

ASSUME LibraryAssumption ==
  MaxProjects \in Nat \ {0} /\ MaxKey \in Nat \ {0} /\ Tabs # {}

VARIABLES pStored,   \* localStorage
          pSaved,    \* savedProjects of each tab
          pBackup,   \* the projects of an exported library
          pLast      \* history: the tab that wrote last, and what it did

pVars == <<pStored, pSaved, pBackup, pLast>>

Projects == [id : 1 .. MaxKey, name : Names, doc : Docs]
IdsOf(list) == {list[k].id : k \in DOMAIN list}
NamesOf(list) == {list[k].name : k \in DOMAIN list}

\* The random id of a new project.
FreshKeys ==
  LET drawn == IdsOf(pStored) \cup IdsOf(pBackup) \cup UNION {IdsOf(pSaved[t]) : t \in Tabs}
  IN {k \in 1 .. MaxKey : 1 .. k - 1 \subseteq drawn /\ k \notin drawn}

\* Tabs have just been opened on a library of one project; there is a backup of
\* another browser, with a project of the same name or of the same id.
LibraryInit ==
  /\ \E p, q \in Projects : p.id = 1 /\ q.id <= 2 /\ pStored = <<p>> /\ pBackup = <<q>>
  /\ pSaved = [t \in Tabs |-> pStored]
  /\ pLast = [tab |-> CHOOSE t \in Tabs : TRUE, imported |-> FALSE]

-----------------------------------------------------------------------------

\* Mutant: the tab takes the new list before it is written.
WritesLate(t, list, imported) ==
  /\ pStored' \in {list, pStored} /\ pSaved' = [pSaved EXCEPT ![t] = list]
  /\ pLast' = [tab |-> t, imported |-> imported] /\ UNCHANGED pBackup

\* writeSavedProjects, then savedProjects; nothing happens when the write throws.
Writes(t, list, imported) ==
  \/ /\ pStored' = list /\ pSaved' = [pSaved EXCEPT ![t] = list]
     /\ pLast' = [tab |-> t, imported |-> imported] /\ UNCHANGED pBackup
  \/ UNCHANGED pVars

\* saveProject with a new id: project-save-as and project-new
SaveAs(t) ==
  /\ Len(pSaved[t]) < MaxProjects
  /\ \E n \in Names \ NamesOf(pSaved[t]), d \in Docs, id \in FreshKeys :
       Writes(t, Append(pSaved[t], [id |-> id, name |-> n, doc |-> d]), FALSE)

\* project-update: saveProject in the place of the selected project
Update(t) == \E k \in DOMAIN pSaved[t], d \in Docs :
  Writes(t, [pSaved[t] EXCEPT ![k].doc = d], FALSE)

Rename(t) == \E k \in DOMAIN pSaved[t], n \in Names :
  /\ n \notin {pSaved[t][i].name : i \in DOMAIN pSaved[t] \ {k}}
  /\ Writes(t, [pSaved[t] EXCEPT ![k].name = n], FALSE)

\* duplicateProject: the first free name of "... copy", "... copy 2" and so on, and
\* words with a document id of their own
CopyPicked(t) ==
  /\ pSaved[t] # <<>> /\ Len(pSaved[t]) < MaxProjects
  /\ \E n \in Names \ NamesOf(pSaved[t]), d \in Docs, id \in FreshKeys :
       Writes(t, Append(pSaved[t], [id |-> id, name |-> n, doc |-> d]), FALSE)

Delete(t) == \E id \in IdsOf(pSaved[t]) :
  Writes(t, Only(pSaved[t], {p \in Projects : p.id # id}), FALSE)

Export(t) ==
  pBackup' = pSaved[t] /\ UNCHANGED <<pStored, pSaved, pLast>>

\* validateProjectLibrary
Restorable(list) ==
  /\ Len(list) <= MaxProjects
  /\ Cardinality(IdsOf(list)) = Len(list) /\ Cardinality(NamesOf(list)) = Len(list)

\* Mutant: a project with the id of one that is here takes its place.
MergedOver(list, backup) ==
  Only(list, {p \in Projects : p.id \notin IdsOf(backup)}) \o backup

\* Mutant: names are not compared.
MergedByIds(list, backup) ==
  LET new == Only(backup, {p \in Projects : p.id \notin IdsOf(list)})
  IN IF Len(list) + Len(new) <= MaxProjects THEN list \o new ELSE <<>>

\* The merge of importProjectLibrary: the projects of the backup that are not here
\* yet, one by one; <<>> when one of them conflicts or there is no room.
Merged(list, backup) ==
  LET new == Only(backup, Projects \ ToSet(list))
  IN IF /\ IdsOf(new) \cap IdsOf(list) = {} /\ NamesOf(new) \cap NamesOf(list) = {}
        /\ Len(list) + Len(new) <= MaxProjects
     THEN list \o new ELSE <<>>

\* The file is read before the merge; the merge is one step.
Import(t) ==
  LET merged == Merged(pSaved[t], pBackup)
  IN Restorable(pBackup) /\ merged # <<>> /\ Writes(t, merged, TRUE)

\* The tab is loaded again: readSavedProjects.  What other tabs stored is read now.
Reopen(t) ==
  /\ pSaved' = [pSaved EXCEPT ![t] = pStored]
  /\ pLast' = [tab |-> t, imported |-> FALSE] /\ UNCHANGED <<pStored, pBackup>>

LibraryNext == \E t \in Tabs :
  \/ SaveAs(t) \/ Update(t) \/ Rename(t) \/ CopyPicked(t) \/ Delete(t)
  \/ Export(t) \/ Import(t) \/ Reopen(t)

LibrarySpec == LibraryInit /\ [][LibraryNext]_pVars

-----------------------------------------------------------------------------
(* Properties. *)

\* Whatever tabs write over each other, the library that is stored, those that are
\* shown and the one that was exported can be imported: within the limit, with
\* ids and names of their own.
LibraryRestorable ==
  Restorable(pStored) /\ Restorable(pBackup) /\ \A t \in Tabs : Restorable(pSaved[t])

\* The tab that wrote last shows what is stored: a write that failed changed neither.
StoredIsShown == pStored = pSaved[pLast.tab]

\* No tab makes the library one that cannot be restored or is not what it shows.
ProjectsInv == LibraryRestorable /\ StoredIsShown

\* An import adds projects and leaves every project of its tab as it was.
ImportPreserves ==
  [][pLast'.imported /\ pSaved # pSaved'
       => ToSet(pSaved[pLast'.tab]) \subseteq ToSet(pSaved'[pLast'.tab])]_pVars
=============================================================================
