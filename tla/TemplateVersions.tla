---------------------------- MODULE TemplateVersions ----------------------------
(***************************************************************************)
(* The message templates of a tenant.  A template is edited by adding a    *)
(* row with the next version; approving, activating, archiving and deleting *)
(* change the row that a request has read.  A request is one session: it   *)
(* reads the row, tests its status, and commits later.                     *)
(* The content of a row never changes and is left out.                     *)
(***************************************************************************)
EXTENDS Naturals, Sequences

CONSTANTS
  Names, Editors,   \* requests that may be under way at a time
  MaxRows,          \* bound
  NoName

ASSUME TemplateAssumption == MaxRows \in Nat

VARIABLES
  templates,   \* the rows, in the order of their creation
  edits        \* per request: what it does to which row it read, or Done

templateVars == <<templates, edits>>

Done == [op |-> "done", id |-> 0, name |-> NoName, read |-> "draft", overtaken |-> FALSE]
\* approved: approved_by and approved_at are filled.
Template(name, version) ==
  [name |-> name, version |-> version, status |-> "draft", approved |-> FALSE, deleted |-> FALSE]

TemplateInit == templates = <<>> /\ edits = [e \in Editors |-> Done]

Live == {i \in DOMAIN templates : ~templates[i].deleted}
Taken(name, version) == \E i \in Live : templates[i].name = name /\ templates[i].version = version
-----------------------------------------------------------------------------
\* create_template, its check.
BeginCreate(e, name) ==
  /\ edits[e] = Done /\ Len(templates) < MaxRows /\ ~Taken(name, 1)
  /\ edits' = [edits EXCEPT ![e] = [Done EXCEPT !.op = "create", !.name = name]]
  /\ UNCHANGED templates

\* Faulty variant: any template may be activated.
AllowedFromAny(op, status) ==
  CASE op = "approve" -> status = "draft"
    [] OTHER -> op \in {"activate", "update", "archive", "delete"}

\* What a status allows; no code puts a template "in_review".
Allowed(op, status) ==
  CASE op = "approve" -> status = "draft"
    [] op = "activate" -> status = "approved"
    [] OTHER -> op \in {"update", "archive", "delete"}

\* get_template and the test of the status; an update may rename.
BeginEdit(e, i, op, name) ==
  /\ edits[e] = Done /\ i \in Live /\ Allowed(op, templates[i].status)
  /\ op = "update" => Len(templates) < MaxRows
  /\ op # "update" => name = templates[i].name
  /\ edits' = [edits EXCEPT ![e] = [op |-> op, id |-> i, name |-> name,
                                    read |-> templates[i].status, overtaken |-> FALSE]]
  /\ UNCHANGED templates

\* The other requests go on with what they read of the row.
Ends(e, i) ==
  edits' = [f \in Editors |-> IF f = e THEN Done
                              ELSE IF i > 0 /\ edits[f].id = i THEN [edits[f] EXCEPT !.overtaken = TRUE]
                              ELSE edits[f]]

\* A new row; the unique index of name and version refuses a second one.
CommitRow(e) ==
  /\ edits[e].op \in {"create", "update"} /\ Len(templates) < MaxRows
  /\ LET i == edits[e].id
         version == IF i = 0 THEN 1 ELSE templates[i].version + 1
     IN  /\ ~Taken(edits[e].name, version)
         /\ templates' = Append(templates, Template(edits[e].name, version))
  /\ Ends(e, 0)

\* The UPDATE names the row and the columns that differ from what was read.
CommitEdit(e) ==
  LET i == edits[e].id
  IN  /\ \/ /\ edits[e].op = "approve"
            /\ templates' = [templates EXCEPT ![i].status = "approved", ![i].approved = TRUE]
         \/ edits[e].op = "activate" /\ templates' = [templates EXCEPT ![i].status = "active"]
         \/ /\ edits[e].op = "archive"
            /\ templates' = IF edits[e].read = "archived" THEN templates
                            ELSE [templates EXCEPT ![i].status = "archived"]
         \/ edits[e].op = "delete" /\ templates' = [templates EXCEPT ![i].deleted = TRUE]
      /\ Ends(e, i)

AbortEdit(e) ==
  /\ edits[e] # Done /\ edits' = [edits EXCEPT ![e] = Done]
  /\ UNCHANGED templates

TemplateNext ==
  \E e \in Editors :
    \/ \E n \in Names : BeginCreate(e, n)
    \/ \E i \in DOMAIN templates, n \in Names, op \in {"approve", "activate", "update", "archive", "delete"} :
         BeginEdit(e, i, op, n)
    \/ CommitRow(e) \/ CommitEdit(e) \/ AbortEdit(e)

TemplateSpec == TemplateInit /\ [][TemplateNext]_templateVars
-----------------------------------------------------------------------------
Active(name) == {i \in Live : templates[i].name = name /\ templates[i].status = "active"}
\* get_active_template_by_name: the newest of the active rows, or 0.
Sent(name) ==
  IF Active(name) = {} THEN 0
  ELSE CHOOSE i \in Active(name) : \A j \in Active(name) : templates[j].version <= templates[i].version

Place == [draft |-> 1, approved |-> 2, active |-> 3, archived |-> 4]
Overtaken(i) == \E e \in Editors : edits[e].id = i /\ edits[e].overtaken /\ edits'[e] = Done

\* A template goes draft, approved, active, archived and never back, but by a request that had
\* read it before another changed it; what is sent was approved; and a name is sent from
\* another row only when that one is newer, or the old one was taken out of service
\* (approve_template, activate_template, archive_template, get_active_template_by_name).
WorkflowStep ==
  /\ \A i \in DOMAIN templates :
       Place[templates'[i].status] >= Place[templates[i].status] \/ Overtaken(i)
  /\ \A n \in Names :
       LET old == Sent(n)
           new == Sent(n)'
       IN  /\ new # 0 => templates'[new].approved
           /\ old # 0 /\ new # old =>
                \/ new # 0 /\ templates'[new].version > templates[old].version
                \/ templates'[old].deleted \/ templates'[old].status = "archived" \/ Overtaken(old)
\* Every step of the requests is such a step (ContentService).
WorkflowForward == [][WorkflowStep]_templateVars
=============================================================================
