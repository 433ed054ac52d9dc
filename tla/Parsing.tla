------------------------------ MODULE Parsing ------------------------------
(***************************************************************************)
(* From a request's words to a structured change: the deterministic parser *)
(* (adapters/parsers/deterministic.py) and the one that asks the language  *)
(* model and falls back to it (adapters/parsers/llm_backed.py).            *)
(*                                                                         *)
(* A text is the set of synonym groups it has a word of and the shapes of  *)
(* the dates it mentions.  A change names no day, a day, or words in place *)
(* of one.  An action stands for a capability with its parameters; one the *)
(* adapter's validate refuses is an element outside Served.                *)
(***************************************************************************)
EXTENDS Scenarios

CONSTANTS
  Subjects,  \* what a change may be about, "none" when nothing was recognised
  Actions,   \* what a change may ask for
  Served,    \* actions some registered adapter has and whose parameters it accepts
  Replies    \* changes the language model may answer with

Words == {"vendor", "access", "folder", "meeting", "report", "commit", "customer",
          "generally_available", "launch", "move", "delete", "repo"}

\* A date is real or not (month 13), and one without a year takes today's.
Mentions == {"full", "yearless", "unreal"}

Texts == [words : SUBSET Words, dates : SUBSET Mentions]
NoText == [words |-> {}, dates |-> {}]

Dues == {"none", "day", "words"}
Changes == [subject : Subjects, due : Dues, actions : SUBSET Actions]
ASSUMPTION RepliesAssumption == Replies \subseteq Changes

\* A move of the milestone to no date: validate wants an ISO one.
UndatedMove == "github.update_milestone_due to no date"

\* What the keywords recognise.
ASSUMPTION SubjectsAssumption == Scripted \cup {"none"} \subseteq Subjects
ASSUMPTION ActionsAssumption ==
  {"sharepoint.grant_folder_permission", "github.update_milestone_due", UndatedMove,
   "github.delete_repo"} \subseteq Actions

Due(text) == IF text.dates \cap {"full", "yearless"} # {} THEN "day" ELSE "none"

Says(text, all) == all \subseteq text.words

\* The first subject, in this order, whose words the text has.
Subject(text) ==
  IF Says(text, {"vendor"}) \/ Says(text, {"access", "folder"}) THEN "project_access"
  ELSE IF Says(text, {"meeting"}) THEN "meeting_actions"
  ELSE IF Says(text, {"report"}) THEN "weekly_report"
  ELSE IF Says(text, {"commit", "customer"}) \/ Says(text, {"generally_available"}) THEN "sso_ga"
  ELSE IF Says(text, {"launch", "move"}) THEN "launch"
  ELSE "none"

Requested(text) ==
  CASE Subject(text) = "project_access" -> {"sharepoint.grant_folder_permission"}
    [] Subject(text) = "launch" ->
         {IF Due(text) = "day" THEN "github.update_milestone_due" ELSE UndatedMove}
           \cup IF Says(text, {"delete", "repo"}) THEN {"github.delete_repo"} ELSE {}
    [] OTHER -> {}

ByKeywords(text) ==
  [subject |-> Subject(text), due |-> Due(text), actions |-> Requested(text)]

\* The model's parse, whatever it is.
ByModel_Kept(text, reply) == reply

\* The model's parse; but the keywords' when it is of a scripted subject and no
\* action of it is usable, the case the guard would block.
ByModel(text, reply) ==
  IF reply.subject \in Scripted /\ reply.actions # {} /\ reply.actions \cap Served = {}
  THEN ByKeywords(text) ELSE reply

\* What the guardrail makes of a request before the model reads it.  The managed
\* shield raises when it cannot screen; the heuristic one never does.
Screenings == {"clear", "flagged", "failed"}

\* What parse may return; nothing when the shield raises, which is not among the
\* failures it falls back on.  A flagged request is left to the keywords, as is
\* one without a model, or whose answer is no parse.
Parses(text, screening) ==
  CASE screening = "failed"  -> {}
    [] screening = "flagged" -> {ByKeywords(text)}
    [] OTHER -> {ByKeywords(text)} \cup {ByModel(text, reply) : reply \in Replies}
=============================================================================
