----------------------------- MODULE WriteTask -----------------------------
(***************************************************************************)
(* A writing task: src/ai-write.                                           *)
(*                                                                         *)
(* Sections, profile and execution history live in one JSON column.  Every *)
(* handler reads the row, may wait a minute for the language model, and    *)
(* writes the whole column back, so handlers of one task that overlap      *)
(* overwrite each other.  A text is represented by where it came from and  *)
(* by the number of the write that stored it.                              *)
(***************************************************************************)
EXTENDS Integers, Sequences

CONSTANTS
    WriteCalls,    (* requests that may be in progress at the same time    *)
    MaxSections,   (* section numbers are 0 .. MaxSections - 1             *)
    TemplateSize,  (* sections of the template's outline                   *)
    HistoryLimit,  (* entries of the history that are kept: 8              *)
    KnowledgeBase, (* is a knowledge base bound to the task                *)
    Bodies,        (* what PUT :id asks of the content                     *)
    MaxWrites      (* bound on the writes of the row                       *)

SectionNumbers == 0..(MaxSections - 1)

(* A body has texts to set, and null for sections, context or content.     *)
ASSUME WriteAssumption ==
    /\ MaxSections \in Nat \ {0}
    /\ TemplateSize \in 1..MaxSections
    /\ HistoryLimit \in Nat \ {0}
    /\ KnowledgeBase \in BOOLEAN
    /\ Bodies \subseteq [profile : {"keep", "set", "clear"}, clear : BOOLEAN,
                         set : SUBSET SectionNumbers]
    /\ MaxWrites \in Nat

VARIABLES
    task,      (* the AIWriteTask row                                      *)
    calls,     (* the handlers: what they were asked and what they read    *)
    writes,    (* writes so far                                            *)
    patched    (* history: was content edited by hand since the full text  *)

writeVars == <<task, calls, writes, patched>>

GenerationModes == {"llm", "mixed", "fallback"}
(* "template" wrote where the model's answer was of no use.                *)
Texts == [at : 0..MaxWrites, by : {"nobody", "user", "template"} \cup GenerationModes]
NoText == [at |-> 0, by |-> "nobody"]
Outlines == [at : 0..MaxWrites, size : 0..MaxSections]
Contents == [sections : [SectionNumbers -> Texts], profile : BOOLEAN,
             history : Seq([at : 1..MaxWrites, mode : GenerationModes])]
EmptyContent == [sections |-> [i \in SectionNumbers |-> NoText],
                 profile |-> FALSE, history |-> <<>>]
FullTexts == [sections : [SectionNumbers -> Texts], outline : Outlines,
              since : 0..MaxWrites]
Rows == [status : {"absent", "created", "outline_ready", "completed", "deleted"},
         outline : Outlines, content : Contents, fullText : SUBSET FullTexts]

NoBody == [profile |-> "keep", clear |-> FALSE, set |-> {}]
Idle == [op |-> "none", section |-> 0, body |-> NoBody, since |-> 0,
         outline |-> [at |-> 0, size |-> 0], content |-> EmptyContent]

WriteTypeOK ==
    /\ task \in Rows
    /\ Len(task.content.history) <= HistoryLimit
    /\ writes \in 0..MaxWrites
    /\ patched \in BOOLEAN
    /\ \A c \in WriteCalls :
          /\ calls[c].op \in {"none", "outline", "section", "polish",
                              "profile", "update"}
          /\ calls[c].section \in SectionNumbers
          /\ calls[c].body \in Bodies \cup {NoBody}
          /\ calls[c].since \in 0..writes
          /\ calls[c].outline \in Outlines
          /\ calls[c].content \in Contents

Exists == task.status \notin {"absent", "deleted"}
Open(c) == calls[c].op # "none"
Now == writes + 1
-----------------------------------------------------------------------------
WriteInit ==
    /\ task = [status |-> "absent", outline |-> [at |-> 0, size |-> 0],
               content |-> EmptyContent, fullText |-> {}]
    /\ calls = [c \in WriteCalls |-> Idle]
    /\ writes = 0
    /\ patched = FALSE

(* create: with a profile or without.                                      *)
CreateTask ==
    /\ task.status = "absent"
    /\ \E p \in BOOLEAN :
          task' = [task EXCEPT !.status = "created", !.content.profile = p]
    /\ UNCHANGED <<calls, writes, patched>>

(* getOwnedTask at the start of a handler: the row is read once, before    *)
(* the knowledge base and the model are asked.                             *)
Begin(c, op, i, body) ==
    /\ ~Open(c) /\ Exists
    /\ calls' = [calls EXCEPT ![c] =
          [op |-> op, section |-> i, body |-> body, since |-> writes,
           outline |-> task.outline, content |-> task.content]]
    /\ UNCHANGED <<task, writes, patched>>

BeginOutline(c) == Begin(c, "outline", 0, NoBody)
BeginPolish(c)  == Begin(c, "polish", 0, NoBody)
BeginProfile(c) == Begin(c, "profile", 0, NoBody)
BeginUpdate(c)  == \E b \in Bodies : Begin(c, "update", 0, b)

(* generateSection refuses a section the outline does not have.            *)
BeginSection(c) ==
    \E i \in SectionNumbers : i < task.outline.size /\ Begin(c, "section", i, NoBody)

(* buildStoredContent: nothing to store is undefined to Prisma, which then *)
(* leaves the column as it is.                                             *)
BuildStoredContent(content) ==
    IF content = EmptyContent THEN task.content ELSE content

(* Mutant: no entry is ever dropped.                                       *)
BuildExecutionMetaUnbounded(history, mode) ==
    Append(history, [at |-> Now, mode |-> mode])

(* buildExecutionMeta: the entry is appended, the last ones are kept.      *)
BuildExecutionMeta(history, mode) ==
    LET all == Append(history, [at |-> Now, mode |-> mode])
    IN  IF Len(all) > HistoryLimit THEN Tail(all) ELSE all

(* resolveOverallGenerationMode                                            *)
GenerationMode(history) ==
    LET modes == {history[k].mode : k \in DOMAIN history}
    IN  IF "fallback" \in modes THEN "fallback"
        ELSE IF "mixed" \in modes THEN "mixed" ELSE "llm"

(* prisma.aIWriteTask.update at the end of a handler: it throws when the   *)
(* row is gone.                                                            *)
Write(c, row) ==
    /\ Exists
    /\ writes < MaxWrites
    /\ task' = row
    /\ writes' = Now
    /\ calls' = [calls EXCEPT ![c] = Idle]

(* tryGenerate: the model's answer can be used, is blank or cannot be      *)
(* parsed, or there is none.                                               *)
Answers == {"usable", "useless", "failed"}

(* safeDomainKnowledge: whatever becomes of the question (no access, no    *)
(* answer, an error), a knowledge base that is bound was asked.            *)
Knowledge == IF KnowledgeBase THEN "asked" ELSE "not_requested"

(* resolveGenerationMode                                                   *)
ModeOf(answer, knowledge) ==
    IF answer = "failed" THEN "fallback"
    ELSE IF knowledge = "not_requested" THEN "llm" ELSE "mixed"

(* parseOutlineResponse, or buildFallbackOutline.                          *)
OutlineSizes(answer) == IF answer = "usable" THEN 1..MaxSections ELSE {TemplateSize}

EndOutline(c) ==
    /\ calls[c].op = "outline"
    /\ \E answer \in Answers : \E n \in OutlineSizes(answer) :
          Write(c, [task EXCEPT
             !.outline = [at |-> Now, size |-> n],
             !.content = BuildStoredContent([calls[c].content EXCEPT
                 !.history = BuildExecutionMeta(@, ModeOf(answer, Knowledge))]),
             !.status = "outline_ready"])
    /\ UNCHANGED patched

(* The section of the model's answer or of buildFallbackSection.           *)
SectionText(answer) ==
    [at |-> Now, by |-> IF answer = "useless" THEN "template" ELSE ModeOf(answer, Knowledge)]

(* Mutant: only the new section is stored.                                 *)
SectionMapAlone(sections, i, text) == [EmptyContent.sections EXCEPT ![i] = text]

(* generateSection: { ...contentMap, [sectionIndex]: finalContent }        *)
SectionMap(sections, i, text) == [sections EXCEPT ![i] = text]

(* Mutant: the section is stored and the task stays completed.             *)
EndSectionQuietly(c) ==
    /\ calls[c].op = "section"
    /\ \E answer \in Answers :
          Write(c, [task EXCEPT
             !.content = BuildStoredContent([calls[c].content EXCEPT
                 !.sections = SectionMap(@, calls[c].section, SectionText(answer)),
                 !.history = BuildExecutionMeta(@, ModeOf(answer, Knowledge))])])
    /\ UNCHANGED patched

EndSection(c) ==
    /\ calls[c].op = "section"
    /\ \E answer \in Answers :
          Write(c, [task EXCEPT
             !.content = BuildStoredContent([calls[c].content EXCEPT
                 !.sections = SectionMap(@, calls[c].section, SectionText(answer)),
                 !.history = BuildExecutionMeta(@, ModeOf(answer, Knowledge))]),
             !.status = "outline_ready"])
    /\ UNCHANGED patched

(* composeFullText and buildFallbackFullText go by what was read.          *)
FullTextOf(c) ==
    [sections |-> calls[c].content.sections, outline |-> calls[c].outline,
     since |-> calls[c].since]

(* polish: a knowledge base is not asked.                                  *)
EndPolish(c) ==
    /\ calls[c].op = "polish"
    /\ \E answer \in Answers :
          Write(c, [task EXCEPT
             !.fullText = {FullTextOf(c)},
             !.content = BuildStoredContent([calls[c].content EXCEPT
                 !.history = BuildExecutionMeta(@, ModeOf(answer, "not_requested"))]),
             !.status = "completed"])
    /\ patched' = FALSE

(* updateProfile: { ...currentProfile, ...nextProfile } is always there.   *)
EndProfile(c) ==
    /\ calls[c].op = "profile"
    /\ Write(c, [task EXCEPT !.content =
          BuildStoredContent([calls[c].content EXCEPT !.profile = TRUE])])
    /\ patched' = TRUE

(* update: texts of the body replace those read, null clears.              *)
Patched(content, body) ==
    [content EXCEPT
        !.profile = IF body.profile = "keep" THEN @ ELSE body.profile = "set",
        !.sections = [i \in SectionNumbers |->
            IF i \in body.set THEN [at |-> Now, by |-> "user"]
            ELSE IF body.clear THEN NoText ELSE @[i]]]

EndUpdate(c) ==
    /\ calls[c].op = "update"
    /\ Write(c, [task EXCEPT
          !.content = BuildStoredContent(Patched(calls[c].content, calls[c].body))])
    /\ patched' = TRUE

(* A handler that throws, an update of other fields only, or a restart of  *)
(* the process: the row stays as it is, in a status one can go on from.    *)
Abandon(c) ==
    /\ Open(c)
    /\ calls' = [calls EXCEPT ![c] = Idle]
    /\ UNCHANGED <<task, writes, patched>>

DeleteTask ==
    /\ Exists
    /\ task' = [task EXCEPT !.status = "deleted"]
    /\ UNCHANGED <<calls, writes, patched>>

Handler(c) ==
    \/ BeginOutline(c) \/ BeginSection(c) \/ BeginPolish(c) \/ BeginProfile(c)
    \/ BeginUpdate(c) \/ EndOutline(c) \/ EndSection(c) \/ EndPolish(c)
    \/ EndProfile(c) \/ EndUpdate(c) \/ Abandon(c)

WriteNext == CreateTask \/ DeleteTask \/ \E c \in WriteCalls : Handler(c)

WriteSpec == WriteInit /\ [][WriteNext]_writeVars
-----------------------------------------------------------------------------
(* A handler changes a section or the profile it was not asked to change   *)
(* only when someone else changed it while the handler was waiting: then   *)
(* what was read comes back (ai-write.service.ts, every update of content).*)
AskedFor(c, i) ==
    \/ calls[c].op = "section" /\ calls[c].section = i
    \/ calls[c].op = "update" /\ (calls[c].body.clear \/ i \in calls[c].body.set)

OnlyOverlapLosesText ==
    [][\A c \in WriteCalls : calls[c].op # "none" /\ writes' > writes
                                /\ calls'[c].op = "none" =>
          /\ \A i \in SectionNumbers :
                task'.content.sections[i] # task.content.sections[i] =>
                    AskedFor(c, i) \/ calls[c].content.sections[i]
                                        # task.content.sections[i]
          /\ task.content.profile /\ ~task'.content.profile =>
                \/ calls[c].op = "update" /\ calls[c].body.profile = "clear"
                \/ ~calls[c].content.profile]_writeVars

(* What is shown of a task is true, whatever handlers overlapped.  The     *)
(* text of a completed task was composed from the very sections the row    *)
(* holds, unless someone edited them by hand since, and from the outline   *)
(* the row holds, unless that was written while the text was being         *)
(* polished; and a section written from a template because the model       *)
(* failed is not passed off as the model's: the mode shown is "fallback"   *)
(* until its entry has left the history (polish, generateSection,          *)
(* generateOutline, buildExecutionMeta).                                   *)
ShownTextIsTrue ==
    /\ task.status = "completed" /\ ~patched =>
          \E t \in task.fullText :
              /\ t.sections = task.content.sections
              /\ t.outline = task.outline \/ task.outline.at > t.since
    /\ \A i \in SectionNumbers :
          task.content.sections[i].by = "fallback" =>
              \/ GenerationMode(task.content.history) = "fallback"
              \/ /\ Len(task.content.history) = HistoryLimit
                 /\ \A k \in 1..HistoryLimit :
                       task.content.history[k].at > task.content.sections[i].at
=============================================================================
