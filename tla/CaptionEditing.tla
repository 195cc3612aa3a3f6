--------------------------- MODULE CaptionEditing ---------------------------
(***************************************************************************)
(* Editing the captions of one project: the web editor and its queue of    *)
(* patches (apps/web: patch-queue.ts, EditorView.tsx), patchProject with   *)
(* its optimistic version (services/projects.ts, repos/projects.ts), other *)
(* clients that patch meanwhile, and the generation task that replaces the *)
(* words (services/captions.ts, worker/handlers/generate-captions.ts).     *)
(***************************************************************************)
EXTENDS CaptionText

CONSTANTS
    Words,            \* the words of the first revision
    Raw,              \* what a provider may return: sequences of raw words
    Duration,         \* of the source
    Styles,           \* style presets: records of style fields
    StylePatches,
    Tokens,           \* what a word may be replaced by: lengths of its tokens
    Replaced,         \* the groups of style fields, as sets, that the editor replaces whole
    Window,           \* words per request of loadAllWords
    OtherKinds,       \* bound: the kinds of operations other clients send
    NoStyle,
    GenerateAttempts,
    Effort,           \* the weight of a kind of operation, or of a generation,
    MaxEffort,        \* in the bound on what people do
    MaxGenerations    \* bound: how many generations are asked for

ASSUME BoundsAssumption ==
    /\ GenerateAttempts \in Nat \ {0} /\ MaxEffort \in Nat /\ MaxGenerations \in Nat
    /\ PauseMs \in Nat \ {0} /\ MinPageMs \in Nat /\ MaxPageMs \in Nat /\ TailMs \in Nat
    /\ TargetCps \in Nat /\ MaxCps \in Nat /\ MinWordMs \in Nat \ {0} /\ Unit \in Nat \ {0}
    /\ Window \in Nat \ {0}

\* A word is replaced by one token or more, none of them empty; raw words have a
\* time, and pages room for a word.
ASSUME TextAssumption ==
    /\ Words \in Seq([id : Nat, chars : Nat, start : Int, end : Int])
    /\ Raw \subseteq Seq([chars : Nat, start : Int, end : Int, punctuation : BOOLEAN])
    /\ Duration \in Nat
    /\ Tokens \subseteq Seq(Nat \ {0}) \ {<<>>}
    /\ Range(LimitsOf) \subseteq [words : Nat \ {0}, chars : Nat, line : Nat, lines : Nat \ {0}]

\* The words of the first revision last some time and have their ids from those
\* before the first new one, each its own.
ASSUME WordsAssumption ==
    /\ \A k \in 1..Len(Words) : Words[k].start < Words[k].end /\ Words[k].id \in 1..Len(Words)
    /\ \A j, k \in 1..Len(Words) : Words[j].id = Words[k].id => j = k

\* Whatever people do has a weight.
ASSUME EffortAssumption ==
    Effort \in [{"style", "delete", "generate", "replace", "timing", "insert", "split", "merge",
                 "resegment", "preset"} -> Nat \ {0}]

\* A style says how many lines a page has; so may a patch of it.
ASSUME StylesAssumption ==
    /\ \A style \in Styles \cup StylePatches : style = [f \in DOMAIN style |-> style[f]]
    /\ \A style \in Styles : "lines" \in DOMAIN style /\ style.lines \in DOMAIN LimitsOf
    /\ \A patch \in StylePatches : "lines" \in DOMAIN patch => patch.lines \in DOMAIN LimitsOf

VARIABLES
    project,      \* the row: version, status and the caption document
    revisions,    \* how many revisions there are
    fresh,        \* the next new word id
    editor,       \* the project and the words the editor shows, the requests
                  \* for words under way, the queue's version, its chain of
                  \* patches, the pending style and the request under way, a
                  \* project that is being loaded, the answer to its own
                  \* generation, and the task it waits for
    task,         \* the generate_captions task
    worker,       \* the worker that runs it and what it read
    effort        \* spent so far

vars == <<project, revisions, fresh, editor, task, worker, effort>>

Snapshot == [version |-> project.version, doc |-> project.doc]

\* buildProjectView: an answer holds the document without its words, with the
\* pages or, as startGeneration's, without them.
View(doc, pages) ==
    [style |-> doc.style, limits |-> doc.limits, count |-> Len(doc.words), pages |-> pages]
Answer(version, doc, pages) == [version |-> version, view |-> View(doc, pages)]
Views(doc) == {View(doc, doc.pages), View(doc, <<>>)}
Nothing == [version |-> 0]
NoCall == [pc |-> "none", expects |-> 0, reply |-> Nothing]

TypeOK ==
    /\ project.version \in 1 .. (1 + effort + MaxGenerations * GenerateAttempts)
    /\ project.status \in {"ready", "transcribing", "captioned"}
    /\ project.doc.revision \in 0..revisions
    /\ \A k \in DOMAIN project.doc.words : project.doc.words[k].id \in 1..(fresh - 1)
    /\ \A k \in DOMAIN project.doc.words : project.doc.words[k].start < project.doc.words[k].end
    /\ \A j, k \in DOMAIN project.doc.words :
          j < k => project.doc.words[j].id # project.doc.words[k].id
    /\ project.doc.breaks \cap project.doc.joins = {}
    /\ editor.call.pc \in {"none", "sent", "answered", "conflict", "failed"}
    /\ task.status \in {"none", "queued", "running", "succeeded", "failed", "cancelled"}
    /\ task.attempts \in 0..GenerateAttempts
    /\ worker.pc \in {"idle", "work", "read", "commit", "done", "catch", "throw"}

\* A project that was captioned, or one whose source has just become ready.
Init ==
    /\ \E captioned \in BOOLEAN, style \in Styles :
          /\ revisions = IF captioned THEN 1 ELSE 0
          /\ project = [version |-> 1, status |-> IF captioned THEN "captioned" ELSE "ready",
                doc |-> NewDocument(IF captioned THEN Words ELSE <<>>, style,
                                    LimitsOf[style.lines], IF captioned THEN 1 ELSE 0)]
    /\ fresh = Len(Words) + 1
    /\ editor = [view |-> View(project.doc, project.doc.pages), words |-> project.doc.words,
                 reloads |-> <<>>, version |-> 1, chain |-> <<>>, pending |-> NoStyle,
                 call |-> NoCall, loading |-> Nothing, conflict |-> FALSE,
                 generated |-> Nothing, waits |-> 0]
    /\ task = [number |-> 0, status |-> "none", attempts |-> 0, cancel |-> FALSE, preset |-> NoStyle]
    /\ worker = [pc |-> "idle", read |-> Nothing, again |-> FALSE]
    /\ effort = 0

-----------------------------------------------------------------------------
(* The server.                                                             *)

\* Slip: a patch that leaves the words alone keeps the version.
NextVersionOfWords(old, new) == IF old.words = new.words THEN project.version ELSE project.version + 1

NextVersion(old, new) == project.version + 1

\* commitProjectEdit: the caller has found the version it expects.
CommitEdit(doc, status) ==
    project' = [version |-> NextVersion(project.doc, doc), status |-> status, doc |-> doc]

\* patchProject's outcome for operations on the current document; an edit of
\* words needs a transcript.
Outcome(ops) ==
    LET out == Patched(project.doc, ops, fresh, revisions + 1)
    IN  [out EXCEPT !.ok = @ /\ (out.reworded => project.doc.revision # 0)]

ApplyPatch(out) ==
    /\ CommitEdit(out.doc, project.status)
    /\ fresh' = out.fresh
    /\ revisions' = IF out.reworded THEN revisions + 1 ELSE revisions

-----------------------------------------------------------------------------
(* What people may do to a document they see.                              *)

\* A client offers only what the words and pages it shows allow; words are
\* edited in the page that holds them.
Operations(words, pages) ==
    LET paged == {k \in DOMAIN words : \E p \in DOMAIN pages :
                     pages[p].from < k /\ k <= pages[p].to}
        shown == {words[k] : k \in paged}
        ids == {pages[p].id : p \in DOMAIN pages}
    IN  {op \in
           {[op |-> "delete", word |-> w.id] : w \in shown}
           \cup {[op |-> "replace", word |-> w.id, tokens |-> tokens] :
                    w \in shown, tokens \in Tokens}
           \cup {[op |-> "timing", word |-> w.id, start |-> w.start + 1, end |-> w.end] : w \in shown}
           \cup {[op |-> "insert", after |-> w.id, chars |-> 2, start |-> w.end, end |-> w.end + 1] :
                    w \in shown}
           \cup {[op |-> "split", page |-> id, word |-> w.id] : id \in ids, w \in shown}
           \cup {[op |-> "merge", page |-> id] : id \in ids}
           \cup {[op |-> "resegment", limits |-> limits] : limits \in Range(LimitsOf)}
           \cup {[op |-> "preset", style |-> style] : style \in Styles} :
        Accepts([words |-> words, pages |-> pages], op)}

StyleOp(patch) == [op |-> "style", patch |-> patch]

MayAct == effort + Min(Range(Effort)) <= MaxEffort
Spend(kind) ==
    /\ effort + Effort[kind] <= MaxEffort
    /\ effort' = effort + Effort[kind]

\* Another client (an agent, a second tab) that read the current version.
OtherPatches ==
    /\ MayAct
    /\ \E op \in Operations(project.doc.words, project.doc.pages) \cup {StyleOp(patch) : patch \in StylePatches} :
          /\ op.op \in OtherKinds /\ Spend(op.op)
          /\ \E out \in {Outcome(<<op>>)} : out.ok /\ ApplyPatch(out)
    /\ UNCHANGED <<editor, task, worker>>

-----------------------------------------------------------------------------
(* The web editor.  PatchQueue sends one patch at a time, each with the     *)
(* version the one before it returned.                                      *)

\* Fields of the merged groups one by one, the other groups whole.
MergeStylePatch(base, patch) ==
    IF base = NoStyle THEN patch
    ELSE LET gone == UNION {group \in Replaced : group \cap DOMAIN patch # {}}
         IN  [f \in (DOMAIN base \ gone) \cup DOMAIN patch |->
                 IF f \in DOMAIN patch THEN patch[f] ELSE base[f]]

\* takePendingStyle.
PendingOps == IF editor.pending = NoStyle THEN <<>> ELSE <<StyleOp(editor.pending)>>

\* style: coalesced until the debounce ends or something else is enqueued.
EditStyle(patch) ==
    /\ Spend("style")
    /\ editor' = [editor EXCEPT !.pending = MergeStylePatch(@, patch)]
    /\ UNCHANGED <<project, revisions, fresh, task, worker>>

\* The editor inserts no words and leaves the limits alone.
EditorKinds == {"delete", "replace", "timing", "split", "merge", "preset"}
Enqueue ==
    /\ MayAct
    /\ \E op \in Operations(editor.words, editor.view.pages) :
          /\ op.op \in EditorKinds /\ Spend(op.op)
          /\ editor' = [editor EXCEPT !.pending = NoStyle,
                                      !.chain = Append(@, Append(PendingOps, op))]
    /\ UNCHANGED <<project, revisions, fresh, task, worker>>

FlushStyle ==
    /\ editor.pending # NoStyle
    /\ editor' = [editor EXCEPT !.pending = NoStyle, !.chain = Append(@, PendingOps)]
    /\ UNCHANGED <<project, revisions, fresh, task, worker, effort>>

Send ==
    /\ editor.chain # <<>> /\ editor.call.pc = "none"
    /\ editor' = [editor EXCEPT !.call = [NoCall EXCEPT !.pc = "sent", !.expects = editor.version]]
    /\ UNCHANGED <<project, revisions, fresh, task, worker, effort>>

\* The server's side of the request: a conflict, a refusal or the patch.
ServePatch ==
    /\ editor.call.pc = "sent"
    /\ \E out \in {Outcome(Head(editor.chain))}, conflict \in {editor.call.expects # project.version} :
          \/ /\ ~conflict /\ out.ok
             /\ ApplyPatch(out)
             /\ editor' = [editor EXCEPT !.call.pc = "answered",
                   !.call.reply = Answer(NextVersion(project.doc, out.doc), out.doc, out.doc.pages)]
          \/ /\ conflict \/ ~out.ok
             /\ editor' = [editor EXCEPT !.call.pc = IF conflict THEN "conflict" ELSE "failed"]
             /\ UNCHANGED <<project, revisions, fresh>>
    /\ UNCHANGED <<task, worker, effort>>

\* The request or its answer is lost.
LosePatch ==
    /\ editor.call.pc \in {"sent", "answered"}
    /\ editor' = [editor EXCEPT !.call = [NoCall EXCEPT !.pc = "failed"]]
    /\ UNCHANGED <<project, revisions, fresh, task, worker, effort>>

\* setProject and resetVersion: a project is shown with its version at once.
Shows(ed, answer) == [ed EXCEPT !.version = answer.version, !.view = answer.view]

\* reloadWords, for the words that an answer counts; they are shown later.
Reloads(ed, answer) ==
    IF answer.view.count = 0 THEN [ed EXCEPT !.words = <<>>]
    ELSE [ed EXCEPT !.reloads = Append(@, [total |-> answer.view.count, offset |-> 0, words |-> <<>>])]

\* run's continuation with onResult or onError; the queue goes on either way,
\* and a conflict drops the pending style only.
HandleReply ==
    /\ editor.call.pc \in {"answered", "conflict", "failed"}
    /\ LET done == [editor EXCEPT !.chain = Tail(@), !.call = NoCall]
           reply == editor.call.reply
           reworded == \E n \in DOMAIN Head(editor.chain) : Head(editor.chain)[n].op \in WordOps
       IN  editor' = CASE editor.call.pc = "answered" ->
                             IF reworded THEN Reloads(Shows(done, reply), reply) ELSE Shows(done, reply)
                       [] editor.call.pc = "conflict" -> [done EXCEPT !.pending = NoStyle, !.conflict = TRUE]
                       [] OTHER -> done
    /\ UNCHANGED <<project, revisions, fresh, task, worker, effort>>

\* loadAllWords asks for one window after another, of whatever words the server
\* has by then, until it has asked for all or gets none.
ReadWords ==
    /\ \E r \in DOMAIN editor.reloads :
          LET reload == editor.reloads[r]
              window == SubSeq(project.doc.words, reload.offset + 1,
                               Min({reload.offset + Window, Len(project.doc.words)}))
          IN  /\ reload.offset < reload.total
              /\ editor' = [editor EXCEPT
                    !.reloads[r].words = @ \o window,
                    !.reloads[r].offset = IF window = <<>> THEN reload.total ELSE @ + Window]
    /\ UNCHANGED <<project, revisions, fresh, task, worker, effort>>

\* The words are there, in whatever order the requests end; or one of them has
\* failed, at whichever window, and no words are shown.
EndReload ==
    /\ \E r \in DOMAIN editor.reloads :
          /\ editor.reloads[r].offset >= editor.reloads[r].total
          /\ \E words \in {editor.words, editor.reloads[r].words} :
                editor' = [editor EXCEPT !.reloads = RemoveAt(@, r), !.words = words]
    /\ UNCHANGED <<project, revisions, fresh, task, worker, effort>>

Active == task.status \in {"queued", "running"}
Ended == task.status \in {"succeeded", "failed", "cancelled"}

\* load: after a conflict, or when the generation it waits for has ended.
Load ==
    /\ editor.loading = Nothing
    /\ editor.conflict \/ (editor.waits # 0 /\ editor.waits = task.number /\ Ended)
    /\ editor' = [editor EXCEPT !.loading = Answer(project.version, project.doc, project.doc.pages),
                                !.conflict = FALSE, !.waits = IF Ended THEN 0 ELSE @]
    /\ UNCHANGED <<project, revisions, fresh, task, worker, effort>>

\* load's continuation, whatever the queue has learned meanwhile.
Adopt ==
    /\ editor.loading # Nothing
    /\ editor' = [Reloads(Shows(editor, editor.loading), editor.loading) EXCEPT
                      !.pending = NoStyle, !.loading = Nothing]
    /\ UNCHANGED <<project, revisions, fresh, task, worker, effort>>

-----------------------------------------------------------------------------
(* Generation.                                                             *)

\* startGeneration.  One generation at a time, as the editor offers it; a
\* request repeated with the key of a task that exists, which only sets the
\* status again, is left out.
StartGeneration(preset) ==
    /\ ~Active /\ task.number < MaxGenerations /\ Spend("generate")
    /\ task' = [number |-> task.number + 1, status |-> "queued", attempts |-> 0, cancel |-> FALSE, preset |-> preset]
    /\ project' = [project EXCEPT !.status = "transcribing"]
    /\ UNCHANGED <<revisions, fresh, worker>>

GenerateElsewhere(preset) == StartGeneration(preset) /\ UNCHANGED editor

\* generate: the pending style is flushed first.
GenerateHere(preset) ==
    /\ editor.pending = NoStyle /\ editor.generated = Nothing
    /\ StartGeneration(preset)
    /\ editor' = [editor EXCEPT !.generated = Answer(project.version, project.doc, <<>>)]

\* Its answer has no pages, leaves the words alone and keeps the pending
\* style; or it is lost.
HandleGenerated ==
    /\ editor.generated # Nothing
    /\ \/ editor' = [Shows(editor, editor.generated) EXCEPT !.waits = task.number, !.generated = Nothing]
       \/ editor' = [editor EXCEPT !.generated = Nothing]
    /\ UNCHANGED <<project, revisions, fresh, task, worker, effort>>

CancelGeneration ==
    /\ Active /\ ~task.cancel
    /\ task' = IF task.status = "queued" THEN [task EXCEPT !.status = "cancelled"]
                                         ELSE [task EXCEPT !.cancel = TRUE]
    /\ UNCHANGED <<project, revisions, fresh, editor, worker, effort>>

Idle == [pc |-> "idle", read |-> Nothing, again |-> FALSE]
At(pc) == worker' = [Idle EXCEPT !.pc = pc, !.again = worker.again]

Claim ==
    /\ worker.pc = "idle" /\ task.status = "queued"
    /\ task' = [task EXCEPT !.status = "running", !.attempts = @ + 1]
    /\ worker' = [Idle EXCEPT !.pc = "work"]
    /\ UNCHANGED <<project, revisions, fresh, editor, effort>>

\* Extraction and transcription.  An error passes through the catch block, which
\* looks at the project unless the signal is aborted: by a cancellation that
\* the worker has seen, a timeout, a shutdown or the loss of the lease.
Fails == {"catch", "throw"}
Transcribe ==
    /\ worker.pc = "work"
    /\ \E pc \in {"read"} \cup Fails : At(pc)
    /\ UNCHANGED <<project, revisions, fresh, editor, task, effort>>

\* commit reads the current project ...
ReadProject ==
    /\ worker.pc = "read"
    /\ worker' = [worker EXCEPT !.pc = "commit", !.read = Snapshot]
    /\ UNCHANGED <<project, revisions, fresh, editor, task, effort>>

\* Slip: the version is not asked for.
AnyVersion == TRUE
Unchanged == worker.read.version = project.version

GeneratedStyle(style) == IF task.preset = NoStyle THEN style ELSE task.preset

\* ... and writes the new words and pages in the style it read.  A conflict
\* makes it read once more.
CommitGeneration ==
    /\ worker.pc = "commit"
    /\ \/ /\ Unchanged
          /\ \E raw \in Raw :
                LET words == NormalizeWords(raw, Duration)
                    style == GeneratedStyle(worker.read.doc.style)
                    named == [k \in DOMAIN words |-> [words[k] EXCEPT !.id = fresh + k - 1]]
                IN  /\ CommitEdit(NewDocument(named, style, LimitsOf[style.lines], revisions + 1),
                                  "captioned")
                    /\ fresh' = fresh + Len(words)
          /\ revisions' = revisions + 1
          /\ At("done")
       \/ /\ ~Unchanged
          /\ \E pc \in IF worker.again THEN Fails ELSE {"read"} :
                worker' = [Idle EXCEPT !.pc = pc, !.again = TRUE]
          /\ UNCHANGED <<project, revisions, fresh>>
    /\ UNCHANGED <<editor, task, effort>>

\* The catch block takes the project out of "transcribing".
CatchGeneration ==
    /\ worker.pc = "catch"
    /\ project' = IF project.status # "transcribing" THEN project
                  ELSE [project EXCEPT !.status =
                           IF project.doc.revision = 0 THEN "ready" ELSE "captioned"]
    /\ At("throw")
    /\ UNCHANGED <<revisions, fresh, editor, task, effort>>

\* completeTask, markCancelled or failTask; a second version conflict may be
\* retried, a provider's failure may be or not.
EndAttempt ==
    /\ worker.pc \in {"done", "throw"}
    /\ \E retryable \in IF worker.again THEN {TRUE} ELSE BOOLEAN :
          task' = [task EXCEPT !.status =
             IF worker.pc = "done" THEN "succeeded"
             ELSE IF task.cancel THEN "cancelled"
             ELSE IF retryable /\ task.attempts < GenerateAttempts THEN "queued" ELSE "failed"]
    /\ worker' = Idle
    /\ UNCHANGED <<project, revisions, fresh, editor, effort>>

Crash ==
    /\ worker.pc # "idle"
    /\ worker' = Idle
    /\ UNCHANGED <<project, revisions, fresh, editor, task, effort>>

\* The lease of a worker that is gone runs out.
Reclaim ==
    /\ task.status = "running" /\ worker.pc = "idle"
    /\ task' = [task EXCEPT !.status = IF task.cancel THEN "cancelled"
                   ELSE IF task.attempts < GenerateAttempts THEN "queued" ELSE "failed"]
    /\ UNCHANGED <<project, revisions, fresh, editor, worker, effort>>

-----------------------------------------------------------------------------
Next ==
    \/ OtherPatches
    \/ \E patch \in StylePatches : EditStyle(patch)
    \/ Enqueue \/ FlushStyle \/ Send \/ ServePatch \/ LosePatch \/ HandleReply \/ Load \/ Adopt
    \/ ReadWords \/ EndReload
    \/ \E preset \in Styles \cup {NoStyle} : GenerateElsewhere(preset) \/ GenerateHere(preset)
    \/ HandleGenerated
    \/ CancelGeneration \/ Claim \/ Transcribe \/ ReadProject \/ CommitGeneration
    \/ CatchGeneration \/ EndAttempt \/ Crash \/ Reclaim

Spec == Init /\ [][Next]_vars

-----------------------------------------------------------------------------
(* Properties.                                                             *)

\* "Every transcript word appears exactly once, in order, across pages and
\* lines" (qa.ts), after any patches and generations; and the time a page is
\* stretched by never makes it reach into the next one (buildPages): pages
\* overlap only where the words themselves do, which replacing a short word by
\* several brings about.
CaptionFidelity ==
    /\ Covers(project.doc.words, project.doc.pages)
    /\ InTime(project.doc.words, project.doc.pages)

\* "Pages are always derived from words + segmentation + manual constraints, so
\* they can never drift from the transcript" (state.ts): whoever writes the document
\* stores the pages that its words and constraints give.
PagesNeverDrift ==
    [][project'.doc # project.doc => project'.doc.pages = Resegmented(project'.doc).pages]_vars

\* Some paging obeys the limit of words and the constraints.
Feasible(n, most, forced, forbidden) ==
    \E starts \in SUBSET (0 .. n - 1) :
        /\ 0 \in starts /\ forced \subseteq starts /\ starts \cap forbidden = {}
        /\ \A k \in 0 .. n - most - 1 : \E s \in starts : k < s /\ s <= k + most

\* A word that must start a page does, and one that may not does not
\* (state.ts), wherever any paging can do so: joins that chain more words than
\* a page may hold fall back to plain chunks.
ConstraintsHonoured ==
    LET doc == project.doc
        forced == Forced(doc.words, doc.breaks)
        forbidden == Forbidden(doc.words, doc.breaks, doc.joins)
        starts == {doc.pages[p].from : p \in DOMAIN doc.pages}
    IN  doc.words # <<>> /\ Feasible(Len(doc.words), doc.limits.words, forced, forbidden) =>
            /\ forced \subseteq starts /\ starts \cap forbidden = {}
            /\ \A p \in DOMAIN doc.pages : doc.pages[p].manual <=> doc.pages[p].from \in forced

\* A version is one document: whoever holds the current version number holds
\* what is current of that document: the editor, an answer or a load under way
\* the project and its pages (or none, as startGeneration answers), a
\* generation about to commit all of it.  The editor's words are no part of
\* this: they come later, by requests that name no version.
VersionNamesContent ==
    /\ \A held \in {[version |-> editor.version, view |-> editor.view],
                    editor.call.reply, editor.loading, editor.generated} :
          held.version = project.version => held.view \in Views(project.doc)
    /\ worker.read.version = project.version => worker.read.doc = project.doc

\* "Edits made during transcription survive" (generate-captions.ts): the style
\* that a generation commits is the current one, or the one asked for.
LatestStyleSurvives ==
    [][worker.pc = "commit" /\ worker'.pc = "done" =>
          project'.doc.style = GeneratedStyle(project.doc.style)]_vars
=============================================================================
