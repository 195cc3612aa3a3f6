------------------------ MODULE CaptionEditingProofs ------------------------
(***************************************************************************)
(* Theorems about CaptionEditing for any words, any operations and any     *)
(* number of clients' patches, generations, crashes and lost answers: what *)
(* a version number names; that the pages and lines the two dynamic        *)
(* programs find hold every word once and in order and are the cheapest    *)
(* ones; that every document is paged as its words and constraints say;    *)
(* that word ids stay unique and versions are accounted for; and that      *)
(* captions are faithful to their transcript.                              *)
(***************************************************************************)
EXTENDS CaptionEditing, RecursionTheorems, SequenceTheorems

-----------------------------------------------------------------------------
(* The records.                                                            *)

ProjectRecord(r) == r = [version |-> r.version, status |-> r.status, doc |-> r.doc]
CallRecord(r) == r = [pc |-> r.pc, expects |-> r.expects, reply |-> r.reply]
EditorRecord(r) ==
    /\ r = [view |-> r.view, words |-> r.words, reloads |-> r.reloads, version |-> r.version,
            chain |-> r.chain, pending |-> r.pending, call |-> r.call, loading |-> r.loading,
            conflict |-> r.conflict, generated |-> r.generated, waits |-> r.waits]
    /\ CallRecord(r.call)
WorkerRecord(r) == r = [pc |-> r.pc, read |-> r.read, again |-> r.again]

Shaped == ProjectRecord(project) /\ EditorRecord(editor) /\ WorkerRecord(worker)

\* Everything but the project's document and its version.
SameDocument == project'.version = project.version /\ project'.doc = project.doc
NewVersion == project'.version = project.version + 1

-----------------------------------------------------------------------------
(* Who holds a version.                                                    *)

Seen == [version |-> editor.version, view |-> editor.view]
Viewers == {Seen, editor.call.reply, editor.loading, editor.generated}

\* Whoever holds a version holds one the server has been at, and with the
\* current one what is current of the document: a client's view of it, all of
\* it in the generation.
Knows(held) ==
    /\ held.version \in Nat /\ held.version <= project.version
    /\ held.version = project.version => held.view \in Views(project.doc)

KnowsAll(read) ==
    /\ read.version \in Nat /\ read.version <= project.version
    /\ read.version = project.version => read.doc = project.doc

VersionInv ==
    /\ Shaped
    /\ project.version \in Nat \ {0}
    /\ \A held \in Viewers : Knows(held)
    /\ KnowsAll(worker.read)

LEMMA VersionInitially == Init => VersionInv
  <1> SUFFICES ASSUME Init PROVE VersionInv
    OBVIOUS
  <1>1. project.version = 1 /\ Seen.version = 1 /\ Seen.view \in Views(project.doc)
    BY DEF Init, Seen, Views
  <1>2. /\ editor.call.reply = Nothing /\ editor.loading = Nothing /\ editor.generated = Nothing
        /\ worker.read = Nothing
    BY DEF Init, NoCall
  <1>3. Nothing.version = 0
    BY DEF Nothing
  <1>4. Shaped
    BY DEF Init, Shaped, ProjectRecord, EditorRecord, CallRecord, WorkerRecord, NoCall
  <1>5. QED
    BY <1>1, <1>2, <1>3, <1>4 DEF VersionInv, Knows, KnowsAll, Viewers

\* What a step does to the holders of versions: each keeps what it held, lets go
\* of it or takes what is current in the new state, whose document is the old one
\* or has the next version.
ViewersStep ==
    \A held \in Viewers' :
        \/ held = Nothing
        \/ held.version = project'.version /\ held.view \in Views(project'.doc)
        \/ \E h \in Viewers : held.version = h.version /\ held.view = h.view

HoldersStep ==
    /\ SameDocument \/ NewVersion
    /\ ViewersStep
    /\ \/ worker'.read \in {Nothing, worker.read}
       \/ worker'.read = Snapshot /\ SameDocument

LEMMA HoldersStepKeeps == ASSUME VersionInv, HoldersStep, Shaped' PROVE VersionInv'
  <1>1. project'.version \in Nat \ {0}
    BY DEF VersionInv, HoldersStep, SameDocument, NewVersion
  <1>2. ASSUME NEW held, held \in Viewers' PROVE Knows(held)'
    <2>1. CASE held = Nothing
      BY <2>1, <1>1 DEF Knows, Nothing
    <2>2. CASE held.version = project'.version /\ held.view \in Views(project'.doc)
      BY <2>2, <1>1 DEF Knows
    <2>3. ASSUME NEW h \in Viewers, held.version = h.version, held.view = h.view
          PROVE  Knows(held)'
      <3>1. Knows(held) /\ project.version \in Nat
        BY <2>3 DEF VersionInv, Knows
      <3>2. CASE SameDocument
        BY <3>1, <3>2 DEF SameDocument, Knows
      <3>3. CASE NewVersion
        BY <3>1, <3>3 DEF NewVersion, Knows
      <3>4. QED
        BY <3>2, <3>3 DEF HoldersStep
    <2>4. QED
      BY <1>2, <2>1, <2>2, <2>3 DEF HoldersStep, ViewersStep
  <1>3. KnowsAll(worker.read)'
    <2>1. CASE worker'.read = Nothing
      BY <2>1, <1>1 DEF KnowsAll, Nothing
    <2>2. CASE worker'.read = worker.read
      BY <2>2 DEF VersionInv, KnowsAll, HoldersStep, SameDocument, NewVersion
    <2>3. CASE worker'.read = Snapshot /\ SameDocument
      BY <2>3, <1>1 DEF KnowsAll, Snapshot, SameDocument
    <2>4. QED
      BY <2>1, <2>2, <2>3 DEF HoldersStep
  <1>4. QED
    BY <1>1, <1>2, <1>3 DEF VersionInv

\* A write with the next version.
LEMMA CommitDoes ==
    ASSUME NEW doc, NEW status, CommitEdit(doc, status)
    PROVE  /\ NewVersion /\ project'.doc = doc /\ project'.status = status
           /\ ProjectRecord(project')
  BY DEF CommitEdit, NewVersion, NextVersion, ProjectRecord

\* An answer of the server to a project as it is.
LEMMA AnswerIs ==
    ASSUME NEW version, NEW doc, NEW pages, pages \in {doc.pages, <<>>}
    PROVE  Answer(version, doc, pages).version = version /\ Answer(version, doc, pages).view \in Views(doc)
  BY DEF Answer, Views

\* An editor of the right shape whose holders change as said.
LEMMA EditorOnly ==
    ASSUME VersionInv, SameDocument, ProjectRecord(project'), UNCHANGED worker, EditorRecord(editor'),
           \/ editor'.version = editor.version /\ editor'.view = editor.view
           \/ \E h \in Viewers : editor'.version = h.version /\ editor'.view = h.view,
           editor'.call.reply \in Viewers \cup {Nothing},
           \A held \in {editor'.loading, editor'.generated} :
               \/ held \in Viewers \cup {Nothing}
               \/ \E pages \in {project.doc.pages, <<>>} :
                      held = Answer(project.version, project.doc, pages)
    PROVE  VersionInv'
  <1>1. Shaped'
    BY DEF VersionInv, Shaped
  <1>2. \A held \in {editor'.loading, editor'.generated} :
           \/ held \in Viewers \cup {Nothing}
           \/ held.version = project'.version /\ held.view \in Views(project'.doc)
    BY AnswerIs DEF SameDocument
  <1>3. ViewersStep
    BY <1>2 DEF ViewersStep, Viewers, Seen
  <1>4. QED
    BY <1>1, <1>3, HoldersStepKeeps DEF HoldersStep

LEMMA VersionServer == ASSUME VersionInv, ServePatch PROVE VersionInv'
  <1>1. PICK out, conflict :
          \/ /\ ApplyPatch(out)
             /\ editor' = [editor EXCEPT !.call.pc = "answered",
                   !.call.reply = Answer(NextVersion(project.doc, out.doc), out.doc, out.doc.pages)]
          \/ /\ editor' = [editor EXCEPT !.call.pc = IF conflict THEN "conflict" ELSE "failed"]
             /\ UNCHANGED <<project, revisions, fresh>>
    BY DEF ServePatch
  <1>2. UNCHANGED worker /\ EditorRecord(editor) /\ ProjectRecord(project)
    BY DEF ServePatch, VersionInv, Shaped
  <1>3. CASE /\ ApplyPatch(out)
             /\ editor' = [editor EXCEPT !.call.pc = "answered",
                   !.call.reply = Answer(NextVersion(project.doc, out.doc), out.doc, out.doc.pages)]
    <2>1. NewVersion /\ project'.doc = out.doc /\ ProjectRecord(project')
      BY <1>3, CommitDoes DEF ApplyPatch
    <2>2. PICK answer : answer = Answer(NextVersion(project.doc, out.doc), out.doc, out.doc.pages)
      OBVIOUS
    <2>3. /\ EditorRecord(editor')
          /\ editor'.version = editor.version /\ editor'.view = editor.view
          /\ editor'.loading = editor.loading /\ editor'.generated = editor.generated
          /\ editor'.call.reply = answer
      BY <1>2, <1>3, <2>2 DEF EditorRecord, CallRecord
    <2>4. answer.version = project'.version /\ answer.view \in Views(project'.doc)
      BY <2>1, <2>2, AnswerIs DEF NewVersion, NextVersion
    <2>5. ViewersStep
      BY <2>3, <2>4 DEF ViewersStep, Viewers, Seen
    <2>6. Shaped'
      BY <1>2, <2>1, <2>3 DEF Shaped, VersionInv
    <2>7. QED
      BY <1>2, <2>1, <2>5, <2>6, HoldersStepKeeps DEF HoldersStep
  <1>4. CASE /\ editor' = [editor EXCEPT !.call.pc = IF conflict THEN "conflict" ELSE "failed"]
             /\ UNCHANGED <<project, revisions, fresh>>
    <2>1. /\ EditorRecord(editor')
          /\ editor'.version = editor.version /\ editor'.view = editor.view
          /\ editor'.loading = editor.loading /\ editor'.call.reply = editor.call.reply
          /\ editor'.generated = editor.generated
      BY <1>2, <1>4 DEF EditorRecord, CallRecord
    <2>2. QED
      BY <1>2, <1>4, <2>1, EditorOnly DEF Viewers, SameDocument
  <1>5. QED
    BY <1>1, <1>3, <1>4

\* What the continuations do to an editor: a project and its version are shown
\* together, and words are asked for or dropped.
LEMMA ShowsDoes ==
    ASSUME NEW ed, NEW answer, NEW e, EditorRecord(ed), e = Shows(ed, answer)
    PROVE  /\ EditorRecord(e) /\ e.version = answer.version /\ e.view = answer.view
           /\ e.words = ed.words /\ e.reloads = ed.reloads /\ e.chain = ed.chain
           /\ e.pending = ed.pending /\ e.call = ed.call /\ e.loading = ed.loading
           /\ e.generated = ed.generated
  BY DEF EditorRecord, CallRecord, Shows

\* A request for words just begun.
Asked(answer) == [total |-> answer.view.count, offset |-> 0, words |-> <<>>]

LEMMA ReloadsDoes ==
    ASSUME NEW ed, NEW answer, NEW e, EditorRecord(ed), e = Reloads(ed, answer)
    PROVE  /\ EditorRecord(e)
           /\ e.version = ed.version /\ e.view = ed.view /\ e.chain = ed.chain
           /\ e.pending = ed.pending /\ e.call = ed.call /\ e.loading = ed.loading
           /\ e.generated = ed.generated /\ e.words \in {ed.words, <<>>}
           /\ e.reloads \in {ed.reloads, Append(ed.reloads, Asked(answer))}
  <1>1. PICK asked : asked = Asked(answer)
    OBVIOUS
  <1>2. CASE e = [ed EXCEPT !.words = <<>>]
    BY <1>2 DEF EditorRecord, CallRecord
  <1>3. CASE e = [ed EXCEPT !.reloads = Append(@, asked)]
    BY <1>1, <1>3 DEF EditorRecord, CallRecord
  <1>4. QED
    BY <1>1, <1>2, <1>3 DEF Reloads, Asked

\* What HandleReply, by its outcome, leaves of the editor.
LEMMA ReplyDoes ==
    ASSUME EditorRecord(editor), HandleReply
    PROVE  /\ EditorRecord(editor') /\ editor'.call = NoCall
           /\ editor'.chain = Tail(editor.chain) /\ editor'.pending \in {editor.pending, NoStyle}
           /\ editor'.loading = editor.loading /\ editor'.generated = editor.generated
           /\ \/ editor'.version = editor.version /\ editor'.view = editor.view
              \/ /\ editor.call.pc = "answered"
                 /\ editor'.version = editor.call.reply.version
                 /\ editor'.view = editor.call.reply.view
           /\ editor'.words \in {editor.words, <<>>}
           /\ \/ editor'.reloads = editor.reloads
              \/ /\ editor.call.pc = "answered"
                 /\ editor'.reloads = Append(editor.reloads, Asked(editor.call.reply))
  <1>1. PICK done : done = [editor EXCEPT !.chain = Tail(@), !.call = NoCall]
    OBVIOUS
  <1>2. PICK reply : reply = editor.call.reply
    OBVIOUS
  <1>3. PICK shown : shown = Shows(done, reply)
    OBVIOUS
  <1>4. PICK conflicted : conflicted = [done EXCEPT !.pending = NoStyle, !.conflict = TRUE]
    OBVIOUS
  <1>5. /\ EditorRecord(done) /\ done.call = NoCall /\ done.chain = Tail(editor.chain)
        /\ done.pending = editor.pending /\ done.loading = editor.loading
        /\ done.generated = editor.generated /\ done.version = editor.version
        /\ done.view = editor.view /\ done.words = editor.words /\ done.reloads = editor.reloads
    BY <1>1 DEF EditorRecord, CallRecord, NoCall
  <1>6. \/ editor' \in {done, conflicted}
        \/ editor.call.pc = "answered" /\ editor' \in {shown, Reloads(shown, reply)}
    BY <1>1, <1>2, <1>3, <1>4 DEF HandleReply
  <1>7. CASE editor' = done
    BY <1>5, <1>7
  <1>8. CASE editor' = conflicted
    BY <1>4, <1>5, <1>8 DEF EditorRecord, CallRecord
  <1>9. /\ EditorRecord(shown) /\ shown.call = NoCall /\ shown.chain = Tail(editor.chain)
        /\ shown.pending = editor.pending /\ shown.loading = editor.loading
        /\ shown.generated = editor.generated /\ shown.version = reply.version
        /\ shown.view = reply.view /\ shown.words = editor.words /\ shown.reloads = editor.reloads
    BY <1>3, <1>5, ShowsDoes
  <1>10. CASE editor.call.pc = "answered" /\ editor' = shown
    BY <1>2, <1>9, <1>10
  <1>11. CASE editor.call.pc = "answered" /\ editor' = Reloads(shown, reply)
    BY <1>2, <1>9, <1>11, ReloadsDoes
  <1>12. QED
    BY <1>6, <1>7, <1>8, <1>10, <1>11

\* And what Adopt does.
LEMMA AdoptDoes ==
    ASSUME EditorRecord(editor), Adopt
    PROVE  /\ EditorRecord(editor') /\ editor'.call = editor.call
           /\ editor'.chain = editor.chain /\ editor'.pending = NoStyle
           /\ editor'.loading = Nothing /\ editor'.generated = editor.generated
           /\ editor'.version = editor.loading.version /\ editor'.view = editor.loading.view
           /\ editor'.words \in {editor.words, <<>>}
           /\ editor'.reloads \in {editor.reloads, Append(editor.reloads, Asked(editor.loading))}
  <1>1. PICK shown : shown = Shows(editor, editor.loading)
    OBVIOUS
  <1>2. PICK reloaded : reloaded = Reloads(shown, editor.loading)
    OBVIOUS
  <1>3. /\ EditorRecord(shown) /\ shown.call = editor.call /\ shown.chain = editor.chain
        /\ shown.generated = editor.generated /\ shown.version = editor.loading.version
        /\ shown.view = editor.loading.view /\ shown.words = editor.words
        /\ shown.reloads = editor.reloads
    BY <1>1, ShowsDoes
  <1>4. /\ EditorRecord(reloaded) /\ reloaded.call = editor.call /\ reloaded.chain = editor.chain
        /\ reloaded.generated = editor.generated /\ reloaded.version = editor.loading.version
        /\ reloaded.view = editor.loading.view /\ reloaded.words \in {editor.words, <<>>}
        /\ reloaded.reloads \in {editor.reloads, Append(editor.reloads, Asked(editor.loading))}
    BY <1>2, <1>3, ReloadsDoes
  <1>5. editor' = [reloaded EXCEPT !.pending = NoStyle, !.loading = Nothing]
    BY <1>1, <1>2 DEF Adopt
  <1>6. QED
    BY <1>4, <1>5 DEF EditorRecord, CallRecord

\* ReadWords and EndReload change the words and the requests for them only.
LEMMA WordsDo ==
    ASSUME EditorRecord(editor), ReadWords \/ EndReload
    PROVE  /\ EditorRecord(editor')
           /\ editor'.version = editor.version /\ editor'.view = editor.view
           /\ editor'.chain = editor.chain /\ editor'.pending = editor.pending
           /\ editor'.call = editor.call /\ editor'.loading = editor.loading
           /\ editor'.generated = editor.generated
  <1>1. CASE ReadWords
    <2>1. PICK words, offset, r :
             editor' = [editor EXCEPT !.reloads[r].words = words, !.reloads[r].offset = offset]
      BY <1>1 DEF ReadWords
    <2>2. PICK reloads : editor' = [editor EXCEPT !.reloads = reloads]
      BY <2>1
    <2>3. QED
      BY <2>2 DEF EditorRecord, CallRecord
  <1>2. CASE EndReload
    <2>1. PICK words, reloads : editor' = [editor EXCEPT !.reloads = reloads, !.words = words]
      BY <1>2 DEF EndReload
    <2>2. QED
      BY <2>1 DEF EditorRecord, CallRecord
  <1>3. QED
    BY <1>1, <1>2

\* The answer to the editor's own generation is shown, or lost.
LEMMA GeneratedDoes ==
    ASSUME EditorRecord(editor), HandleGenerated
    PROVE  /\ EditorRecord(editor')
           /\ \/ editor'.version = editor.version /\ editor'.view = editor.view
              \/ /\ editor'.version = editor.generated.version
                 /\ editor'.view = editor.generated.view
           /\ editor'.words = editor.words /\ editor'.reloads = editor.reloads
           /\ editor'.chain = editor.chain /\ editor'.pending = editor.pending
           /\ editor'.call = editor.call /\ editor'.loading = editor.loading
           /\ editor'.generated = Nothing
  <1>1. PICK shown : shown = Shows(editor, editor.generated)
    OBVIOUS
  <1>2. /\ EditorRecord(shown) /\ shown.call = editor.call /\ shown.chain = editor.chain
        /\ shown.pending = editor.pending /\ shown.loading = editor.loading
        /\ shown.version = editor.generated.version /\ shown.view = editor.generated.view
        /\ shown.words = editor.words /\ shown.reloads = editor.reloads
    BY <1>1, ShowsDoes
  <1>3. CASE editor' = [shown EXCEPT !.waits = task.number, !.generated = Nothing]
    BY <1>2, <1>3 DEF EditorRecord, CallRecord
  <1>4. CASE editor' = [editor EXCEPT !.generated = Nothing]
    BY <1>4 DEF EditorRecord, CallRecord
  <1>5. QED
    BY <1>1, <1>3, <1>4 DEF HandleGenerated

\* The editor's own steps.
LEMMA VersionEditor ==
    ASSUME VersionInv,
           \/ \E patch \in StylePatches : EditStyle(patch)
           \/ Enqueue \/ FlushStyle \/ Send \/ LosePatch \/ HandleReply \/ Load \/ Adopt
           \/ ReadWords \/ EndReload \/ HandleGenerated
    PROVE  VersionInv'
  <1>1. EditorRecord(editor) /\ ProjectRecord(project)
    BY DEF VersionInv, Shaped
  <1>2. UNCHANGED <<project, worker>>
    BY DEF EditStyle, Enqueue, FlushStyle, Send, LosePatch, HandleReply, Load, Adopt, ReadWords,
           EndReload, HandleGenerated
  <1>3. SameDocument /\ ProjectRecord(project')
    BY <1>1, <1>2 DEF SameDocument
  <1>4. ASSUME EditorRecord(editor'),
               editor'.version = editor.version, editor'.view = editor.view,
               editor'.loading = editor.loading, editor'.generated = editor.generated,
               editor'.call.reply \in {editor.call.reply, Nothing}
        PROVE  VersionInv'
    BY <1>2, <1>3, <1>4, EditorOnly DEF Viewers
  <1>5. CASE (\E patch \in StylePatches : EditStyle(patch)) \/ Enqueue \/ FlushStyle
    <2>1. PICK pending, chain : editor' = [editor EXCEPT !.pending = pending, !.chain = chain]
      <3>1. CASE \E patch \in StylePatches : EditStyle(patch)
        <4>1. PICK pending : editor' = [editor EXCEPT !.pending = pending]
          BY <3>1 DEF EditStyle
        <4>2. editor' = [editor EXCEPT !.pending = pending, !.chain = editor.chain]
          BY <1>1, <4>1 DEF EditorRecord
        <4>3. QED
          BY <4>2
      <3>2. CASE Enqueue \/ FlushStyle
        BY <3>2 DEF Enqueue, FlushStyle
      <3>3. QED
        BY <1>5, <3>1, <3>2
    <2>2. /\ EditorRecord(editor')
          /\ editor'.version = editor.version /\ editor'.view = editor.view
          /\ editor'.loading = editor.loading /\ editor'.generated = editor.generated
          /\ editor'.call = editor.call
      BY <1>1, <2>1 DEF EditorRecord
    <2>3. QED
      BY <1>4, <2>2
  <1>6. CASE Send \/ LosePatch
    <2>1. PICK call : CallRecord(call) /\ call.reply = Nothing
                      /\ editor' = [editor EXCEPT !.call = call]
      <3>1. PICK sent : sent = [NoCall EXCEPT !.pc = "sent", !.expects = editor.version]
        OBVIOUS
      <3>2. PICK lost : lost = [NoCall EXCEPT !.pc = "failed"]
        OBVIOUS
      <3>3. CallRecord(sent) /\ sent.reply = Nothing /\ CallRecord(lost) /\ lost.reply = Nothing
        BY <3>1, <3>2 DEF NoCall, CallRecord
      <3>4. editor' = [editor EXCEPT !.call = sent] \/ editor' = [editor EXCEPT !.call = lost]
        BY <1>6, <3>1, <3>2 DEF Send, LosePatch
      <3>5. QED
        BY <3>3, <3>4
    <2>2. /\ EditorRecord(editor')
          /\ editor'.version = editor.version /\ editor'.view = editor.view
          /\ editor'.loading = editor.loading /\ editor'.generated = editor.generated
          /\ editor'.call.reply = Nothing
      BY <1>1, <2>1 DEF EditorRecord
    <2>3. QED
      BY <1>4, <2>2
  <1>7. CASE HandleReply
    <2>1. NoCall.reply = Nothing
      BY DEF NoCall
    <2>2. QED
      BY <1>1, <1>2, <1>3, <1>7, <2>1, ReplyDoes, EditorOnly DEF Viewers
  <1>8. CASE Load
    <2>1. PICK answer : answer = Answer(project.version, project.doc, project.doc.pages)
      OBVIOUS
    <2>2. /\ EditorRecord(editor')
          /\ editor'.version = editor.version /\ editor'.view = editor.view
          /\ editor'.loading = answer /\ editor'.call = editor.call
          /\ editor'.generated = editor.generated
      BY <1>1, <1>8, <2>1 DEF EditorRecord, Load
    <2>3. QED
      BY <1>2, <1>3, <2>1, <2>2, EditorOnly DEF Viewers
  <1>9. CASE Adopt
    BY <1>1, <1>2, <1>3, <1>9, AdoptDoes, EditorOnly DEF Viewers
  <1>10. CASE ReadWords \/ EndReload
    BY <1>1, <1>4, <1>10, WordsDo
  <1>11. CASE HandleGenerated
    BY <1>1, <1>2, <1>3, <1>11, GeneratedDoes, EditorOnly DEF Viewers
  <1>12. QED
    BY <1>5, <1>6, <1>7, <1>8, <1>9, <1>10, <1>11

\* The steps of other clients and of the generation.
LEMMA VersionOthers ==
    ASSUME VersionInv, UNCHANGED editor, ProjectRecord(project'), WorkerRecord(worker'),
           SameDocument \/ NewVersion,
           \/ worker'.read \in {Nothing, worker.read}
           \/ worker'.read = Snapshot /\ SameDocument
    PROVE  VersionInv'
  <1>1. Shaped'
    BY DEF VersionInv, Shaped
  <1>2. ViewersStep
    BY DEF ViewersStep, Viewers, Seen
  <1>3. QED
    BY <1>1, <1>2, HoldersStepKeeps DEF HoldersStep

LEMMA VersionGeneration ==
    ASSUME VersionInv,
           \/ OtherPatches \/ (\E preset \in Styles \cup {NoStyle} : GenerateElsewhere(preset) \/ GenerateHere(preset))
           \/ CancelGeneration \/ Claim \/ Transcribe \/ ReadProject \/ CommitGeneration
           \/ CatchGeneration \/ EndAttempt \/ Crash \/ Reclaim
    PROVE  VersionInv'
  <1>1. ProjectRecord(project) /\ WorkerRecord(worker)
    BY DEF VersionInv, Shaped
  <1>2. CASE OtherPatches
    <2>1. PICK out : ApplyPatch(out)
      BY <1>2 DEF OtherPatches
    <2>2. NewVersion /\ ProjectRecord(project') /\ UNCHANGED <<editor, worker>>
      BY <1>2, <2>1, CommitDoes DEF ApplyPatch, OtherPatches
    <2>3. QED
      BY <1>1, <2>2, VersionOthers
  <1>3. ASSUME NEW preset \in Styles \cup {NoStyle}, GenerateElsewhere(preset) \/ GenerateHere(preset)
        PROVE  VersionInv'
    <2>1. SameDocument /\ ProjectRecord(project') /\ UNCHANGED worker
      BY <1>1, <1>3 DEF GenerateElsewhere, GenerateHere, StartGeneration, ProjectRecord, SameDocument
    <2>2. CASE GenerateElsewhere(preset)
      BY <1>1, <2>1, <2>2, VersionOthers DEF GenerateElsewhere
    <2>3. CASE GenerateHere(preset)
      <3>1. PICK answer : answer = Answer(project.version, project.doc, <<>>)
        OBVIOUS
      <3>2. EditorRecord(editor)
        BY DEF VersionInv, Shaped
      <3>3. /\ EditorRecord(editor')
            /\ editor'.version = editor.version /\ editor'.view = editor.view
            /\ editor'.loading = editor.loading /\ editor'.call = editor.call
            /\ editor'.generated = answer
        BY <2>3, <3>1, <3>2 DEF EditorRecord, GenerateHere
      <3>4. QED
        BY <2>1, <3>1, <3>3, EditorOnly DEF Viewers
    <2>4. QED
      BY <1>3, <2>2, <2>3
  <1>4. CASE CancelGeneration \/ Claim \/ Transcribe \/ EndAttempt \/ Crash \/ Reclaim
    <2>1. UNCHANGED <<editor, project>>
      BY <1>4 DEF CancelGeneration, Claim, Transcribe, EndAttempt, Crash, Reclaim
    <2>2. \/ UNCHANGED worker
          \/ \E pc, again : worker' = [pc |-> pc, read |-> Nothing, again |-> again]
      <3>1. CASE CancelGeneration \/ Reclaim
        BY <3>1 DEF CancelGeneration, Reclaim
      <3>2. CASE Claim \/ EndAttempt \/ Crash
        BY <3>2 DEF Claim, EndAttempt, Crash, Idle
      <3>3. CASE Transcribe
        <4>1. PICK pc : At(pc)
          BY <3>3 DEF Transcribe
        <4>2. QED
          BY <4>1 DEF At, Idle
      <3>4. QED
        BY <1>4, <3>1, <3>2, <3>3
    <2>3. WorkerRecord(worker') /\ worker'.read \in {worker.read, Nothing}
      BY <1>1, <2>2 DEF WorkerRecord
    <2>4. QED
      BY <1>1, <2>1, <2>3, VersionOthers DEF SameDocument
  <1>5. CASE ReadProject
    <2>1. UNCHANGED <<editor, project>>
      BY <1>5 DEF ReadProject
    <2>2. WorkerRecord(worker') /\ worker'.read = Snapshot
      BY <1>1, <1>5 DEF ReadProject, WorkerRecord
    <2>3. QED
      BY <1>1, <2>1, <2>2, VersionOthers DEF SameDocument
  <1>6. CASE CommitGeneration
    <2>1. CASE ~Unchanged /\ UNCHANGED project
      <3>1. UNCHANGED <<editor, project>> /\ WorkerRecord(worker') /\ worker'.read = Nothing
        BY <1>6, <2>1 DEF CommitGeneration, Idle, WorkerRecord
      <3>2. QED
        BY <1>1, <3>1, VersionOthers DEF SameDocument
    <2>2. CASE (\E doc : CommitEdit(doc, "captioned")) /\ At("done")
      <3>1. NewVersion /\ ProjectRecord(project') /\ UNCHANGED editor
        BY <1>6, <2>2, CommitDoes DEF CommitGeneration
      <3>2. WorkerRecord(worker') /\ worker'.read = Nothing
        BY <2>2 DEF At, Idle, WorkerRecord
      <3>3. QED
        BY <3>1, <3>2, VersionOthers
    <2>3. QED
      BY <1>6, <2>1, <2>2 DEF CommitGeneration
  <1>7. CASE CatchGeneration
    <2>1. SameDocument /\ ProjectRecord(project') /\ UNCHANGED editor
      BY <1>1, <1>7 DEF CatchGeneration, ProjectRecord, SameDocument
    <2>2. WorkerRecord(worker') /\ worker'.read = Nothing
      BY <1>7 DEF CatchGeneration, At, Idle, WorkerRecord
    <2>3. QED
      BY <2>1, <2>2, VersionOthers
  <1>8. QED
    BY <1>2, <1>3, <1>4, <1>5, <1>6, <1>7

LEMMA VersionStep == VersionInv /\ [Next]_vars => VersionInv'
  <1> SUFFICES ASSUME VersionInv, [Next]_vars PROVE VersionInv'
    OBVIOUS
  <1>1. CASE UNCHANGED vars
    BY <1>1 DEF vars, VersionInv, Shaped, Viewers, Seen, Knows, KnowsAll, Views, View
  <1>2. CASE Next
    BY <1>2, VersionServer, VersionEditor, VersionGeneration DEF Next
  <1>3. QED
    BY <1>1, <1>2

\* A new document has the words, style, limits and revision it is made of, and no
\* constraints.
LEMMA NewDocumentIs ==
    ASSUME NEW words, NEW style, NEW limits, NEW revision,
           NEW doc, doc = NewDocument(words, style, limits, revision)
    PROVE  /\ doc.words = words /\ doc.style = style /\ doc.limits = limits
           /\ doc.revision = revision /\ doc.breaks = {} /\ doc.joins = {}
           /\ doc.pages = PagesOf(words, limits, {}, {}, revision)
  <1>1. PICK blank : blank = [words |-> words, style |-> style, limits |-> limits, breaks |-> {},
                              joins |-> {}, pages |-> <<>>, revision |-> revision]
    OBVIOUS
  <1>2. doc = Resegmented(blank)
    BY <1>1 DEF NewDocument
  <1>3. PICK pages : pages = PagesOf(blank.words, blank.limits, blank.breaks, blank.joins, blank.revision)
    OBVIOUS
  <1>4. doc = [blank EXCEPT !.breaks = blank.breaks \cap Ids(blank.words),
                            !.joins = blank.joins \cap Ids(blank.words), !.pages = pages]
    BY <1>2, <1>3 DEF Resegmented
  <1>5. QED
    BY <1>1, <1>3, <1>4

LEMMA VersionInvariant == Spec => []VersionInv
  BY VersionInitially, VersionStep, PTL DEF Spec

\* Whoever holds the current version number holds what is current of the
\* document: the editor, an answer or a load under way the project and its pages,
\* or none, and a generation about to commit the whole document.  The words that the
\* editor shows are not among it: it asks for them later and without a version.
THEOREM VersionIsContent == Spec => []VersionNamesContent
  <1>1. VersionInv => VersionNamesContent
    BY DEF VersionInv, VersionNamesContent, Viewers, Seen, Knows, KnowsAll
  <1>2. QED
    BY <1>1, VersionInvariant, PTL

\* The style that a generation commits is the current one, or the one it was asked
\* for: what was edited while it transcribed is not lost (generate-captions.ts).
THEOREM StyleSurvives == Spec => LatestStyleSurvives
  <1>1. ASSUME VersionInv, [Next]_vars, worker.pc = "commit", worker'.pc = "done"
        PROVE  project'.doc.style = GeneratedStyle(project.doc.style)
    <2>1. CommitGeneration
      <3>1. worker' # worker
        BY <1>1
      <3>2. Claim \/ Transcribe \/ ReadProject \/ CommitGeneration
              \/ CatchGeneration \/ EndAttempt \/ Crash
        BY <1>1, <3>1 DEF Next, vars, OtherPatches, EditStyle, Enqueue, FlushStyle, Send,
                 ServePatch, LosePatch, HandleReply, Load, Adopt, ReadWords, EndReload,
                 GenerateElsewhere, GenerateHere, StartGeneration, HandleGenerated,
                 CancelGeneration, Reclaim
      <3>3. ~Crash
        BY <1>1 DEF Crash, Idle
      <3>4. QED
        BY <1>1, <3>2, <3>3 DEF Claim, Transcribe, ReadProject, CatchGeneration, EndAttempt
    <2>2. PICK words, style : /\ style = GeneratedStyle(worker.read.doc.style)
                              /\ CommitEdit(NewDocument(words, style, LimitsOf[style.lines],
                                                        revisions + 1), "captioned")
                              /\ Unchanged
      BY <1>1, <2>1 DEF CommitGeneration, Idle, Fails
    <2>3. project'.doc.style = style
      <3>1. project'.doc = NewDocument(words, style, LimitsOf[style.lines], revisions + 1)
        BY <2>2, CommitDoes
      <3>2. QED
        BY <3>1, NewDocumentIs
    <2>4. worker.read.doc = project.doc
      BY <1>1, <2>2 DEF VersionInv, KnowsAll, Unchanged
    <2>5. QED
      BY <2>2, <2>3, <2>4
  <1>2. VersionInv /\ [Next]_vars =>
          (worker.pc = "commit" /\ worker'.pc = "done" =>
             project'.doc.style = GeneratedStyle(project.doc.style))
    BY <1>1
  <1>3. QED
    BY <1>2, VersionInvariant, PTL DEF Spec, LatestStyleSurvives

-----------------------------------------------------------------------------
(* What documents and operations are made of.                              *)

Word == [id : Nat, chars : Nat, start : Int, end : Int]
RawWord == [chars : Nat, start : Int, end : Int, punctuation : BOOLEAN]
Limits == [words : Nat \ {0}, chars : Nat, line : Nat, lines : Nat \ {0}]

StyleValues == UNION {Range(style) : style \in Styles \cup StylePatches}
StyleFields == UNION {DOMAIN style : style \in Styles \cup StylePatches}
PartialStyle == UNION {[fields -> StyleValues] : fields \in SUBSET StyleFields}
PatchType == {patch \in PartialStyle :
                 "lines" \in DOMAIN patch => patch["lines"] \in DOMAIN LimitsOf}
StyleType == {style \in PatchType : "lines" \in DOMAIN style}

\* The documents with the given pages.
Docs(pages) ==
    [words : Seq(Word), style : StyleType, limits : Limits, breaks : SUBSET Nat,
     joins : SUBSET Nat, pages : {pages}, revision : Nat]

OpTyped(op) ==
    \/ op.op = "style" /\ op.patch \in PatchType
    \/ op.op = "preset" /\ op.style \in Styles
    \/ op.op = "resegment" /\ op.limits \in Limits
    \/ op.op = "replace" /\ op.tokens \in Tokens
    \/ op.op = "timing" /\ op.start \in Int /\ op.end \in Int
    \/ op.op = "insert" /\ op.chars \in Nat /\ op.start \in Int /\ op.end \in Int
    \/ op.op \in {"delete", "split", "merge"}

LEMMA StylesTyped == Styles \subseteq StyleType /\ StylePatches \subseteq PatchType
  <1>1. ASSUME NEW style \in Styles \cup StylePatches PROVE style \in PartialStyle
    <2>1. style = [f \in DOMAIN style |-> style[f]]
      BY StylesAssumption
    <2>2. \A f \in DOMAIN style : style[f] \in StyleValues
      <3>1. \A f \in DOMAIN style : style[f] \in Range(style)
        BY DEF Range
      <3>2. QED
        BY <3>1 DEF StyleValues
    <2>3. DOMAIN style \in SUBSET StyleFields
      BY DEF StyleFields
    <2>4. style \in [DOMAIN style -> StyleValues]
      BY <2>1, <2>2
    <2>5. QED
      BY <2>3, <2>4 DEF PartialStyle
  <1>2. QED
    BY <1>1, StylesAssumption DEF StyleType, PatchType

LEMMA MaxOf ==
    ASSUME NEW a \in Int, NEW b \in Int
    PROVE  /\ Max({a, b}) \in Int /\ Max({a, b}) >= a /\ Max({a, b}) >= b
           /\ Max({a, b}) \in {a, b}
  <1>1. \E x \in {a, b} : \A y \in {a, b} : x >= y
    <2>1. CASE a >= b
      BY <2>1
    <2>2. CASE b >= a
      BY <2>2
    <2>3. QED
      BY <2>1, <2>2
  <1>2. Max({a, b}) \in {a, b} /\ \A y \in {a, b} : Max({a, b}) >= y
    BY <1>1 DEF Max
  <1>3. QED
    BY <1>2

LEMMA MinOf ==
    ASSUME NEW a \in Int, NEW b \in Int
    PROVE  /\ Min({a, b}) \in Int /\ Min({a, b}) <= a /\ Min({a, b}) <= b
           /\ Min({a, b}) \in {a, b}
  <1>1. \E x \in {a, b} : \A y \in {a, b} : x <= y
    <2>1. CASE a <= b
      BY <2>1
    <2>2. CASE b <= a
      BY <2>2
    <2>3. QED
      BY <2>1, <2>2
  <1>2. Min({a, b}) \in {a, b} /\ \A y \in {a, b} : Min({a, b}) <= y
    BY <1>1 DEF Min
  <1>3. QED
    BY <1>2

LEMMA RoundedType ==
    ASSUME NEW a \in Int, NEW b \in Nat \ {0}
    PROVE  Rounded(a, b) \in Int
  <1>1. 2 * a + b \in Int /\ 2 * b \in Int /\ 2 * b > 0
    OBVIOUS
  <1>2. QED
    BY <1>1 DEF Rounded

\* A text of one token or more, none of them empty, is not empty.
LEMMA TokensWeigh ==
    ASSUME NEW tokens \in Tokens
    PROVE  MapThenSumSet(LAMBDA k : tokens[k], DOMAIN tokens) \in Nat \ {0}
  <1>1. tokens \in Seq(Nat \ {0}) /\ tokens # <<>>
    BY TextAssumption
  <1>2. MapThenSumSet(LAMBDA k : tokens[k], DOMAIN tokens) = SumFunctionOnSet(tokens, DOMAIN tokens)
    BY DEF MapThenSumSet, SumFunctionOnSet, FoldFunctionOnSet
  <1>3. DOMAIN tokens = 1..Len(tokens) /\ Len(tokens) \in Nat \ {0}
    BY <1>1
  <1>4. IsFiniteSet(DOMAIN tokens) /\ IsFiniteSet(DOMAIN tokens \ {1})
    <2>1. IsFiniteSet(1..Len(tokens))
      BY <1>3, FS_Interval
    <2>2. QED
      BY <1>3, <2>1, FS_Subset
  <1>5. 1 \in DOMAIN tokens /\ \A k \in DOMAIN tokens : tokens[k] \in Nat \ {0}
    BY <1>1, <1>3
  <1>6. /\ SumFunctionOnSet(tokens, DOMAIN tokens)
               = tokens[1] + SumFunctionOnSet(tokens, DOMAIN tokens \ {1})
        /\ SumFunctionOnSet(tokens, DOMAIN tokens \ {1}) \in Nat
    BY <1>4, <1>5, SumRemove, SumNat
  <1>7. QED
    BY <1>2, <1>5, <1>6

\* The words that replace one are words and last some time; the first keeps its id.
LEMMA ReplacementsTyped ==
    ASSUME NEW word \in Word, NEW tokens \in Tokens, NEW fresh0 \in Nat \ {0},
           NEW new, new = Replacements(word, tokens, fresh0)
    PROVE  /\ new \in Seq(Word) /\ Len(new) = Len(tokens) /\ Len(tokens) \in Nat \ {0}
           /\ \A k \in 1..Len(tokens) : new[k].id = IF k = 1 THEN word.id ELSE fresh0 + k - 2
           /\ \A k \in 1..Len(tokens) : new[k].start < new[k].end
  <1> DEFINE total == MapThenSumSet(LAMBDA k : tokens[k], DOMAIN tokens)
             share(k) == Max({1, Rounded((word.end - word.start) * tokens[k], total)})
             n == Len(tokens)
  <1>1. n \in Nat \ {0} /\ \A k \in 1..n : tokens[k] \in Nat
    BY TextAssumption
  <1>2. total \in Nat \ {0}
    BY TokensWeigh
  <1>3. \A k \in 1..n : share(k) \in Int
    <2> SUFFICES ASSUME NEW k \in 1..n PROVE share(k) \in Int
      OBVIOUS
    <2>1. (word.end - word.start) * tokens[k] \in Int
      BY <1>1 DEF Word
    <2> HIDE DEF total
    <2>2. PICK part \in Int : part = Rounded((word.end - word.start) * tokens[k], total)
      BY <1>2, <2>1, RoundedType
    <2>3. share(k) = Max({1, part})
      BY <2>2
    <2>4. Max({1, part}) \in Int
      <3>1. PICK one \in Int : one = 1
        OBVIOUS
      <3>2. Max({one, part}) \in Int
        BY MaxOf
      <3>3. QED
        BY <3>1, <3>2
    <2>5. QED
      BY <2>3, <2>4
  <1> HIDE DEF total
  <1> DEFINE Def(g) == [k \in 1..n |-> IF k = 1 THEN word.start ELSE g[k-1] + share(k-1)]
             start == CHOOSE g : g = Def(g)
  <1>4. \E g : g = Def(g)
    <2> DEFINE step == [k \in 1 .. n - 1 |-> [v \in Int |-> v + share(k)]]
    <2>1. \A k \in 1 .. n - 1 : \A v \in Int : step[k][v] = v + share(k) /\ step[k][v] \in Int
      BY <1>3
    <2>2. word.start \in Int /\ n - 1 \in Nat
      BY <1>1 DEF Word
    <2>3. PICK g \in [0 .. n - 1 -> Int] : Follows(g, word.start, step, n - 1)
      <3> HIDE DEF step
      <3>1. QED
        BY <2>1, <2>2, Recursion
    <2> HIDE DEF step, share
    <2> DEFINE h == [k \in 1..n |-> g[k - 1]]
    <2>4. ASSUME NEW k \in 1..n
          PROVE  h[k] = IF k = 1 THEN word.start ELSE h[k-1] + share(k-1)
      <3>1. CASE k = 1
        <4>1. 0 \in 0 .. n - 1
          BY <1>1
        <4>2. g[0] = word.start
          BY <2>3, <4>1 DEF Follows
        <4>3. QED
          BY <3>1, <4>2
      <3>2. CASE k # 1
        <4>1. /\ k - 1 \in 1 .. n - 1 /\ k - 1 \in 0 .. n - 1 /\ k - 1 # 0
              /\ k - 1 - 1 = k - 2 /\ g[k - 2] \in Int /\ h[k - 1] = g[k - 2]
          <5>1. PICK m \in Nat : m = n
            BY <1>1
          <5>2. /\ k - 1 \in 1 .. m - 1 /\ k - 1 \in 0 .. m - 1 /\ k - 1 # 0
                /\ k - 1 - 1 = k - 2 /\ k - 2 \in 0 .. m - 1 /\ k - 1 \in 1..m
            BY <3>2, <5>1
          <5>3. QED
            BY <2>3, <5>1, <5>2
        <4>2. g[k - 1] = step[k - 1][g[k - 2]]
          BY <4>1, <2>3 DEF Follows
        <4>3. QED
          BY <3>2, <4>1, <4>2, <2>1
      <3>3. QED
        BY <3>1, <3>2
    <2>5. h = Def(h)
        BY <2>4
    <2>6. QED
      BY <2>5
  <1>5. start = Def(start)
    <2> HIDE DEF Def
    <2>1. QED
      BY <1>4
  <1>6. \A k \in 1..n : start[k] \in Int
    <2> DEFINE T == {k \in 0 .. n - 1 : start[k + 1] \in Int}
    <2> HIDE DEF start, share
    <2>1. 0 \in T
      BY <1>1, <1>5 DEF Word
    <2>2. ASSUME NEW k \in 1 .. n - 1, k - 1 \in T PROVE k \in T
      <3>1. start[k + 1] = start[k] + share(k) /\ start[k] \in Int
        BY <1>1, <1>5, <2>2
      <3>2. PICK a \in Int : a = start[k]
        BY <3>1
      <3>3. PICK b \in Int : b = share(k)
        BY <1>1, <1>3
      <3>4. start[k + 1] = a + b /\ k \in 0 .. n - 1
        BY <1>1, <3>1, <3>2, <3>3
      <3>5. QED
        BY <3>4
    <2> HIDE DEF T
    <2>3. \A k \in 0 .. n - 1 : k \in T
      <3>1. n - 1 \in Nat
        BY <1>1
      <3> HIDE DEF n
      <3>2. QED
        BY <2>1, <2>2, <3>1, Upward
    <2>4. QED
      <3> SUFFICES ASSUME NEW k \in 1..n PROVE start[k] \in Int
        OBVIOUS
      <3>1. k - 1 \in T
        BY <1>1, <2>3
      <3>2. QED
        BY <3>1 DEF T
  <1> DEFINE result == [k \in 1 .. n |->
            [id |-> IF k = 1 THEN word.id ELSE fresh0 + k - 2, chars |-> tokens[k],
             start |-> start[k],
             end |-> Max({start[k] + 1,
                          IF k = n THEN word.end ELSE start[k] + share(k)})]]
  <1>7. Replacements(word, tokens, fresh0) = result
    BY DEF Replacements, TokenId, total
  <1>8. ASSUME NEW k \in 1..n
        PROVE  [id |-> IF k = 1 THEN word.id ELSE fresh0 + k - 2, chars |-> tokens[k],
             start |-> start[k],
             end |-> Max({start[k] + 1,
                          IF k = n THEN word.end ELSE start[k] + share(k)})] \in Word
    <2> HIDE DEF start, share
    <2>1. (IF k = n THEN word.end ELSE start[k] + share(k)) \in Int /\ start[k] \in Int
      BY <1>3, <1>6 DEF Word
    <2>2. Max({start[k] + 1, IF k = n THEN word.end ELSE start[k] + share(k)}) \in Int
      <3>1. PICK a \in Int : a = start[k] + 1
        BY <2>1
      <3>2. PICK b \in Int : b = IF k = n THEN word.end ELSE start[k] + share(k)
        BY <2>1
      <3>3. QED
        BY <3>1, <3>2, MaxOf
    <2>3. (IF k = 1 THEN word.id ELSE fresh0 + k - 2) \in Nat
      BY DEF Word
    <2>4. QED
      BY <1>1, <2>1, <2>2, <2>3 DEF Word
  <1> HIDE DEF start, share
  <1>9. new \in [1..n -> Word]
    <2>1. result \in [1..n -> Word]
      BY <1>8
    <2> HIDE DEF result
    <2>2. QED
      BY <1>7, <2>1
  <1>10. new \in Seq(Word) /\ Len(new) = n
    BY <1>1, <1>9
  <1>11. ASSUME NEW k \in 1..n PROVE new[k].start < new[k].end
    <2>1. PICK a \in Int, b \in Int :
             a = start[k] + 1 /\ b = IF k = n THEN word.end ELSE start[k] + share(k)
      BY <1>3, <1>6 DEF Word
    <2>2. new[k].start = start[k] /\ new[k].end = Max({a, b})
      BY <1>7, <2>1
    <2>3. Max({a, b}) \in Int /\ Max({a, b}) >= a
      BY MaxOf
    <2>4. QED
      BY <1>6, <2>1, <2>2, <2>3
  <1>12. ASSUME NEW k \in 1..n PROVE new[k].id = IF k = 1 THEN word.id ELSE fresh0 + k - 2
    BY <1>7, <1>12
  <1>13. QED
    BY <1>1, <1>10, <1>11, <1>12

LEMMA IndexIs ==
    ASSUME NEW words \in Seq(Word), NEW id, id \in Ids(words)
    PROVE  Index(words, id) \in 1..Len(words) /\ words[Index(words, id)].id = id /\ id \in Nat
  <1>1. \E k \in DOMAIN words : words[k].id = id
    BY DEF Ids
  <1>2. DOMAIN words = 1..Len(words) /\ \A k \in 1..Len(words) : words[k] \in Word
    OBVIOUS
  <1>3. QED
    BY <1>1, <1>2 DEF Index, Word

LEMMA StyleEdited ==
    ASSUME NEW style \in StyleType, NEW patch \in PatchType
    PROVE  ApplyStyle(style, patch) \in StyleType
  <1> DEFINE result == [f \in DOMAIN style |-> IF f \in DOMAIN patch THEN patch[f] ELSE style[f]]
  <1>1. PICK fields \in SUBSET StyleFields : style \in [fields -> StyleValues]
    BY DEF StyleType, PatchType, PartialStyle
  <1>2. PICK some \in SUBSET StyleFields : patch \in [some -> StyleValues]
    BY DEF PatchType, PartialStyle
  <1>3. result \in [fields -> StyleValues]
    BY <1>1, <1>2
  <1>4. "lines" \in fields /\ style["lines"] \in DOMAIN LimitsOf
    BY <1>1 DEF StyleType, PatchType
  <1>5. "lines" \in some => patch["lines"] \in DOMAIN LimitsOf
    BY <1>2 DEF PatchType
  <1>6. DOMAIN result = fields /\ result["lines"] \in DOMAIN LimitsOf
    BY <1>1, <1>2, <1>4, <1>5
  <1>7. result \in PartialStyle
    BY <1>1, <1>3 DEF PartialStyle
  <1>8. ApplyStyle(style, patch) = result
    BY DEF ApplyStyle
  <1> HIDE DEF result
  <1>9. QED
    BY <1>4, <1>6, <1>7, <1>8 DEF StyleType, PatchType

LEMMA LimitsTyped == \A style \in StyleType : LimitsOf[style.lines] \in Limits
  BY TextAssumption DEF StyleType, PatchType, Range, Limits

-----------------------------------------------------------------------------
(* Ranges that tile 0..n.                                                  *)

Tiles(ranges, n) ==
    /\ ranges \in Seq(Nat \X Nat) /\ n \in Nat
    /\ \A p \in 1..Len(ranges) :
          /\ ranges[p][1] = IF p = 1 THEN 0 ELSE ranges[p - 1][2]
          /\ ranges[p][1] < ranges[p][2] /\ ranges[p][2] <= n
    /\ n = IF ranges = <<>> THEN 0 ELSE ranges[Len(ranges)][2]

LEMMA TilesEmpty == Tiles(<<>>, 0)
  BY DEF Tiles

LEMMA TilesAppend ==
    ASSUME NEW ranges, NEW from, Tiles(ranges, from), NEW to \in Nat, from < to
    PROVE  Tiles(Append(ranges, <<from, to>>), to)
  <1>1. PICK n \in Nat : n = Len(ranges)
    BY DEF Tiles
  <1>2. PICK longer : longer = Append(ranges, <<from, to>>)
    OBVIOUS
  <1>3. /\ longer \in Seq(Nat \X Nat) /\ Len(longer) = n + 1 /\ longer # <<>>
        /\ longer[n + 1] = <<from, to>> /\ \A p \in 1..n : longer[p] = ranges[p]
    BY <1>1, <1>2 DEF Tiles
  <1>4. longer[n + 1][1] = from /\ longer[n + 1][2] = to
    BY <1>3
  <1>5. ASSUME NEW p \in 1 .. n + 1
        PROVE  /\ longer[p][1] = IF p = 1 THEN 0 ELSE longer[p - 1][2]
               /\ longer[p][1] < longer[p][2] /\ longer[p][2] <= to
    <2>1. CASE p = n + 1
      <3>1. CASE n = 0
        <4>1. ranges = <<>>
          <5>1. ranges \in Seq(Nat \X Nat) /\ Len(ranges) = 0
            BY <1>1, <3>1 DEF Tiles
          <5>2. QED
            BY <5>1
        <4>2. from = 0
          BY <4>1 DEF Tiles
        <4>3. QED
          BY <1>4, <2>1, <3>1, <4>2
      <3>2. CASE n # 0
        <4>1. ranges # <<>> /\ n \in 1..n
          BY <1>1, <3>2
        <4>2. from = longer[n][2]
          BY <1>1, <1>3, <4>1 DEF Tiles
        <4>3. QED
          BY <1>4, <2>1, <3>2, <4>2
      <3>3. QED
        BY <3>1, <3>2
    <2>2. CASE p # n + 1
      <3>1. p \in 1..n /\ (p # 1 => p - 1 \in 1..n)
        BY <2>2
      <3>2. /\ ranges[p][1] = IF p = 1 THEN 0 ELSE ranges[p - 1][2]
            /\ ranges[p][1] < ranges[p][2] /\ ranges[p][2] <= from
        BY <1>1, <3>1 DEF Tiles
      <3>3. longer[p] = ranges[p] /\ (p # 1 => longer[p - 1] = ranges[p - 1])
        BY <1>3, <3>1
      <3>4. ranges[p] \in Nat \X Nat
        BY <1>1, <3>1 DEF Tiles
      <3>5. ranges[p][2] \in Nat /\ from \in Nat
        BY <3>4 DEF Tiles
      <3>6. QED
        BY <3>2, <3>3, <3>5
    <2>3. QED
      BY <2>1, <2>2
  <1>6. Tiles(longer, to)
    BY <1>3, <1>4, <1>5 DEF Tiles
  <1>7. QED
    BY <1>2, <1>6

\* Ranges of `size' words, but for the last.
LEMMA ChunksTile ==
    ASSUME NEW n \in Nat, NEW size \in Nat \ {0}
    PROVE  Tiles(Chunks(n, size), n)
  <1>1. PICK m \in Int : m = (n + size - 1) \div size
    OBVIOUS
  <1>2. m \in Nat /\ m * size >= n /\ (m - 1) * size < n
    BY <1>1
  <1> DEFINE ranges == [p \in 1..m |-> <<(p - 1) * size, Min({n, p * size})>>]
  <1>3. Chunks(n, size) = ranges
    BY <1>1 DEF Chunks
  <1>4. ASSUME NEW p \in 1..m
        PROVE  /\ (p - 1) * size \in Nat /\ p * size \in Nat
               /\ Min({n, p * size}) = IF p = m THEN n ELSE p * size
               /\ (p - 1) * size < Min({n, p * size}) /\ Min({n, p * size}) <= n
    <2>1. /\ (p - 1) * size \in Nat /\ p * size \in Nat /\ p * size = (p - 1) * size + size
      OBVIOUS
    <2>2. /\ Min({n, p * size}) \in {n, p * size} /\ Min({n, p * size}) <= n
          /\ Min({n, p * size}) <= p * size
      BY <2>1, MinOf
    <2>3. CASE p = m
      <3>1. p * size >= n /\ (p - 1) * size < n
        BY <1>2, <2>3
      <3>2. QED
        BY <2>1, <2>2, <2>3, <3>1
    <2>4. CASE p # m
      <3>1. p <= m - 1
        BY <1>2, <2>4
      <3>2. p * size <= (m - 1) * size
        BY <1>2, <3>1
      <3>3. (m - 1) * size \in Int /\ p * size < n
        BY <1>2, <2>1, <3>2
      <3>4. QED
        BY <2>1, <2>2, <2>4, <3>3
    <2>5. QED
      BY <2>3, <2>4
  <1>5. ranges \in Seq(Nat \X Nat) /\ Len(ranges) = m
    <2>1. ranges \in [1..m -> Nat \X Nat]
      BY <1>4
    <2> HIDE DEF ranges
    <2>2. QED
      BY <1>2, <2>1
  <1>6. \A p \in 1..m : ranges[p][1] = (p - 1) * size /\ ranges[p][2] = Min({n, p * size})
    OBVIOUS
  <1>7. n = 0 <=> m = 0
    <2>1. CASE m = 0
      BY <1>2, <2>1
    <2>2. CASE m # 0
      <3>1. (m - 1) * size \in Nat
        BY <1>2, <2>2
      <3>2. QED
        BY <1>2, <2>2, <3>1
    <2>3. QED
      BY <2>1, <2>2
  <1> HIDE DEF ranges
  <1>8. ASSUME NEW p \in 1..m
        PROVE  ranges[p][1] = IF p = 1 THEN 0 ELSE ranges[p - 1][2]
    <2>1. CASE p = 1
      <3>1. (p - 1) * size = 0
        BY <2>1
      <3>2. QED
        BY <1>6, <2>1, <3>1
    <2>2. CASE p # 1
      <3>1. p - 1 \in 1..m /\ p - 1 # m
        BY <1>2, <2>2
      <3>2. QED
        BY <1>4, <1>6, <2>2, <3>1
    <2>3. QED
      BY <2>1, <2>2
  <1>9. n = IF ranges = <<>> THEN 0 ELSE ranges[Len(ranges)][2]
    <2>1. CASE m = 0
      BY <1>5, <1>7, <2>1
    <2>2. CASE m # 0
      <3>1. m \in 1..m /\ ranges # <<>>
        BY <1>2, <1>5, <2>2
      <3>2. QED
        BY <1>4, <1>5, <1>6, <3>1
    <2>3. QED
      BY <2>1, <2>2
  <1>10. \A p \in 1..m : ranges[p][1] < ranges[p][2] /\ ranges[p][2] <= n
    BY <1>4, <1>6
  <1>11. Tiles(ranges, n)
    BY <1>5, <1>8, <1>9, <1>10 DEF Tiles
  <1>12. QED
    BY <1>3, <1>11

-----------------------------------------------------------------------------
(* The cuts of the dynamic programs.                                       *)

\* Among finitely many costs one is the least.
LEMMA CheapestIs ==
    ASSUME NEW S, IsFiniteSet(S), S # {}, NEW cost \in [S -> Int]
    PROVE  Cheapest(cost) # {} /\ Cheapest(cost) \subseteq S
  <1> DEFINE T == {U \in SUBSET S : U # {} => \E f \in U : \A g \in U : cost[f] <= cost[g]}
  <1>1. ASSUME NEW U \in SUBSET S, \A x \in U : U \ {x} \in T PROVE U \in T
    <2>1. CASE U = {}
      BY <2>1
    <2>2. CASE U # {}
      <3>1. PICK x : x \in U
        BY <2>2
      <3>2. CASE U \ {x} = {}
        <4>1. \A g \in U : g = x
          BY <3>1, <3>2
        <4>2. QED
          BY <3>1, <4>1
      <3>3. CASE U \ {x} # {}
        <4>1. PICK f \in U \ {x} : \A g \in U \ {x} : cost[f] <= cost[g]
          BY <1>1, <3>1, <3>3
        <4>2. CASE cost[f] <= cost[x]
          <5>1. \A g \in U : cost[f] <= cost[g]
            BY <4>1, <4>2
          <5>2. QED
            BY <4>1, <5>1
        <4>3. CASE ~(cost[f] <= cost[x])
          <5>1. \A g \in U : cost[x] <= cost[g]
            BY <3>1, <4>1, <4>3
          <5>2. QED
            BY <3>1, <5>1
        <4>4. QED
          BY <4>2, <4>3
      <3>4. QED
        BY <3>2, <3>3
    <2>3. QED
      BY <2>1, <2>2
  <1> HIDE DEF T
  <1>2. S \in T
    BY <1>1, Descent
  <1>3. QED
    BY <1>2 DEF T, Cheapest

\* A finite set of numbers has a greatest and a least.
LEMMA ExtremesAre ==
    ASSUME NEW S \in SUBSET Int, IsFiniteSet(S), S # {}
    PROVE  Max(S) \in S /\ Min(S) \in S
  <1>1. PICK up : up = [k \in S |-> k]
    OBVIOUS
  <1>2. PICK down : down = [k \in S |-> -k]
    OBVIOUS
  <1>3. up \in [S -> Int] /\ down \in [S -> Int]
    BY <1>1, <1>2
  <1>4. PICK x \in S : x \in Cheapest(up)
    BY <1>3, CheapestIs
  <1>5. PICK y \in S : y \in Cheapest(down)
    BY <1>3, CheapestIs
  <1>6. \A k \in S : x <= k
    BY <1>1, <1>4 DEF Cheapest
  <1>7. \A k \in S : y >= k
    BY <1>2, <1>5 DEF Cheapest
  <1>8. QED
    BY <1>6, <1>7 DEF Max, Min

\* What is kept of the cuts: those that were found tile their prefix.
CutRecord == [found : BOOLEAN, cost : Int, ranges : Seq(Nat \X Nat)]
PageCuts(k) == {cuts \in [0..k -> CutRecord] :
                   \A t \in 0..k : cuts[t].found => Tiles(cuts[t].ranges, t)}

LEMMA CharsTyped ==
    ASSUME NEW chars \in Seq(Nat), NEW from \in Nat, NEW to \in 0..Len(chars)
    PROVE  /\ CharsOf(chars, from, to) \in Int
           /\ from < to => CharsOf(chars, from, to) \in Nat
  <1>1. MapThenSumSet(LAMBDA k : chars[k], from+1 .. to) = SumFunctionOnSet(chars, from+1 .. to)
    BY DEF MapThenSumSet, SumFunctionOnSet, FoldFunctionOnSet
  <1>2. IsFiniteSet(from+1 .. to)
    BY FS_Interval
  <1>3. \A k \in from+1 .. to : chars[k] \in Nat
    OBVIOUS
  <1>4. PICK sum \in Nat : sum = SumFunctionOnSet(chars, from+1 .. to)
    BY <1>2, <1>3, SumNat
  <1>5. CharsOf(chars, from, to) = sum + (to - from - 1)
    BY <1>1, <1>4 DEF CharsOf
  <1>6. QED
    BY <1>5

LEMMA LengthsTyped ==
    ASSUME NEW words \in Seq(Word)
    PROVE  Lengths(words) \in Seq(Nat) /\ Len(Lengths(words)) = Len(words)
  <1>1. Lengths(words) \in [1..Len(words) -> Nat]
    <2>1. DOMAIN words = 1..Len(words) /\ \A k \in 1..Len(words) : words[k] \in Word
      OBVIOUS
    <2>2. \A k \in 1..Len(words) : words[k].chars \in Nat
      BY <2>1 DEF Word
    <2>3. QED
      BY <2>1, <2>2 DEF Lengths
  <1>2. QED
    BY <1>1

LEMMA PartTyped == ASSUME NEW a \in Int, NEW b \in Nat \ {0} PROVE Part(a, b) \in Int
  <1>1. PICK c \in Int : c = a * Unit
    BY BoundsAssumption
  <1>2. c \div b \in Int
    OBVIOUS
  <1>3. QED
    BY <1>1, <1>2 DEF Part

LEMMA PauseScoreTyped == ASSUME NEW gap \in Int PROVE PauseScore(gap) \in Int
  <1>1. PICK u \in Int : u = 4 * Unit
    BY BoundsAssumption
  <1>2. PICK a \in Int : a = Part(gap, PauseMs)
    BY PartTyped, BoundsAssumption
  <1>3. Min({u, a}) \in Int
    BY MinOf
  <1>4. Part(3, 2) \in Int /\ Part(6, 5) \in Int
    BY PartTyped
  <1>5. PICK c \in Int, d \in Int, e \in Int : c = Min({u, a}) /\ d = Part(3, 2) /\ e = Part(6, 5)
    BY <1>3, <1>4
  <1>6. PauseScore(gap) = IF gap >= PauseMs THEN -(u + c)
                          ELSE IF 2 * gap >= PauseMs THEN -d ELSE IF gap < 60 THEN e ELSE 0
    BY <1>1, <1>2, <1>5 DEF PauseScore
  <1>7. QED
    BY <1>6

LEMMA TextScoreTyped == ASSUME NEW prev, NEW next PROVE TextScore(prev, next) \in Int
  <1>1. PICK a \in Int : a = CASE prev.end = "sentence" -> -6 [] prev.end = "clause" -> -3 [] OTHER -> 0
    OBVIOUS
  <1>2. PICK b \in Int : b = IF next.quote THEN -1 ELSE 0
    OBVIOUS
  <1>3. PICK c \in Int : c = IF next.starter THEN -2 ELSE 0
    OBVIOUS
  <1>4. PICK d \in Int : d = IF prev.weak THEN 3 ELSE 0
    OBVIOUS
  <1>5. PICK e \in Int :
           e = IF prev.speaker # 0 /\ next.speaker # 0 /\ prev.speaker # next.speaker THEN -5 ELSE 0
    OBVIOUS
  <1>6. TextScore(prev, next) = a + b + c + d + e
    BY <1>1, <1>2, <1>3, <1>4, <1>5 DEF TextScore
  <1>7. QED
    BY <1>6

\* The terms of a page's cost that depend on its length, its time and its size.
LEMMA TermsTyped ==
    ASSUME NEW chars \in Nat, NEW limits \in Limits, NEW ms \in Int, ms >= 1, NEW size, NEW n \in Nat,
           NEW final \in BOOLEAN, NEW single \in BOOLEAN
    PROVE  /\ Overlong(chars, limits, single) \in Int
           /\ DurationCost(ms, final) \in Int /\ SpeedCost(chars, ms) \in Int
           /\ FillCost(chars, limits, final) \in Int /\ OrphanCost(size, n, final) \in Int
  <1>1. limits.chars \in Nat
    BY DEF Limits
  <1>2. Overlong(chars, limits, single) \in Int
    BY <1>1 DEF Overlong
  <1>3. PICK u \in Nat : u = Unit
    BY BoundsAssumption
  <1>4. DurationCost(ms, final) \in Int
    <2>1. ms - MaxPageMs \in Int
      BY BoundsAssumption
    <2>2. PICK a \in Int : a = Part(ms - MaxPageMs, 250)
      BY <2>1, PartTyped
    <2>3. PICK b \in Int : b = IF ms > MaxPageMs THEN 12 * u + a ELSE 0
      OBVIOUS
    <2>4. PICK c \in Int : c = IF ms < MinPageMs /\ ~final THEN 3 * u ELSE 0
      OBVIOUS
    <2>5. DurationCost(ms, final) = b + c
      BY <1>3, <2>2, <2>3, <2>4 DEF DurationCost
    <2>6. QED
      BY <2>5
  <1>5. SpeedCost(chars, ms) \in Int
    <2>1. PICK over \in Int : over = 2 * (1000 * chars - MaxCps * ms)
      BY BoundsAssumption
    <2>2. PICK a \in Int : a = Part(2 * (1000 * chars - MaxCps * ms), ms)
      BY <2>1, PartTyped
    <2>3. PICK some \in Int : some = 6 * (1000 * chars - TargetCps * ms)
      BY BoundsAssumption
    <2>4. PICK tenfold \in Nat \ {0} : tenfold = 10 * ms
      OBVIOUS
    <2>5. PICK b \in Int : b = Part(6 * (1000 * chars - TargetCps * ms), 10 * ms)
      BY <2>3, <2>4, PartTyped
    <2>6. SpeedCost(chars, ms) \in {8 * u + a, b, 0}
      BY <1>3, <2>2, <2>5 DEF SpeedCost
    <2>7. QED
      BY <2>6
  <1>6. FillCost(chars, limits, final) \in Int
    <2>1. CASE 100 * chars < 35 * limits.chars /\ ~final
      <3>1. PICK left \in Int, all \in Nat \ {0} :
               left = 12 * (35 * limits.chars - 100 * chars) /\ all = 100 * limits.chars
        BY <1>1, <2>1
      <3>2. QED
        BY <2>1, <3>1, PartTyped DEF FillCost
    <2>2. CASE ~(100 * chars < 35 * limits.chars /\ ~final)
      BY <2>2 DEF FillCost
    <2>3. QED
      BY <2>1, <2>2
  <1>7. OrphanCost(size, n, final) \in Int
    <2>1. PICK a \in Int : a = Part(3, 2)
      BY PartTyped
    <2>2. OrphanCost(size, n, final) \in {6 * u, 4 * u, a, 0}
      BY <1>3, <2>1 DEF OrphanCost
    <2>3. QED
      BY <2>2
  <1>8. QED
    BY <1>2, <1>4, <1>5, <1>6, <1>7

LEMMA PageCostTyped ==
    ASSUME NEW words \in Seq(Word), NEW limits \in Limits,
           NEW from \in Nat, NEW to \in 1..Len(words), from < to
    PROVE  PageCost(words, limits, from, to) \in Int
  <1>1. PICK chars \in Nat : chars = CharsOf(Lengths(words), from, to)
    BY LengthsTyped, CharsTyped
  <1>2. \A k \in 1..Len(words) : words[k].start \in Int /\ words[k].end \in Int
    <2>1. \A k \in 1..Len(words) : words[k] \in Word
      OBVIOUS
    <2>2. QED
      BY <2>1 DEF Word
  <1>3. PICK ms \in Int : ms = Max({1, words[to].end - words[from+1].start}) /\ ms >= 1
    <2>1. from + 1 \in 1..Len(words)
      OBVIOUS
    <2>2. PICK one \in Int, d \in Int : one = 1 /\ d = words[to].end - words[from+1].start
      BY <1>2, <2>1
    <2>3. Max({one, d}) \in Int /\ Max({one, d}) >= one
      BY MaxOf
    <2>4. QED
      BY <2>2, <2>3
  <1>4. PICK final \in BOOLEAN, single \in BOOLEAN : final = (to = Len(words)) /\ single = (to - from = 1)
    OBVIOUS
  <1>5. PICK n \in Nat, u \in Int : n = Len(words) /\ u = Unit
    BY BoundsAssumption
  <1>6. PICK a \in Int, b \in Int, c \in Int, d \in Int, e \in Int :
           /\ a = Overlong(chars, limits, single) /\ b = DurationCost(ms, final)
           /\ c = SpeedCost(chars, ms) /\ d = FillCost(chars, limits, final)
           /\ e = OrphanCost(to - from, n, final)
    BY <1>3, TermsTyped
  <1>7. PICK f \in Int : f = IF to = Len(words) THEN 0 ELSE BoundaryScore(words, to)
    <2>1. CASE to = Len(words)
      BY <2>1
    <2>2. CASE to # Len(words)
      <3>1. to + 1 \in 1..Len(words)
        BY <2>2
      <3>2. PICK gap \in Int : gap = words[to+1].start - words[to].end
        BY <1>2, <3>1
      <3>3. PICK x \in Int, y \in Int :
               x = PauseScore(gap) /\ y = TextScore(Look(words[to]), Look(words[to+1]))
        BY PauseScoreTyped, TextScoreTyped
      <3>4. BoundaryScore(words, to) = x + u * y
        BY <1>5, <3>2, <3>3 DEF BoundaryScore
      <3>5. PICK z \in Int : z = BoundaryScore(words, to)
        BY <3>4
      <3>6. QED
        BY <2>2, <3>5
    <2>3. QED
      BY <2>1, <2>2
  <1>8. PageCost(words, limits, from, to) = u * a + b + c + d + e + f + u
    BY <1>1, <1>3, <1>4, <1>5, <1>6, <1>7 DEF PageCost
  <1>9. QED
    BY <1>8

LEMMA PageCutTyped ==
    ASSUME NEW to \in Nat \ {0}, NEW cuts \in PageCuts(to - 1),
           NEW S \in SUBSET (0 .. to - 1), \A f \in S : cuts[f].found,
           NEW cost \in [S -> Int]
    PROVE  /\ PageCut(cuts, cost, to) \in CutRecord
           /\ PageCut(cuts, cost, to).found => Tiles(PageCut(cuts, cost, to).ranges, to)
  <1>1. CASE S = {}
    BY <1>1 DEF PageCut, NoCut, CutRecord
  <1>2. CASE S # {}
    <2>1. IsFiniteSet(S) /\ S \in SUBSET Int
      <3>1. IsFiniteSet(0 .. to - 1)
        BY FS_Interval
      <3>2. IsFiniteSet(S)
        BY <3>1, FS_Subset
      <3>3. QED
        BY <3>2
    <2>2. Cheapest(cost) # {} /\ Cheapest(cost) \subseteq S
      BY <1>2, <2>1, CheapestIs
    <2>3. IsFiniteSet(Cheapest(cost)) /\ Cheapest(cost) \in SUBSET Int
      BY <2>1, <2>2, FS_Subset
    <2>4. PICK from \in S : from = Max(Cheapest(cost))
      BY <2>2, <2>3, ExtremesAre
    <2>5. Tiles(cuts[from].ranges, from) /\ from \in Nat /\ from < to
      BY <2>4 DEF PageCuts
    <2>6. PICK ranges : ranges = Append(cuts[from].ranges, <<from, to>>)
      OBVIOUS
    <2>7. Tiles(ranges, to)
      BY <2>5, <2>6, TilesAppend
    <2>8. PageCut(cuts, cost, to) = [found |-> TRUE, cost |-> cost[from], ranges |-> ranges]
      BY <1>2, <2>4, <2>6 DEF PageCut, Cut
    <2>9. cost[from] \in Int /\ ranges \in Seq(Nat \X Nat)
      BY <2>7 DEF Tiles
    <2>10. PICK cut : cut = PageCut(cuts, cost, to)
      OBVIOUS
    <2>11. cut \in CutRecord /\ cut.ranges = ranges
      BY <2>8, <2>9, <2>10 DEF CutRecord
    <2>12. QED
      BY <2>7, <2>10, <2>11
  <1>3. QED
    BY <1>1, <1>2

LEMMA PageStartsBefore ==
    ASSUME NEW limits \in Limits, NEW forced, NEW forbidden, NEW to \in Nat
    PROVE  PageStarts(limits, forced, forbidden, to) \subseteq 0 .. to - 1
  <1>1. to - limits.words \in Int
    BY DEF Limits
  <1>2. PICK lower \in Int : lower = Max({0, to - limits.words}) /\ lower >= 0
    <2>1. PICK zero \in Int : zero = 0
      OBVIOUS
    <2>2. Max({zero, to - limits.words}) \in Int /\ Max({zero, to - limits.words}) >= zero
      BY <1>1, MaxOf
    <2>3. QED
      BY <2>1, <2>2
  <1>3. QED
    BY <1>2 DEF PageStarts

LEMMA CostsTyped ==
    ASSUME NEW words \in Seq(Word), NEW limits \in Limits,
           NEW to \in 1..Len(words), NEW cuts \in PageCuts(to - 1), NEW S \in SUBSET (0 .. to - 1)
    PROVE  [from \in S |-> cuts[from].cost + PageCost(words, limits, from, to)] \in [S -> Int]
  <1>1. ASSUME NEW from \in S PROVE cuts[from].cost + PageCost(words, limits, from, to) \in Int
    <2>1. from \in Nat /\ from < to /\ from \in 0 .. to - 1
      OBVIOUS
    <2>2. cuts[from].cost \in Int
      BY <2>1 DEF PageCuts, CutRecord
    <2>3. QED
      BY <2>1, <2>2, PageCostTyped
  <1>2. QED
    BY <1>1

LEMMA ExtendCutsTyped ==
    ASSUME NEW words \in Seq(Word), NEW limits \in Limits, NEW forced, NEW forbidden,
           NEW to \in 1..Len(words), NEW cuts \in PageCuts(to - 1)
    PROVE  ExtendCuts(cuts, words, limits, forced, forbidden, to) \in PageCuts(to)
  <1>1. PICK S : S = {f \in PageStarts(limits, forced, forbidden, to) : cuts[f].found}
    OBVIOUS
  <1>2. S \in SUBSET (0 .. to - 1)
    BY <1>1, PageStartsBefore
  <1>3. PICK cost : cost = [from \in S |-> cuts[from].cost + PageCost(words, limits, from, to)]
    OBVIOUS
  <1>4. cost \in [S -> Int]
    BY <1>2, <1>3, CostsTyped
  <1>5. PICK new : new = PageCut(cuts, cost, to)
    OBVIOUS
  <1>6. new \in CutRecord /\ (new.found => Tiles(new.ranges, to))
    <2>1. to \in Nat \ {0} /\ \A f \in S : cuts[f].found
      BY <1>1
    <2>2. QED
      BY <1>2, <1>4, <1>5, <2>1, PageCutTyped
  <1>7. PICK longer : longer = [t \in 0..to |-> IF t = to THEN new ELSE cuts[t]]
    OBVIOUS
  <1>8. longer \in [0..to -> CutRecord] /\ longer[to] = new
          /\ \A t \in 0 .. to - 1 : longer[t] = cuts[t]
    BY <1>6, <1>7 DEF PageCuts
  <1>9. longer \in PageCuts(to)
    BY <1>6, <1>8 DEF PageCuts
  <1>10. ExtendCuts(cuts, words, limits, forced, forbidden, to) = longer
    BY <1>1, <1>3, <1>5, <1>7 DEF ExtendCuts
  <1>11. QED
    BY <1>9, <1>10

LEMMA CutOfNothingIs ==
    /\ CutOfNothing \in PageCuts(0) /\ DOMAIN CutOfNothing = {0}
    /\ CutOfNothing[0] \in CutRecord /\ Tiles(CutOfNothing[0].ranges, 0)
  <1>1. CutOfNothing[0].cost = 0 /\ CutOfNothing[0].ranges = <<>>
    BY DEF CutOfNothing
  <1>2. CutOfNothing[0] \in CutRecord
    BY DEF CutOfNothing, CutRecord
  <1>3. CutOfNothing \in [0..0 -> CutRecord]
    BY <1>2 DEF CutOfNothing
  <1>4. Tiles(CutOfNothing[0].ranges, 0)
    BY <1>1, TilesEmpty
  <1>5. QED
    BY <1>2, <1>3, <1>4 DEF PageCuts, CutOfNothing

\* Whatever every round of the dynamic program keeps is true of the cuts that
\* segmentWords ends with.
LEMMA SegmentCuts ==
    ASSUME NEW words, NEW limits, NEW forced, NEW forbidden, NEW n \in Nat, n = Len(words),
           NEW V, CutOfNothing \in V[0],
           \A k \in 1..n : \A v \in V[k - 1] :
              ExtendCuts(v, words, limits, forced, forbidden, k) \in V[k]
    PROVE  \E v \in V[n] : SegmentWords(words, limits, forced, forbidden)
                = IF v[n].found THEN v[n].ranges ELSE Chunks(n, limits.words)
  <1> DEFINE Def(g) == [to \in 0..Len(words) |-> IF to = 0 THEN CutOfNothing
                           ELSE ExtendCuts(g[to-1], words, limits, forced, forbidden, to)]
             cuts == CHOOSE g : g = Def(g)
  <1>1. PICK step : step = [k \in 1..n |-> [v \in V[k - 1] |->
                               ExtendCuts(v, words, limits, forced, forbidden, k)]]
    OBVIOUS
  <1>2. \A k \in 1..n : \A v \in V[k - 1] :
           /\ step[k][v] = ExtendCuts(v, words, limits, forced, forbidden, k)
           /\ step[k][v] \in V[k]
    BY <1>1
  <1>3. /\ \E g : g = [k \in 0..n |-> g[k]] /\ Follows(g, CutOfNothing, step, n)
        /\ \A g : Follows(g, CutOfNothing, step, n) => \A k \in 0..n : g[k] \in V[k]
    BY <1>2, TypedRecursion
  <1>4. PICK g : g = [k \in 0..n |-> g[k]] /\ Follows(g, CutOfNothing, step, n)
    BY <1>3
  <1>5. \A k \in 0..n : g[k] \in V[k]
    BY <1>3, <1>4
  <1>6. g = Def(g)
    <2>1. ASSUME NEW to \in 0..n
          PROVE  g[to] = IF to = 0 THEN CutOfNothing
                         ELSE ExtendCuts(g[to-1], words, limits, forced, forbidden, to)
      <3>1. CASE to = 0
        BY <1>4, <3>1 DEF Follows
      <3>2. CASE to # 0
        <4>1. to \in 1..n /\ to - 1 \in 0..n
          BY <3>2
        <4>2. g[to] = step[to][g[to-1]] /\ g[to-1] \in V[to - 1]
          BY <1>4, <1>5, <3>2, <4>1 DEF Follows
        <4>3. QED
          BY <1>2, <3>2, <4>1, <4>2
      <3>3. QED
        BY <3>1, <3>2
    <2>2. QED
      BY <1>4, <2>1
  <1>7. cuts = Def(cuts)
    <2> HIDE DEF Def
    <2>1. QED
      BY <1>6
  <1>8. cuts[n] \in V[n]
    <2> DEFINE T == {k \in 0..n : cuts[k] \in V[k]}
    <2> HIDE DEF cuts
    <2>1. \A to \in 0..n : cuts[to] = IF to = 0 THEN CutOfNothing
                         ELSE ExtendCuts(cuts[to-1], words, limits, forced, forbidden, to)
      BY <1>7
    <2>2. 0 \in T
      BY <2>1
    <2>3. ASSUME NEW k \in 1..n, k - 1 \in T PROVE k \in T
      <3>1. cuts[k - 1] \in V[k - 1] /\ k # 0 /\ k \in 0..n
        BY <2>3
      <3>2. cuts[k] = ExtendCuts(cuts[k - 1], words, limits, forced, forbidden, k)
        BY <2>1, <3>1
      <3>3. QED
        BY <3>1, <3>2
    <2> HIDE DEF T
    <2>4. \A k \in 0..n : k \in T
      BY <2>2, <2>3, Upward
    <2>5. n \in T
      BY <2>4
    <2>6. QED
      BY <2>5 DEF T
  <1>9. SegmentWords(words, limits, forced, forbidden)
            = IF cuts[n][n].found THEN cuts[n][n].ranges ELSE Chunks(n, limits.words)
    BY DEF SegmentWords
  <1> HIDE DEF cuts
  <1>10. QED
    BY <1>8, <1>9

\* The pages that segmentWords finds hold every word once and in order, whatever
\* breaks and joins there are.
LEMMA SegmentsTile ==
    ASSUME NEW words \in Seq(Word), NEW limits \in Limits, NEW forced, NEW forbidden
    PROVE  Tiles(SegmentWords(words, limits, forced, forbidden), Len(words))
  <1>1. PICK n \in Nat : n = Len(words)
    OBVIOUS
  <1>2. PICK V : V = [k \in 0..n |-> PageCuts(k)]
    OBVIOUS
  <1>3. ASSUME NEW k \in 1..n, NEW v \in V[k - 1]
        PROVE  ExtendCuts(v, words, limits, forced, forbidden, k) \in V[k]
    BY <1>1, <1>2, ExtendCutsTyped
  <1>4. CutOfNothing \in V[0] /\ V[n] = PageCuts(n)
    BY <1>2, CutOfNothingIs
  <1>5. PICK v \in V[n] : SegmentWords(words, limits, forced, forbidden)
                = IF v[n].found THEN v[n].ranges ELSE Chunks(n, limits.words)
    <2>1. \A k \in 1..n : \A v \in V[k - 1] :
             ExtendCuts(v, words, limits, forced, forbidden, k) \in V[k]
      BY <1>3
    <2>2. n \in Nat /\ n = Len(words) /\ CutOfNothing \in V[0]
      BY <1>1, <1>4
    <2>3. QED
      BY <2>1, <2>2, SegmentCuts, SMTT(30)
  <1>6. v[n].found => Tiles(v[n].ranges, n)
    <2>1. n \in 0..n
      OBVIOUS
    <2>2. QED
      BY <1>4, <2>1 DEF PageCuts
  <1>7. Tiles(Chunks(n, limits.words), n)
    BY ChunksTile DEF Limits
  <1>8. QED
    BY <1>1, <1>5, <1>6, <1>7

\* The boundaries at which pages start and end, where the constraints are kept: none
\* starts at a forbidden boundary or has a forced one strictly inside.
Lawful(ranges, forced, forbidden) ==
    \A p \in 1..Len(ranges) :
        /\ ranges[p][1] \notin forbidden
        /\ \A k \in ranges[p][1] + 1 .. ranges[p][2] - 1 : k \notin forced

\* From every mark but 0 a page leads back to an earlier mark.
Linked(marks, limits, forced, forbidden) ==
    \A to \in marks \ {0} : \E from \in marks : from \in PageStarts(limits, forced, forbidden, to)

\* A cut that was found is lawful, and one is found for every mark.
LawfulCuts(k, marks, forced, forbidden) ==
    {cuts \in PageCuts(k) :
        \A t \in 0..k : /\ cuts[t].found => Lawful(cuts[t].ranges, forced, forbidden)
                        /\ t \in marks => cuts[t].found}

\* What a range appended to lawful ranges keeps.
LEMMA LawfulAppend ==
    ASSUME NEW ranges, NEW from, NEW forced, NEW forbidden, Tiles(ranges, from),
           Lawful(ranges, forced, forbidden), NEW to \in Nat, from \notin forbidden,
           \A k \in from + 1 .. to - 1 : k \notin forced
    PROVE  Lawful(Append(ranges, <<from, to>>), forced, forbidden)
  <1>1. PICK longer : longer = Append(ranges, <<from, to>>)
    OBVIOUS
  <1>2. PICK m \in Nat : m = Len(ranges) /\ ranges \in Seq(Nat \X Nat) /\ from \in Nat
    BY DEF Tiles
  <1>3. Len(longer) = m + 1 /\ longer[m + 1] = <<from, to>>
          /\ \A p \in 1..m : longer[p] = ranges[p]
    BY <1>1, <1>2
  <1>4. ASSUME NEW p \in 1 .. m + 1
        PROVE  /\ longer[p][1] \notin forbidden
               /\ \A k \in longer[p][1] + 1 .. longer[p][2] - 1 : k \notin forced
    <2>1. CASE p = m + 1
      <3>1. longer[p][1] = from /\ longer[p][2] = to
        BY <1>3, <2>1
      <3>2. QED
        BY <3>1
    <2>2. CASE p # m + 1
      <3>1. p \in 1..m
        BY <2>2
      <3>2. QED
        BY <1>2, <1>3, <3>1 DEF Lawful
    <2>3. QED
      BY <2>1, <2>2
  <1>5. QED
    BY <1>1, <1>3, <1>4 DEF Lawful

LEMMA PageCutLawful ==
    ASSUME NEW to \in Nat \ {0}, NEW marks, NEW forced, NEW forbidden,
           NEW cuts \in LawfulCuts(to - 1, marks, forced, forbidden),
           NEW S \in SUBSET (0 .. to - 1), S # {}, NEW cost \in [S -> Int],
           \A f \in S : /\ cuts[f].found /\ f \notin forbidden
                        /\ \A k \in f + 1 .. to - 1 : k \notin forced
    PROVE  /\ PageCut(cuts, cost, to).found
           /\ Lawful(PageCut(cuts, cost, to).ranges, forced, forbidden)
  <1>1. IsFiniteSet(S) /\ S \in SUBSET Int
    <2>1. IsFiniteSet(0 .. to - 1)
      BY FS_Interval
    <2>2. IsFiniteSet(S)
      BY <2>1, FS_Subset
    <2>3. QED
      BY <2>2
  <1>2. Cheapest(cost) # {} /\ Cheapest(cost) \subseteq S
    BY <1>1, CheapestIs
  <1>3. IsFiniteSet(Cheapest(cost)) /\ Cheapest(cost) \in SUBSET Int
    BY <1>1, <1>2, FS_Subset
  <1>4. PICK from \in S : from = Max(Cheapest(cost))
    BY <1>2, <1>3, ExtremesAre
  <1>5. from \in 0 .. to - 1 /\ cuts[from].found
    OBVIOUS
  <1>6. Tiles(cuts[from].ranges, from) /\ Lawful(cuts[from].ranges, forced, forbidden)
    BY <1>5 DEF LawfulCuts, PageCuts
  <1>7. PICK ranges : ranges = Append(cuts[from].ranges, <<from, to>>)
    OBVIOUS
  <1>8. Lawful(ranges, forced, forbidden)
    <2>1. from \notin forbidden /\ \A k \in from + 1 .. to - 1 : k \notin forced
      BY <1>4
    <2>2. PICK shorter : shorter = cuts[from].ranges
      OBVIOUS
    <2>3. QED
      BY <1>6, <1>7, <2>1, <2>2, LawfulAppend
  <1>9. PageCut(cuts, cost, to) = [found |-> TRUE, cost |-> cost[from], ranges |-> ranges]
    BY <1>4, <1>7 DEF PageCut, Cut
  <1>10. QED
    BY <1>8, <1>9

LEMMA ExtendCutsLawful ==
    ASSUME NEW words \in Seq(Word), NEW limits \in Limits, NEW marks, NEW forced, NEW forbidden,
           Linked(marks, limits, forced, forbidden), marks \subseteq Nat,
           NEW to \in 1..Len(words), NEW cuts \in LawfulCuts(to - 1, marks, forced, forbidden)
    PROVE  ExtendCuts(cuts, words, limits, forced, forbidden, to)
              \in LawfulCuts(to, marks, forced, forbidden)
  <1>1. PICK S : S = {f \in PageStarts(limits, forced, forbidden, to) : cuts[f].found}
    OBVIOUS
  <1>2. cuts \in PageCuts(to - 1)
    BY DEF LawfulCuts
  <1>3. PageStarts(limits, forced, forbidden, to) \subseteq 0 .. to - 1
    BY PageStartsBefore
  <1>4. S \in SUBSET (0 .. to - 1)
    BY <1>1, <1>3
  <1>5. PICK cost : cost = [from \in S |-> cuts[from].cost + PageCost(words, limits, from, to)]
    OBVIOUS
  <1>6. cost \in [S -> Int]
    BY <1>2, <1>4, <1>5, CostsTyped
  <1>7. PICK new : new = PageCut(cuts, cost, to)
    OBVIOUS
  <1>8. PICK longer : longer = ExtendCuts(cuts, words, limits, forced, forbidden, to)
    OBVIOUS
  <1>9. longer \in PageCuts(to)
    BY <1>2, <1>8, ExtendCutsTyped
  <1>10. longer[to] = new /\ \A t \in 0 .. to - 1 : longer[t] = cuts[t]
    BY <1>1, <1>5, <1>7, <1>8 DEF ExtendCuts
  <1>11. new.found => Lawful(new.ranges, forced, forbidden)
    <2>1. CASE S = {}
      BY <1>5, <1>7, <2>1 DEF PageCut, NoCut
    <2>2. CASE S # {}
      <3>1. \A f \in S : /\ cuts[f].found /\ f \notin forbidden
                         /\ \A k \in f + 1 .. to - 1 : k \notin forced
        BY <1>1 DEF PageStarts
      <3>2. QED
        BY <1>4, <1>6, <1>7, <2>2, <3>1, PageCutLawful
    <2>3. QED
      BY <2>1, <2>2
  <1>12. to \in marks => new.found
    <2> SUFFICES ASSUME to \in marks PROVE new.found
      OBVIOUS
    <2>1. PICK from \in marks : from \in PageStarts(limits, forced, forbidden, to)
      BY DEF Linked
    <2>2. from \in 0 .. to - 1
      BY <1>3, <2>1
    <2>3. cuts[from].found
      BY <2>1, <2>2 DEF LawfulCuts
    <2>4. S # {}
      BY <1>1, <2>1, <2>3
    <2>5. \A f \in S : /\ cuts[f].found /\ f \notin forbidden
                       /\ \A k \in f + 1 .. to - 1 : k \notin forced
      BY <1>1 DEF PageStarts
    <2>6. QED
      BY <1>4, <1>6, <1>7, <2>4, <2>5, PageCutLawful
  <1>13. \A t \in 0..to : /\ longer[t].found => Lawful(longer[t].ranges, forced, forbidden)
                          /\ t \in marks => longer[t].found
    <2>1. ASSUME NEW t \in 0..to
          PROVE  /\ longer[t].found => Lawful(longer[t].ranges, forced, forbidden)
                 /\ t \in marks => longer[t].found
      <3>1. CASE t = to
        BY <1>10, <1>11, <1>12, <3>1
      <3>2. CASE t # to
        <4>1. t \in 0 .. to - 1
          BY <3>2
        <4>2. QED
          BY <1>10, <4>1 DEF LawfulCuts
      <3>3. QED
        BY <3>1, <3>2
    <2>2. QED
      BY <2>1
  <1>14. QED
    BY <1>8, <1>9, <1>13 DEF LawfulCuts

\* Where the marks lead back to 0 from the end of the text, segmentWords keeps the
\* constraints.
LEMMA SegmentsLawful ==
    ASSUME NEW words \in Seq(Word), NEW limits \in Limits, NEW marks, NEW forced, NEW forbidden,
           Linked(marks, limits, forced, forbidden), marks \subseteq Nat, Len(words) \in marks
    PROVE  Lawful(SegmentWords(words, limits, forced, forbidden), forced, forbidden)
  <1>1. PICK n \in Nat : n = Len(words)
    OBVIOUS
  <1>2. PICK V : V = [k \in 0..n |-> LawfulCuts(k, marks, forced, forbidden)]
    OBVIOUS
  <1>3. ASSUME NEW k \in 1..n, NEW v \in V[k - 1]
        PROVE  ExtendCuts(v, words, limits, forced, forbidden, k) \in V[k]
    BY <1>1, <1>2, ExtendCutsLawful
  <1>4. CutOfNothing \in V[0] /\ V[n] = LawfulCuts(n, marks, forced, forbidden)
    <2>1. CutOfNothing[0].found /\ CutOfNothing[0].ranges = <<>>
      BY DEF CutOfNothing
    <2>2. Lawful(<<>>, forced, forbidden)
      BY DEF Lawful
    <2>3. CutOfNothing \in LawfulCuts(0, marks, forced, forbidden)
      BY <2>1, <2>2, CutOfNothingIs DEF LawfulCuts
    <2>4. QED
      BY <1>2, <2>3
  <1>5. PICK v \in V[n] : SegmentWords(words, limits, forced, forbidden)
                = IF v[n].found THEN v[n].ranges ELSE Chunks(n, limits.words)
    <2>1. \A k \in 1..n : \A v \in V[k - 1] :
             ExtendCuts(v, words, limits, forced, forbidden, k) \in V[k]
      BY <1>3
    <2>2. n \in Nat /\ n = Len(words) /\ CutOfNothing \in V[0]
      BY <1>1, <1>4
    <2>3. QED
      BY <2>1, <2>2, SegmentCuts, SMTT(30)
  <1>6. v[n].found /\ Lawful(v[n].ranges, forced, forbidden)
    <2>1. n \in 0..n /\ n \in marks
      BY <1>1
    <2>2. QED
      BY <1>4, <2>1 DEF LawfulCuts
  <1>7. QED
    BY <1>5, <1>6

\* A finite set of numbers has a last one.
LEMMA LastOne ==
    ASSUME NEW S \in SUBSET Int, IsFiniteSet(S), S # {}
    PROVE  \E x \in S : \A k \in S : k <= x
  <1>1. PICK down : down = [k \in S |-> -k]
    OBVIOUS
  <1>2. down \in [S -> Int]
    BY <1>1
  <1>3. PICK x \in S : x \in Cheapest(down)
    BY <1>2, CheapestIs
  <1>4. \A k \in S : down[x] <= down[k]
    BY <1>1, <1>3 DEF Cheapest
  <1>5. \A k \in S : k <= x
    BY <1>1, <1>4
  <1>6. QED
    BY <1>5

\* A paging that honours the constraints leads back from the end of the text, and
\* from each of its own starts, to 0.
LEMMA StartsLink ==
    ASSUME NEW n \in Nat \ {0}, NEW limits \in Limits, NEW forced, NEW forbidden,
           NEW starts \in SUBSET (0 .. n - 1), 0 \in starts, forced \subseteq starts,
           starts \cap forbidden = {},
           \A k \in 0 .. n - limits.words - 1 : \E s \in starts : k < s /\ s <= k + limits.words
    PROVE  Linked(starts \cup {n}, limits, forced, forbidden)
  <1> SUFFICES ASSUME NEW to \in (starts \cup {n}) \ {0}
               PROVE  \E from \in starts : from \in PageStarts(limits, forced, forbidden, to)
    BY DEF Linked
  <1>1. to \in 1..n
    OBVIOUS
  <1>2. PICK S : S = {s \in starts : s < to}
    OBVIOUS
  <1>3. S \in SUBSET Int /\ S # {} /\ IsFiniteSet(S)
    <2>1. IsFiniteSet(0 .. n - 1)
      BY FS_Interval
    <2>2. S \subseteq 0 .. n - 1
      BY <1>2
    <2>3. 0 \in starts /\ 0 < to
      BY <1>1
    <2>4. 0 \in S
      BY <1>2, <2>3
    <2>5. IsFiniteSet(S)
      BY <2>1, <2>2, FS_Subset
    <2>6. S \in SUBSET Int
      BY <2>2
    <2>7. QED
      BY <2>4, <2>5, <2>6
  <1>4. PICK from \in S : \A k \in S : k <= from
    BY <1>3, LastOne
  <1>5. from \in starts /\ from \in Nat /\ from < to
    BY <1>2
  <1>6. PICK most \in Nat \ {0} : most = limits.words
    BY DEF Limits
  <1>7. to - most <= from
    <2> SUFFICES ASSUME from < to - most PROVE FALSE
      BY <1>1, <1>5
    <2>1. PICK k \in Nat : k = to - most - 1
      BY <1>1, <1>5
    <2>2. k \in 0 .. n - most - 1 /\ from <= k /\ k + most < to
      BY <1>1, <1>5, <2>1
    <2>3. PICK s \in starts : k < s /\ s <= k + most
      BY <1>6, <2>2
    <2>4. s \in Nat
      OBVIOUS
    <2>5. s < to
      BY <1>1, <2>2, <2>3, <2>4
    <2>6. s \in S
      BY <1>2, <2>5
    <2>7. s <= from
      BY <1>4, <2>6
    <2>8. QED
      BY <1>5, <2>1, <2>2, <2>3, <2>4, <2>7
  <1>8. PICK lower \in Int : lower = Max({0, to - limits.words}) /\ lower <= from
    <2>1. PICK zero \in Int : zero = 0
      OBVIOUS
    <2>2. PICK least \in Int : least = to - most
      BY <1>1
    <2>3. Max({zero, least}) \in Int /\ Max({zero, least}) \in {zero, least}
      BY MaxOf
    <2>4. zero <= from /\ least <= from
      BY <1>5, <1>7, <2>1, <2>2
    <2>5. Max({zero, least}) <= from
      BY <2>3, <2>4
    <2>6. QED
      BY <1>6, <2>1, <2>2, <2>3, <2>5
  <1>9. from \notin forbidden
    BY <1>5
  <1>10. \A k \in from + 1 .. to - 1 : k \notin forced
    <2> SUFFICES ASSUME NEW k \in from + 1 .. to - 1, k \in forced PROVE FALSE
      OBVIOUS
    <2>1. k \in starts /\ k \in Int /\ from < k /\ k < to
      BY <1>1, <1>5
    <2>2. k <= from
      BY <1>2, <1>4, <2>1
    <2>3. QED
      BY <1>5, <2>1, <2>2
  <1>11. from \in lower .. to - 1
    BY <1>1, <1>5, <1>8
  <1>12. from \in PageStarts(limits, forced, forbidden, to)
    BY <1>8, <1>9, <1>10, <1>11 DEF PageStarts
  <1>13. QED
    BY <1>5, <1>12

\* Every boundary before the end lies in one of the ranges.
LEMMA TilesCover ==
    ASSUME NEW ranges, NEW n \in Nat, Tiles(ranges, n), NEW b \in 0 .. n - 1
    PROVE  \E p \in 1..Len(ranges) : ranges[p][1] <= b /\ b < ranges[p][2]
  <1>1. PICK m \in Nat : m = Len(ranges) /\ (ranges = <<>> <=> m = 0)
    <2>1. ranges \in Seq(Nat \X Nat)
      BY DEF Tiles
    <2>2. QED
      BY <2>1
  <1>2. m # 0
    BY <1>1 DEF Tiles
  <1>3. ASSUME NEW p \in 1..m
        PROVE  /\ ranges[p][1] \in Nat /\ ranges[p][2] \in Nat
               /\ ranges[p][1] = IF p = 1 THEN 0 ELSE ranges[p - 1][2]
    <2>1. ranges[p] \in Nat \X Nat
      BY <1>1 DEF Tiles
    <2>2. QED
      BY <1>1, <2>1 DEF Tiles
  <1>4. PICK S : S = {p \in 1..m : ranges[p][1] <= b}
    OBVIOUS
  <1>5. S \in SUBSET Int /\ S # {} /\ IsFiniteSet(S)
    <2>1. IsFiniteSet(1..m)
      BY FS_Interval
    <2>2. 1 \in 1..m /\ ranges[1][1] = 0
      BY <1>2, <1>3
    <2>3. 1 \in S
      BY <1>4, <2>2
    <2>4. IsFiniteSet(S)
      BY <1>4, <2>1, FS_Subset
    <2>5. QED
      BY <1>4, <2>3, <2>4
  <1>6. PICK q \in S : \A p \in S : p <= q
    BY <1>5, LastOne
  <1>7. q \in 1..m /\ ranges[q][1] <= b
    BY <1>4
  <1>8. b < ranges[q][2]
    <2>1. CASE q = m
      BY <1>1, <1>2, <2>1 DEF Tiles
    <2>2. CASE q # m
      <3>1. q + 1 \in 1..m /\ q + 1 \notin S
        BY <1>6, <1>7, <2>2
      <3>2. ranges[q+1][1] = ranges[q][2] /\ ranges[q][2] \in Nat
        BY <1>3, <1>7, <3>1
      <3>3. QED
        BY <1>4, <3>1, <3>2
    <2>3. QED
      BY <2>1, <2>2
  <1>9. QED
    BY <1>1, <1>7, <1>8

\* Lawful ranges start at every forced boundary.
LEMMA LawfulStarts ==
    ASSUME NEW ranges, NEW n \in Nat, Tiles(ranges, n), NEW forced, NEW forbidden,
           Lawful(ranges, forced, forbidden), NEW b \in 0 .. n - 1, b \in forced
    PROVE  \E p \in 1..Len(ranges) : ranges[p][1] = b
  <1>1. PICK p \in 1..Len(ranges) : ranges[p][1] <= b /\ b < ranges[p][2]
    BY TilesCover
  <1>2. ranges[p][1] \in Nat /\ ranges[p][2] \in Nat
    <2>1. ranges[p] \in Nat \X Nat
      BY DEF Tiles
    <2>2. QED
      BY <2>1
  <1>3. ranges[p][1] = b
    <2> SUFFICES ASSUME ranges[p][1] # b PROVE FALSE
      OBVIOUS
    <2>1. b \in ranges[p][1] + 1 .. ranges[p][2] - 1
      BY <1>1, <1>2
    <2>2. QED
      BY <2>1 DEF Lawful
  <1>4. QED
    BY <1>3

\* The lines of a page: the cuts of the prefixes that k lines can hold.
Reaches(k, n) == IF k = 0 THEN {0} ELSE k..n
LineCuts(k, n) == {cuts \in [Reaches(k, n) -> CutRecord] :
                      \A t \in Reaches(k, n) : Tiles(cuts[t].ranges, t)}

LEMMA LineCostTyped == \A length, perLine \in Int : LineCost(length, perLine) \in Int
  BY DEF LineCost

LEMMA LineCutTyped ==
    ASSUME NEW chars \in Seq(Nat), NEW perLine \in Nat, NEW k \in Nat \ {0},
           NEW fewer \in LineCuts(k - 1, Len(chars)), NEW to \in k..Len(chars)
    PROVE  /\ LineCut(fewer, chars, perLine, to) \in CutRecord
           /\ Tiles(LineCut(fewer, chars, perLine, to).ranges, to)
  <1>1. PICK S : S = {f \in DOMAIN fewer : f < to}
    OBVIOUS
  <1>2. DOMAIN fewer = Reaches(k - 1, Len(chars))
    BY DEF LineCuts
  <1>3. S \in SUBSET (0 .. to - 1)
    BY <1>1, <1>2 DEF Reaches
  <1>4. S # {}
    <2>1. k - 1 \in S
      BY <1>1, <1>2 DEF Reaches
    <2>2. QED
      BY <2>1
  <1>5. PICK cost : cost = [f \in S |-> fewer[f].cost + LineCost(CharsOf(chars, f, to), perLine)]
    OBVIOUS
  <1>6. cost \in [S -> Int]
    <2>1. ASSUME NEW f \in S
          PROVE  fewer[f].cost + LineCost(CharsOf(chars, f, to), perLine) \in Int
      <3>1. f \in Nat /\ f \in DOMAIN fewer /\ to \in 0..Len(chars)
        BY <1>1, <1>3
      <3>2. fewer[f].cost \in Int
        BY <1>2, <3>1 DEF LineCuts, CutRecord
      <3>3. CharsOf(chars, f, to) \in Int
        BY <3>1, CharsTyped
      <3>4. LineCost(CharsOf(chars, f, to), perLine) \in Int
        BY <3>3, LineCostTyped
      <3>5. QED
        BY <3>2, <3>4
    <2>2. QED
      BY <1>5, <2>1
  <1>7. IsFiniteSet(S)
    <2>1. IsFiniteSet(0 .. to - 1)
      BY FS_Interval
    <2>2. QED
      BY <1>3, <2>1, FS_Subset
  <1>8. Cheapest(cost) # {} /\ Cheapest(cost) \subseteq S
    BY <1>4, <1>6, <1>7, CheapestIs
  <1>9. IsFiniteSet(Cheapest(cost)) /\ Cheapest(cost) \in SUBSET Int
    <2>1. IsFiniteSet(Cheapest(cost))
      BY <1>7, <1>8, FS_Subset
    <2>2. S \in SUBSET Int
      BY <1>3
    <2>3. QED
      BY <1>8, <2>1, <2>2
  <1>10. PICK from \in S : from = Min(Cheapest(cost))
    BY <1>8, <1>9, ExtremesAre
  <1>11. Tiles(fewer[from].ranges, from) /\ from < to /\ to \in Nat
    BY <1>1, <1>2, <1>10 DEF LineCuts
  <1>12. PICK ranges : ranges = Append(fewer[from].ranges, <<from, to>>)
    OBVIOUS
  <1>13. Tiles(ranges, to)
    BY <1>11, <1>12, TilesAppend
  <1>14. LineCut(fewer, chars, perLine, to) = [found |-> TRUE, cost |-> cost[from], ranges |-> ranges]
    BY <1>1, <1>5, <1>10, <1>12 DEF LineCut, Cut
  <1>15. cost[from] \in Int /\ ranges \in Seq(Nat \X Nat)
    BY <1>6, <1>13 DEF Tiles
  <1>16. PICK cut : cut = LineCut(fewer, chars, perLine, to)
    OBVIOUS
  <1>17. cut \in CutRecord /\ cut.ranges = ranges
    BY <1>14, <1>15, <1>16 DEF CutRecord
  <1>18. QED
    BY <1>13, <1>16, <1>17

\* The tables of breakLines: for each number of lines, the cuts of the prefixes.
LineTables(lines, chars, perLine, most) ==
    /\ lines[0] = CutOfNothing
    /\ \A k \in 1..most :
          lines[k] = [to \in k..Len(chars) |-> LineCut(lines[k-1], chars, perLine, to)]
    /\ \A k \in 0..most : lines[k] \in LineCuts(k, Len(chars))

\* The number of lines that is cheapest, each line after the first costing 4.
FewestBest(found, lines, n, most) ==
    \E k \in 1 .. Min({n, most}) :
        /\ k \in 1..most /\ k <= n /\ found = lines[k][n].ranges
        /\ \A l \in 1 .. Min({n, most}) :
              lines[k][n].cost + (k - 1) * 4 <= lines[l][n].cost + (l - 1) * 4

LEMMA LinesFound ==
    ASSUME NEW chars \in Seq(Nat), NEW perLine \in Nat, NEW n \in Nat, n = Len(chars), n > 1,
           NEW most \in Nat, most > 1
    PROVE  \E lines : /\ LineTables(lines, chars, perLine, most)
                      /\ FewestBest(BreakLines(chars, perLine, most), lines, n, most)
  <1> DEFINE Def(g) == [k \in 0..most |-> IF k = 0 THEN CutOfNothing
                           ELSE [to \in k..Len(chars) |-> LineCut(g[k-1], chars, perLine, to)]]
             lines == CHOOSE g : g = Def(g)
  <1>1. ASSUME NEW k \in 1..most, NEW fewer \in LineCuts(k - 1, n)
        PROVE  [to \in k..n |-> LineCut(fewer, chars, perLine, to)] \in LineCuts(k, n)
    <2>1. PICK more : more = [to \in k..n |-> LineCut(fewer, chars, perLine, to)]
      OBVIOUS
    <2>2. k \in Nat \ {0} /\ Reaches(k, n) = k..n
      BY DEF Reaches
    <2>3. \A to \in k..n : more[to] \in CutRecord /\ Tiles(more[to].ranges, to)
      BY <2>1, <2>2, LineCutTyped
    <2>4. more \in [k..n -> CutRecord]
      BY <2>1, <2>3
    <2>5. QED
      BY <2>1, <2>2, <2>3, <2>4 DEF LineCuts
  <1>2. CutOfNothing \in LineCuts(0, n)
    BY CutOfNothingIs DEF LineCuts, Reaches, PageCuts
  <1>3. PICK V : V = [k \in 0..most |-> LineCuts(k, n)]
    OBVIOUS
  <1>4. PICK step : step = [k \in 1..most |-> [fewer \in LineCuts(k - 1, n) |->
                               [to \in k..n |-> LineCut(fewer, chars, perLine, to)]]]
    OBVIOUS
  <1>5. \A k \in 1..most : \A v \in V[k - 1] : step[k][v] \in V[k]
    <2> SUFFICES ASSUME NEW k \in 1..most, NEW v \in LineCuts(k - 1, n)
                 PROVE  [to \in k..n |-> LineCut(v, chars, perLine, to)] \in LineCuts(k, n)
      BY <1>3, <1>4
    <2>1. QED
      BY <1>1
  <1>6. CutOfNothing \in V[0]
    BY <1>2, <1>3
  <1>7. /\ \E g : g = [k \in 0..most |-> g[k]] /\ Follows(g, CutOfNothing, step, most)
        /\ \A g : Follows(g, CutOfNothing, step, most) => \A k \in 0..most : g[k] \in V[k]
    BY <1>5, <1>6, TypedRecursion
  <1>8. PICK g : g = [k \in 0..most |-> g[k]] /\ Follows(g, CutOfNothing, step, most)
    BY <1>7
  <1>9. \A k \in 0..most : g[k] \in V[k]
    BY <1>7, <1>8
  <1>10. g = Def(g)
    <2>1. ASSUME NEW k \in 0..most
          PROVE  g[k] = IF k = 0 THEN CutOfNothing
                        ELSE [to \in k..n |-> LineCut(g[k-1], chars, perLine, to)]
      <3>1. CASE k = 0
        BY <1>8, <3>1 DEF Follows
      <3>2. CASE k # 0
        <4>1. k \in 1..most /\ k - 1 \in 0..most
          BY <3>2
        <4>2. g[k] = step[k][g[k-1]] /\ g[k-1] \in LineCuts(k - 1, n)
          BY <1>3, <1>8, <1>9, <3>2, <4>1 DEF Follows
        <4>3. QED
          BY <1>4, <3>2, <4>1, <4>2
      <3>3. QED
        BY <3>1, <3>2
    <2>2. QED
      BY <1>8, <2>1
  <1>11. lines = Def(lines)
    <2> HIDE DEF Def
    <2>1. QED
      BY <1>10
  <1>12. \A k \in 0..most : lines[k] \in LineCuts(k, n)
    <2> DEFINE T == {k \in 0..most : lines[k] \in LineCuts(k, n)}
    <2> HIDE DEF lines
    <2>1. \A k \in 0..most : lines[k] = IF k = 0 THEN CutOfNothing
                        ELSE [to \in k..n |-> LineCut(lines[k-1], chars, perLine, to)]
      BY <1>11
    <2>2. 0 \in T
      <3>1. 0 \in 0..most
        OBVIOUS
      <3>2. lines[0] = CutOfNothing
        BY <2>1, <3>1
      <3>3. QED
        BY <1>2, <3>1, <3>2
    <2>3. ASSUME NEW k \in 1..most, k - 1 \in T PROVE k \in T
      <3>1. lines[k - 1] \in LineCuts(k - 1, n) /\ k # 0 /\ k \in 0..most
        BY <2>3
      <3>2. lines[k] = [to \in k..n |-> LineCut(lines[k-1], chars, perLine, to)]
        BY <2>1, <3>1
      <3>3. QED
        BY <1>1, <3>1, <3>2
    <2> HIDE DEF T
    <2>4. \A k \in 0..most : k \in T
      BY <2>2, <2>3, Upward
    <2>5. QED
      BY <2>4 DEF T
  <1>13. PICK counts : counts = 1 .. Min({n, most})
    OBVIOUS
  <1>14. counts # {} /\ IsFiniteSet(counts)
         /\ \A k \in counts : k \in 1..most /\ n \in Reaches(k, n)
    <2>1. Min({n, most}) \in Int /\ Min({n, most}) \in {n, most}
            /\ Min({n, most}) <= n /\ Min({n, most}) <= most
      <3>1. n \in Int /\ most \in Int
        OBVIOUS
      <3>2. QED
        BY <3>1, MinOf
    <2>2. PICK m \in Int : m = Min({n, most}) /\ m >= 1 /\ m <= n /\ m <= most
      BY <2>1
    <2>3. counts = 1..m
      BY <1>13, <2>2
    <2>4. IsFiniteSet(1..m)
      BY <2>2, FS_Interval
    <2>5. 1 \in counts /\ IsFiniteSet(counts)
      BY <2>2, <2>3, <2>4
    <2>6. ASSUME NEW k \in counts PROVE k \in 1..most /\ n \in Reaches(k, n)
      <3>1. k \in 1..m
        BY <2>3
      <3>2. QED
        BY <2>2, <3>1 DEF Reaches
    <2>7. QED
      BY <2>5, <2>6
  <1> HIDE DEF lines
  <1>15. \A k \in counts : lines[k][n] \in CutRecord /\ Tiles(lines[k][n].ranges, n)
    BY <1>12, <1>14 DEF LineCuts
  <1>16. PICK cost : cost = [k \in counts |-> lines[k][n].cost + (k - 1) * 4]
    OBVIOUS
  <1>17. cost \in [counts -> Int]
    <2>1. ASSUME NEW k \in counts PROVE lines[k][n].cost + (k - 1) * 4 \in Int
      <3>1. lines[k][n].cost \in Int
        BY <1>15 DEF CutRecord
      <3>2. k \in Int
        BY <1>14
      <3>3. QED
        BY <3>1, <3>2
    <2>2. QED
      BY <1>16, <2>1
  <1>18. Cheapest(cost) # {} /\ Cheapest(cost) \subseteq counts
    BY <1>14, <1>17, CheapestIs
  <1>19. IsFiniteSet(Cheapest(cost)) /\ Cheapest(cost) \in SUBSET Int
    BY <1>14, <1>18, FS_Subset
  <1>20. PICK k \in counts : k = Min(Cheapest(cost)) /\ k \in Cheapest(cost)
    BY <1>18, <1>19, ExtremesAre
  <1>21. BreakLines(chars, perLine, most) = lines[k][n].ranges
    <2>0. ~(n <= 1 \/ most <= 1)
      OBVIOUS
    <2>1. BreakLines(chars, perLine, most) =
             lines[Min(Cheapest([l \in 1 .. Min({Len(chars), most}) |->
                      lines[l][Len(chars)].cost + (l - 1) * 4]))][Len(chars)].ranges
      BY <2>0 DEF BreakLines, lines
    <2>2. cost = [l \in 1 .. Min({Len(chars), most}) |-> lines[l][Len(chars)].cost + (l - 1) * 4]
      BY <1>13, <1>16
    <2>3. QED
      BY <1>20, <2>1, <2>2
  <1>22. \A l \in counts : lines[k][n].cost + (k - 1) * 4 <= lines[l][n].cost + (l - 1) * 4
    <2> SUFFICES ASSUME NEW l \in counts
                 PROVE  lines[k][n].cost + (k - 1) * 4 <= lines[l][n].cost + (l - 1) * 4
      OBVIOUS
    <2>1. cost[k] <= cost[l]
      BY <1>16, <1>20 DEF Cheapest
    <2>2. cost[k] = lines[k][n].cost + (k - 1) * 4 /\ cost[l] = lines[l][n].cost + (l - 1) * 4
      BY <1>16
    <2>3. QED
      BY <2>1, <2>2
  <1>23. FewestBest(BreakLines(chars, perLine, most), lines, n, most)
    <2>1. k \in 1..most /\ k <= n
      BY <1>14 DEF Reaches
    <2>2. QED
      BY <1>13, <1>20, <1>21, <1>22, <2>1 DEF FewestBest
  <1>24. LineTables(lines, chars, perLine, most)
    <2>1. lines[0] = CutOfNothing
      BY <1>11
    <2>2. ASSUME NEW c \in 1..most
          PROVE  lines[c] = [to \in c..Len(chars) |-> LineCut(lines[c-1], chars, perLine, to)]
      <3>1. c \in 0..most /\ c # 0
        OBVIOUS
      <3>2. QED
        BY <1>11, <3>1
    <2>3. QED
      BY <1>12, <2>1, <2>2 DEF LineTables
  <1>25. QED
    BY <1>23, <1>24

\* The lines that breakLines finds hold every word of the page once and in order.
LEMMA LinesTile ==
    ASSUME NEW chars \in Seq(Nat), chars # <<>>, NEW perLine \in Nat, NEW most \in Nat \ {0}
    PROVE  Tiles(BreakLines(chars, perLine, most), Len(chars))
  <1>1. PICK n \in Nat \ {0} : n = Len(chars)
    OBVIOUS
  <1>2. CASE n <= 1 \/ most <= 1
    <2>1. BreakLines(chars, perLine, most) = <<<<0, n>>>>
      BY <1>1, <1>2 DEF BreakLines
    <2>2. Append(<<>>, <<0, n>>) = <<<<0, n>>>>
      OBVIOUS
    <2>3. Tiles(Append(<<>>, <<0, n>>), n)
      <3>1. Tiles(<<>>, 0) /\ n \in Nat /\ 0 < n
        BY TilesEmpty
      <3>2. QED
        BY <3>1, TilesAppend
    <2>4. QED
      BY <1>1, <2>1, <2>2, <2>3
  <1>3. CASE ~(n <= 1 \/ most <= 1)
    <2>1. n > 1 /\ most > 1
      BY <1>3
    <2>2. PICK lines : /\ LineTables(lines, chars, perLine, most)
                       /\ FewestBest(BreakLines(chars, perLine, most), lines, n, most)
      BY <1>1, <2>1, LinesFound
    <2>3. PICK k \in 1..most : k <= n /\ BreakLines(chars, perLine, most) = lines[k][n].ranges
      BY <2>2 DEF FewestBest
    <2>4. k \in 0..most /\ n \in Reaches(k, n)
      BY <1>1, <2>3 DEF Reaches
    <2>5. Tiles(lines[k][n].ranges, n)
      BY <1>1, <2>2, <2>4 DEF LineTables, LineCuts
    <2>6. QED
      BY <1>1, <2>3, <2>5
  <1>4. QED
    BY <1>2, <1>3

-----------------------------------------------------------------------------
(* Pages.                                                                  *)

\* Words of some length, and none before the one it follows has ended.
Lasting(words) == \A k \in 1..Len(words) : words[k].start < words[k].end
InOrder(words) == \A k \in 1 .. Len(words) - 1 : words[k].end <= words[k+1].start
Ordered(words) == InOrder(words) /\ Lasting(words)

\* A page that is not the last is gone when the next word is spoken, if its own
\* last word is: neither the padding nor the stretching reaches further.
LEMMA PageEndInTime ==
    ASSUME NEW words \in Seq(Word),
           NEW from \in Nat, NEW to \in 1 .. Len(words) - 1, from < to,
           words[to].end <= words[to+1].start
    PROVE  PageEnd(words, from, to) <= words[to+1].start
  <1>1. PICK a \in Int : a = words[from+1].start
    <2>1. from + 1 \in 1..Len(words)
      OBVIOUS
    <2>2. words[from+1] \in Word
      BY <2>1
    <2>3. QED
      BY <2>2 DEF Word
  <1>2. PICK b \in Int : b = words[to].end
    <2>1. words[to] \in Word
      OBVIOUS
    <2>2. QED
      BY <2>1 DEF Word
  <1>3. PICK c \in Int : c = words[to+1].start
    <2>1. to + 1 \in 1..Len(words)
      OBVIOUS
    <2>2. words[to+1] \in Word
      BY <2>1
    <2>3. QED
      BY <2>2 DEF Word
  <1>4. b <= c
    BY <1>2, <1>3
  <1>5. TailMs \in Nat /\ MinPageMs \in Nat
    BY BoundsAssumption
  <1>6. PICK slack \in Int : slack = Max({0, c - b - 1}) /\ slack \in {0, c - b - 1} /\ slack >= 0
    <2>1. PICK zero \in Int : zero = 0
      OBVIOUS
    <2>2. PICK d \in Int : d = c - b - 1
      OBVIOUS
    <2>3. Max({zero, d}) \in Int /\ Max({zero, d}) >= zero /\ Max({zero, d}) \in {zero, d}
      BY MaxOf
    <2>4. QED
      BY <2>1, <2>2, <2>3
  <1>7. PICK pad \in Int : pad = Min({TailMs, slack}) /\ pad <= slack
    <2>1. TailMs \in Int
      BY <1>5
    <2>2. QED
      BY <2>1, MinOf
  <1>8. PICK stretched \in Int : stretched = Min({a + MinPageMs, c - 1}) /\ stretched <= c - 1
    <2>1. PICK d \in Int : d = a + MinPageMs
      BY <1>5
    <2>2. PICK e \in Int : e = c - 1
      OBVIOUS
    <2>3. Min({d, e}) \in Int /\ Min({d, e}) <= e
      BY MinOf
    <2>4. QED
      BY <2>1, <2>2, <2>3
  <1> DEFINE padded == words[to].end
                         + IF to = Len(words) THEN TailMs
                           ELSE Min({TailMs, Max({0, words[to+1].start - words[to].end - 1})})
             longer == IF to = Len(words) THEN words[from+1].start + MinPageMs
                       ELSE Min({words[from+1].start + MinPageMs, words[to+1].start - 1})
  <1>9. PageEnd(words, from, to) =
           IF padded - words[from+1].start >= MinPageMs THEN padded
           ELSE Max({longer, words[to].end})
    BY DEF PageEnd
  <1>10. to # Len(words)
    OBVIOUS
  <1>11. padded = b + pad
    BY <1>2, <1>3, <1>6, <1>7, <1>10
  <1>12. longer = stretched
    BY <1>1, <1>3, <1>8, <1>10
  <1> HIDE DEF padded, longer
  <1>13. padded <= c /\ longer <= c /\ words[to].end <= c
    <2>1. slack <= c - b
      <3>1. slack = 0 \/ slack = c - b - 1
        BY <1>6
      <3>2. QED
        BY <1>4, <3>1
    <2>2. b + pad <= c
      BY <1>7, <2>1
    <2>3. QED
      BY <1>2, <1>4, <1>8, <1>11, <1>12, <2>2
  <1>14. Max({longer, words[to].end}) \in {longer, words[to].end}
    BY <1>2, <1>12, MaxOf
  <1>15. QED
    BY <1>3, <1>9, <1>13, <1>14

\* What later operations rely on: pages in order, each with its own id.
PagesTile(pages, revision, n) ==
    /\ Len(pages) \in Nat /\ DOMAIN pages = 1..Len(pages) /\ n \in Nat
    /\ \A p \in 1..Len(pages) :
          /\ pages[p].from \in Nat /\ pages[p].to \in Nat
          /\ pages[p].id = <<revision, pages[p].from, pages[p].to>>
          /\ pages[p].from = IF p = 1 THEN 0 ELSE pages[p-1].to
          /\ pages[p].from < pages[p].to /\ pages[p].to <= n
    /\ n = IF pages = <<>> THEN 0 ELSE pages[Len(pages)].to

LinesTilePage(page) ==
    /\ DOMAIN page.lines = 1..Len(page.lines) /\ Len(page.lines) \in Nat
    /\ \A l \in 1..Len(page.lines) :
          /\ page.lines[l][1] = IF l = 1 THEN page.from ELSE page.lines[l-1][2]
          /\ page.lines[l][2] > page.lines[l][1]
    /\ page.lines[Len(page.lines)][2] = page.to

\* One page.
HasLines(page, words, limits, from, to) ==
    LET lines == BreakLines(Lengths(SubSeq(words, from + 1, to)), limits.line, limits.lines)
    IN  /\ words \in Seq(Word) /\ limits \in Limits
        /\ from \in Nat /\ to \in 1..Len(words) /\ from < to
        /\ page.from = from /\ page.to = to
        /\ page.lines = [l \in DOMAIN lines |-> <<from + lines[l][1], from + lines[l][2]>>]

LEMMA PageLines ==
    ASSUME NEW words, NEW limits, NEW from, NEW to, NEW page,
           HasLines(page, words, limits, from, to)
    PROVE  LinesTilePage(page)
  <1> SUFFICES
        ASSUME words \in Seq(Word), limits \in Limits, from \in Nat, to \in 1..Len(words),
               from < to, page.from = from, page.to = to, NEW lines,
               lines = BreakLines(Lengths(SubSeq(words, from + 1, to)), limits.line, limits.lines),
               page.lines = [l \in DOMAIN lines |-> <<from + lines[l][1], from + lines[l][2]>>]
        PROVE  LinesTilePage(page)
    BY DEF HasLines
  <1>1. PICK part \in Seq(Word) : part = SubSeq(words, from + 1, to) /\ Len(part) = to - from
    <2>1. from + 1 \in 1..Len(words) /\ to \in 1..Len(words) /\ from + 1 <= to
      OBVIOUS
    <2>2. SubSeq(words, from + 1, to) \in Seq(Word)
      BY <2>1
    <2>3. Len(SubSeq(words, from + 1, to)) = to - from
      BY <2>1
    <2>4. QED
      BY <2>2, <2>3
  <1>2. PICK chars \in Seq(Nat) : chars = Lengths(part) /\ Len(chars) = to - from
    BY <1>1, LengthsTyped
  <1>3. chars # <<>> /\ limits.line \in Nat /\ limits.lines \in Nat \ {0}
    BY <1>2 DEF Limits
  <1>4. Tiles(lines, to - from)
    <2>1. lines = BreakLines(chars, limits.line, limits.lines)
      BY <1>1, <1>2
    <2>2. Tiles(BreakLines(chars, limits.line, limits.lines), Len(chars))
      BY <1>3, LinesTile
    <2>3. QED
      BY <1>2, <2>1, <2>2
  <1>5. PICK m \in Nat : m = Len(lines) /\ DOMAIN lines = 1..m
    BY <1>4 DEF Tiles
  <1>6. m # 0 /\ lines # <<>>
    BY <1>4, <1>5 DEF Tiles
  <1>7. PICK moved : moved = [l \in 1..m |-> <<from + lines[l][1], from + lines[l][2]>>]
    OBVIOUS
  <1>8. page.lines = moved
    BY <1>5, <1>7
  <1>9. \A l \in 1..m : lines[l][1] \in Nat /\ lines[l][2] \in Nat
    <2>1. ASSUME NEW l \in 1..m PROVE lines[l] \in Nat \X Nat
      BY <1>4, <1>5 DEF Tiles
    <2>2. QED
      BY <2>1
  <1>10. moved \in Seq(Nat \X Nat) /\ Len(moved) = m /\ DOMAIN moved = 1..m
    <2>1. ASSUME NEW l \in 1..m
          PROVE  <<from + lines[l][1], from + lines[l][2]>> \in Nat \X Nat
      <3>1. PICK a \in Nat : a = lines[l][1]
        BY <1>9
      <3>2. PICK b \in Nat : b = lines[l][2]
        BY <1>9
      <3>3. from + a \in Nat /\ from + b \in Nat
        OBVIOUS
      <3>4. QED
        BY <3>1, <3>2, <3>3
    <2>2. moved \in [1..m -> Nat \X Nat]
      BY <1>7, <2>1
    <2>3. QED
      BY <2>2
  <1>11. \A l \in 1..m : moved[l][1] = from + lines[l][1] /\ moved[l][2] = from + lines[l][2]
    BY <1>7
  <1>12. ASSUME NEW l \in 1..m
         PROVE  /\ moved[l][1] = IF l = 1 THEN from ELSE moved[l-1][2]
                /\ moved[l][2] > moved[l][1]
    <2>1. /\ lines[l][1] = IF l = 1 THEN 0 ELSE lines[l-1][2]
          /\ lines[l][1] < lines[l][2]
      BY <1>4, <1>5 DEF Tiles
    <2>2. CASE l = 1
      <3>1. moved[l][1] = from + lines[l][1] /\ moved[l][2] = from + lines[l][2]
        BY <1>11
      <3>2. PICK b \in Nat : b = lines[l][2]
        BY <1>9
      <3>3. lines[l][1] = 0 /\ 0 < b
        BY <2>1, <2>2, <3>2
      <3>4. from + 0 = from /\ from + b > from
        BY <3>3
      <3>5. QED
        BY <2>2, <3>1, <3>2, <3>3, <3>4
    <2>3. CASE l # 1
      <3>1. l - 1 \in 1..m
        BY <2>3
      <3>2. moved[l][1] = from + lines[l][1] /\ moved[l-1][2] = from + lines[l-1][2]
              /\ moved[l][2] = from + lines[l][2]
        BY <1>11, <3>1
      <3>3. lines[l][1] \in Nat /\ lines[l][2] \in Nat
        BY <1>9
      <3>4. moved[l][2] > moved[l][1]
        <4>1. PICK a \in Nat : a = lines[l][1]
          BY <3>3
        <4>2. PICK b \in Nat : b = lines[l][2]
          BY <3>3
        <4>3. a < b
          BY <2>1, <4>1, <4>2
        <4>4. from + a < from + b
          BY <4>3
        <4>5. QED
          BY <3>2, <4>1, <4>2, <4>4
      <3>5. moved[l][1] = moved[l-1][2]
        BY <2>1, <2>3, <3>2
      <3>6. QED
        BY <2>3, <3>4, <3>5
    <2>4. QED
      BY <2>2, <2>3
  <1>13. moved[m][2] = to
    <2>1. m \in 1..m /\ lines[m][2] = to - from
      BY <1>4, <1>5, <1>6 DEF Tiles
    <2>2. moved[m][2] = from + lines[m][2]
      BY <1>11, <2>1
    <2>3. from + (to - from) = to
      OBVIOUS
    <2>4. QED
      BY <2>1, <2>2, <2>3
  <1>14. QED
    BY <1>8, <1>10, <1>12, <1>13 DEF LinesTilePage

\* The pages of a document: what evaluateCaptions asks for.
LEMMA PagesFaithful ==
    ASSUME NEW words \in Seq(Word), NEW limits \in Limits, NEW breaks, NEW joins, NEW revision,
           NEW pages, pages = PagesOf(words, limits, breaks, joins, revision)
    PROVE  /\ PagesTile(pages, revision, Len(words))
           /\ Covers(words, pages) /\ InTime(words, pages)
  <1>1. PICK forced : forced = Forced(words, breaks)
    OBVIOUS
  <1>2. PICK ranges : ranges = SegmentWords(words, limits, forced, Forbidden(words, breaks, joins))
    OBVIOUS
  <1>3. Tiles(ranges, Len(words))
    BY <1>2, SegmentsTile
  <1>4. PICK m \in Nat : m = Len(ranges) /\ DOMAIN ranges = 1..m
    BY <1>3 DEF Tiles
  <1>5. ASSUME NEW p \in 1..m
        PROVE  /\ ranges[p][1] \in Nat /\ ranges[p][2] \in 1..Len(words)
               /\ ranges[p][1] < ranges[p][2]
               /\ ranges[p][1] = IF p = 1 THEN 0 ELSE ranges[p-1][2]
    <2>1. ranges[p] \in Nat \X Nat
      BY <1>3, <1>4 DEF Tiles
    <2>2. ranges[p][1] \in Nat /\ ranges[p][2] \in Nat
      BY <2>1
    <2>3. QED
      BY <1>3, <1>4, <2>2 DEF Tiles
  <1> DEFINE Lines(p) == BreakLines(Lengths(SubSeq(words, ranges[p][1] + 1, ranges[p][2])),
                                    limits.line, limits.lines)
             Page(p) == [id |-> <<revision, ranges[p][1], ranges[p][2]>>,
                         from |-> ranges[p][1], to |-> ranges[p][2],
                         start |-> words[ranges[p][1]+1].start,
                         end |-> PageEnd(words, ranges[p][1], ranges[p][2]),
                         lines |-> [l \in DOMAIN Lines(p) |->
                            <<ranges[p][1] + Lines(p)[l][1], ranges[p][1] + Lines(p)[l][2]>>],
                         manual |-> ranges[p][1] \in forced]
  <1>6. pages = [p \in 1..m |-> Page(p)]
    BY <1>1, <1>2, <1>4 DEF PagesOf, BuildPages
  <1>7. \A p \in 1..m : pages[p] = Page(p)
    <2> HIDE DEF Page
    <2>1. QED
      BY <1>6
  <1>8. Len(pages) = m /\ DOMAIN pages = 1..m /\ (pages = <<>> <=> m = 0)
    <2> HIDE DEF Page
    <2>1. PICK V : V = {Page(p) : p \in 1..m}
      OBVIOUS
    <2>2. pages \in [1..m -> V]
      BY <1>6, <2>1
    <2>3. pages \in Seq(V)
      BY <2>2
    <2>4. QED
      BY <2>2, <2>3
  <1>9. ASSUME NEW p \in 1..m
        PROVE  /\ pages[p].from = ranges[p][1] /\ pages[p].to = ranges[p][2]
               /\ pages[p].id = <<revision, ranges[p][1], ranges[p][2]>>
               /\ pages[p].start = words[ranges[p][1]+1].start
               /\ pages[p].end = PageEnd(words, ranges[p][1], ranges[p][2])
               /\ LinesTilePage(pages[p])
    <2>1. PICK lines : lines = Lines(p)
      OBVIOUS
    <2>2. PICK page : page = pages[p]
      OBVIOUS
    <2> HIDE DEF Lines
    <2>3. page = [id |-> <<revision, ranges[p][1], ranges[p][2]>>,
                  from |-> ranges[p][1], to |-> ranges[p][2],
                  start |-> words[ranges[p][1]+1].start,
                  end |-> PageEnd(words, ranges[p][1], ranges[p][2]),
                  lines |-> [l \in DOMAIN lines |->
                               <<ranges[p][1] + lines[l][1], ranges[p][1] + lines[l][2]>>],
                  manual |-> ranges[p][1] \in forced]
      BY <1>7, <2>1, <2>2
    <2> USE DEF Lines
    <2>4. /\ page.from = ranges[p][1] /\ page.to = ranges[p][2]
          /\ page.id = <<revision, ranges[p][1], ranges[p][2]>>
          /\ page.start = words[ranges[p][1]+1].start
          /\ page.end = PageEnd(words, ranges[p][1], ranges[p][2])
          /\ page.lines = [l \in DOMAIN lines |-> <<ranges[p][1] + lines[l][1], ranges[p][1] + lines[l][2]>>]
      BY <2>3
    <2>5. LinesTilePage(page)
      <3>1. PICK from \in Nat : from = ranges[p][1]
        BY <1>5
      <3>2. PICK to \in 1..Len(words) : to = ranges[p][2] /\ from < to
        BY <1>5, <3>1
      <3>3. lines = BreakLines(Lengths(SubSeq(words, from + 1, to)), limits.line, limits.lines)
        BY <2>1, <3>1, <3>2
      <3>4. /\ page.from = from /\ page.to = to
            /\ page.lines = [l \in DOMAIN lines |-> <<from + lines[l][1], from + lines[l][2]>>]
        BY <2>4, <3>1, <3>2
      <3> HIDE DEF Lines, Page
      <3>5. HasLines(page, words, limits, from, to)
        BY <3>2, <3>3, <3>4 DEF HasLines
      <3>6. QED
        BY <3>5, PageLines
    <2>6. QED
      BY <2>2, <2>4, <2>5
  <1> HIDE DEF Page, Lines
  <1>10. Len(words) = IF pages = <<>> THEN 0 ELSE pages[Len(pages)].to
    <2>1. ranges = <<>> <=> m = 0
      BY <1>3, <1>4 DEF Tiles
    <2>2. CASE m = 0
      BY <1>3, <1>8, <2>1, <2>2 DEF Tiles
    <2>3. CASE m # 0
      <3>1. m \in 1..m
        BY <2>3
      <3>2. Len(words) = ranges[m][2]
        BY <1>3, <1>4, <2>1, <2>3 DEF Tiles
      <3>3. QED
        BY <1>8, <1>9, <2>3, <3>1, <3>2
    <2>4. QED
      BY <2>2, <2>3
  <1>11. ASSUME NEW p \in 1..m
         PROVE  /\ pages[p].from = IF p = 1 THEN 0 ELSE pages[p-1].to
                /\ pages[p].from < pages[p].to
    <2>1. CASE p = 1
      BY <1>5, <1>9, <2>1
    <2>2. CASE p # 1
      <3>1. p - 1 \in 1..m
        BY <2>2
      <3>2. QED
        BY <1>5, <1>9, <2>2, <3>1
    <2>3. QED
      BY <2>1, <2>2
  <1>12. PagesTile(pages, revision, Len(words))
    <2>1. ASSUME NEW p \in 1..m
          PROVE  /\ pages[p].from \in Nat /\ pages[p].to \in Nat
                 /\ pages[p].id = <<revision, pages[p].from, pages[p].to>>
                 /\ pages[p].to <= Len(words)
      <3>1. /\ pages[p].from = ranges[p][1] /\ pages[p].to = ranges[p][2]
            /\ pages[p].id = <<revision, ranges[p][1], ranges[p][2]>>
        BY <1>9
      <3>2. ranges[p][1] \in Nat /\ ranges[p][2] \in 1..Len(words)
        BY <1>5
      <3>3. QED
        BY <3>1, <3>2
    <2>2. QED
      BY <1>8, <1>10, <1>11, <2>1 DEF PagesTile
  <1>13. ASSUME NEW p \in 1 .. m - 1, words[pages[p].to].end <= pages[p+1].start
         PROVE  pages[p].end <= pages[p+1].start
    <2>1. p \in 1..m /\ p + 1 \in 1..m /\ p + 1 # 1 /\ (p + 1) - 1 = p
      OBVIOUS
    <2>2. ranges[p+1][1] = ranges[p][2] /\ ranges[p+1][1] < ranges[p+1][2]
            /\ ranges[p+1][2] \in 1..Len(words)
      BY <1>5, <2>1
    <2>3. PICK to \in 1 .. Len(words) - 1 : to = ranges[p][2]
      BY <1>5, <2>1, <2>2
    <2>4. PICK from \in Nat : from = ranges[p][1] /\ from < to
      BY <1>5, <2>1, <2>3
    <2>5. /\ pages[p+1].start = words[to+1].start /\ pages[p].end = PageEnd(words, from, to)
          /\ pages[p].to = to
      BY <1>9, <2>1, <2>2, <2>3, <2>4
    <2>6. PageEnd(words, from, to) <= words[to+1].start
      BY <1>13, <2>4, <2>5, PageEndInTime
    <2>7. QED
      BY <2>5, <2>6
  <1>14. InTime(words, pages)
    BY <1>8, <1>13 DEF InTime
  <1>15. Covers(words, pages)
    <2>1. ASSUME NEW p \in 1..m
          PROVE  \A l \in DOMAIN pages[p].lines :
                    /\ pages[p].lines[l][1] =
                          IF l = 1 THEN pages[p].from ELSE pages[p].lines[l-1][2]
                    /\ pages[p].lines[l][2] > pages[p].lines[l][1]
      <3>1. PICK page : page = pages[p]
        OBVIOUS
      <3>2. LinesTilePage(page)
        BY <1>9, <3>1
      <3>3. \A l \in DOMAIN page.lines :
               /\ page.lines[l][1] = IF l = 1 THEN page.from ELSE page.lines[l-1][2]
               /\ page.lines[l][2] > page.lines[l][1]
        BY <3>2 DEF LinesTilePage
      <3>4. QED
        BY <3>1, <3>3
    <2>2. \A p \in 1..m : pages[p].lines[Len(pages[p].lines)][2] = pages[p].to
      BY <1>9 DEF LinesTilePage
    <2>3. \A p \in 1..m : pages[p].to > pages[p].from
      BY <1>5, <1>9
    <2>4. \A p \in 1..m : pages[p].from = IF p = 1 THEN 0 ELSE pages[p-1].to
      BY <1>11
    <2>5. \A p \in 1..m :
             /\ pages[p].from = IF p = 1 THEN 0 ELSE pages[p-1].to
             /\ pages[p].to > pages[p].from
             /\ \A l \in DOMAIN pages[p].lines :
                   /\ pages[p].lines[l][1] =
                         IF l = 1 THEN pages[p].from ELSE pages[p].lines[l-1][2]
                   /\ pages[p].lines[l][2] > pages[p].lines[l][1]
             /\ pages[p].lines[Len(pages[p].lines)][2] = pages[p].to
      BY <2>1, <2>2, <2>3, <2>4, Zenon
    <2>6. QED
      BY <1>8, <1>10, <2>5, Zenon DEF Covers
  <1>16. QED
    BY <1>12, <1>14, <1>15

\* Where a page starts and ends, and whether it is marked as a manual one.
LEMMA PagesStart ==
    ASSUME NEW words \in Seq(Word), NEW limits \in Limits, NEW breaks, NEW joins, NEW revision,
           NEW pages, pages = PagesOf(words, limits, breaks, joins, revision),
           NEW forced, forced = Forced(words, breaks),
           NEW ranges, ranges = SegmentWords(words, limits, forced, Forbidden(words, breaks, joins))
    PROVE  /\ DOMAIN pages = 1..Len(ranges)
           /\ \A p \in 1..Len(ranges) : /\ pages[p].from = ranges[p][1] /\ pages[p].to = ranges[p][2]
                                        /\ pages[p].manual <=> ranges[p][1] \in forced
  <1>1. PICK m \in Nat : m = Len(ranges) /\ DOMAIN ranges = 1..m
    BY SegmentsTile DEF Tiles
  <1> DEFINE Lines(p) == BreakLines(Lengths(SubSeq(words, ranges[p][1] + 1, ranges[p][2])),
                                    limits.line, limits.lines)
             Page(p) == [id |-> <<revision, ranges[p][1], ranges[p][2]>>,
                         from |-> ranges[p][1], to |-> ranges[p][2],
                         start |-> words[ranges[p][1]+1].start,
                         end |-> PageEnd(words, ranges[p][1], ranges[p][2]),
                         lines |-> [l \in DOMAIN Lines(p) |->
                            <<ranges[p][1] + Lines(p)[l][1], ranges[p][1] + Lines(p)[l][2]>>],
                         manual |-> ranges[p][1] \in forced]
  <1>2. pages = [p \in 1..m |-> Page(p)]
    BY <1>1 DEF PagesOf, BuildPages
  <1>3. ASSUME NEW p \in 1..m
        PROVE  /\ pages[p].from = ranges[p][1] /\ pages[p].to = ranges[p][2]
               /\ pages[p].manual <=> ranges[p][1] \in forced
    <2>1. pages[p] = Page(p)
      <3> HIDE DEF Page
      <3>1. QED
        BY <1>2
    <2>2. pages[p].from = ranges[p][1] /\ pages[p].to = ranges[p][2]
      BY <2>1
    <2>3. pages[p].manual = (ranges[p][1] \in forced)
      BY <2>1, SMTT(30)
    <2>4. QED
      BY <2>2, <2>3
  <1>4. DOMAIN pages = 1..m
    <2> HIDE DEF Page
    <2>1. QED
      BY <1>2
  <1>5. QED
    BY <1>1, <1>3, <1>4

\* The pages of a document start at every forced boundary and at no forbidden one,
\* wherever a paging can.
LEMMA PagesLawful ==
    ASSUME NEW words \in Seq(Word), NEW limits \in Limits, NEW breaks, NEW joins, NEW revision,
           NEW pages, pages = PagesOf(words, limits, breaks, joins, revision),
           NEW forced, forced = Forced(words, breaks),
           NEW forbidden, forbidden = Forbidden(words, breaks, joins),
           words # <<>>, Feasible(Len(words), limits.words, forced, forbidden)
    PROVE  /\ \A b \in forced : \E p \in DOMAIN pages : pages[p].from = b
           /\ \A p \in DOMAIN pages : pages[p].from \notin forbidden
           /\ \A p \in DOMAIN pages : pages[p].manual <=> pages[p].from \in forced
  <1>1. PICK n \in Nat \ {0} : n = Len(words)
    OBVIOUS
  <1>2. PICK ranges : ranges = SegmentWords(words, limits, forced, forbidden)
    OBVIOUS
  <1>3. PICK starts \in SUBSET (0 .. n - 1) :
           /\ 0 \in starts /\ forced \subseteq starts /\ starts \cap forbidden = {}
           /\ \A k \in 0 .. n - limits.words - 1 : \E s \in starts : k < s /\ s <= k + limits.words
    BY <1>1 DEF Feasible
  <1>4. PICK marks : marks = starts \cup {n}
    OBVIOUS
  <1>5. Linked(marks, limits, forced, forbidden) /\ marks \subseteq Nat /\ n \in marks
    BY <1>3, <1>4, StartsLink
  <1>6. Lawful(ranges, forced, forbidden)
    BY <1>1, <1>2, <1>5, SegmentsLawful
  <1>7. Tiles(ranges, n)
    BY <1>1, <1>2, SegmentsTile
  <1>8. /\ DOMAIN pages = 1..Len(ranges)
        /\ \A p \in 1..Len(ranges) : /\ pages[p].from = ranges[p][1]
                                     /\ pages[p].manual <=> ranges[p][1] \in forced
    BY <1>2, PagesStart
  <1>9. \A b \in forced : \E p \in DOMAIN pages : pages[p].from = b
    <2> SUFFICES ASSUME NEW b \in forced PROVE \E p \in DOMAIN pages : pages[p].from = b
      OBVIOUS
    <2>1. b \in 0 .. n - 1
      BY <1>3
    <2>2. PICK p \in 1..Len(ranges) : ranges[p][1] = b
      BY <1>6, <1>7, <2>1, LawfulStarts
    <2>3. QED
      BY <1>8, <2>2
  <1>10. \A p \in DOMAIN pages : pages[p].from \notin forbidden
    BY <1>6, <1>8 DEF Lawful
  <1>11. \A p \in DOMAIN pages : pages[p].manual <=> pages[p].from \in forced
    <2> SUFFICES ASSUME NEW p \in DOMAIN pages
                 PROVE  pages[p].manual <=> pages[p].from \in forced
      OBVIOUS
    <2>1. p \in 1..Len(ranges)
      BY <1>8
    <2>2. pages[p].from = ranges[p][1] /\ (pages[p].manual <=> ranges[p][1] \in forced)
      BY <1>8, <2>1
    <2>3. QED
      BY <2>2
  <1>12. QED
    BY <1>9, <1>10, <1>11

LEMMA PagesAscend ==
    ASSUME NEW pages, NEW revision, NEW n, PagesTile(pages, revision, n),
           NEW q \in 1..Len(pages), NEW p \in 1 .. q - 1
    PROVE  pages[p].to <= pages[q].from
  <1> DEFINE m == Len(pages)
             T == {k \in 0..m : k # 0 => \A j \in 1 .. k - 1 : pages[j].to <= pages[k].from}
  <1>1. m \in Nat /\ 0 \in T
    BY DEF PagesTile
  <1>2. ASSUME NEW k \in 1..m, k - 1 \in T PROVE k \in T
    <2> SUFFICES ASSUME NEW j \in 1 .. k - 1 PROVE pages[j].to <= pages[k].from
      BY <1>1
    <2>1. k - 1 \in 1..m /\ j \in 1..m /\ k # 1
      BY <1>1
    <2>2. pages[k].from = pages[k-1].to
      BY <2>1 DEF PagesTile
    <2>3. CASE j = k - 1
      BY <2>1, <2>2, <2>3 DEF PagesTile
    <2>4. CASE j # k - 1
      <3>1. j \in 1 .. (k - 1) - 1
        BY <2>4
      <3>2. pages[j].to <= pages[k-1].from
        BY <1>2, <2>1, <3>1
      <3>3. /\ pages[j].to \in Nat /\ pages[k-1].from \in Nat /\ pages[k-1].to \in Nat
            /\ pages[k-1].from < pages[k-1].to
        BY <2>1 DEF PagesTile
      <3>4. QED
        BY <2>2, <3>2, <3>3
    <2>5. QED
      BY <2>3, <2>4
  <1> HIDE DEF T
  <1>3. \A k \in 0..m : k \in T
    BY <1>1, <1>2, Upward
  <1>4. q \in T
    BY <1>1, <1>3
  <1>5. QED
    BY <1>4 DEF T

LEMMA PageIdsDiffer ==
    ASSUME NEW pages, NEW revision, NEW n, PagesTile(pages, revision, n),
           NEW p \in 1..Len(pages), NEW q \in 1..Len(pages), pages[p].id = pages[q].id
    PROVE  q = p
  <1>1. \A k \in 1..Len(pages) : /\ pages[k].from \in Nat /\ pages[k].to \in Nat
                                 /\ pages[k].from < pages[k].to
                                 /\ pages[k].id = <<revision, pages[k].from, pages[k].to>>
    BY DEF PagesTile
  <1>2. pages[p].from = pages[q].from
    BY <1>1
  <1>3. Len(pages) \in Nat
    BY DEF PagesTile
  <1>4. CASE p < q
    <2>1. p \in 1 .. q - 1
      BY <1>3, <1>4
    <2>2. pages[p].to <= pages[q].from
      BY <2>1, PagesAscend
    <2>3. QED
      BY <1>1, <1>2, <2>2
  <1>5. CASE q < p
    <2>1. q \in 1 .. p - 1
      BY <1>3, <1>5
    <2>2. pages[q].to <= pages[p].from
      BY <2>1, PagesAscend
    <2>3. QED
      BY <1>1, <1>2, <2>2
  <1>6. QED
    BY <1>3, <1>4, <1>5

\* The cases of an edit.
LEMMA EditedTyped ==
    ASSUME NEW pages, NEW revision, NEW n, PagesTile(pages, revision, n),
           NEW doc \in Docs(pages), NEW op, OpTyped(op), Accepts(doc, op),
           NEW fresh0 \in Nat \ {0}
    PROVE  /\ Edited(doc, op, fresh0) \in Docs(pages)
           /\ ~Repages(doc, op) => \E style \in StyleType :
                                      Edited(doc, op, fresh0) = [doc EXCEPT !.style = style]
  <1>1. CASE op.op = "style"
    <2>1. PICK style \in StyleType : style = ApplyStyle(doc.style, op.patch)
      BY <1>1, StyleEdited DEF OpTyped, Docs
    <2>2. PICK limits \in Limits :
             limits = IF style.lines # doc.style.lines THEN LimitsOf[style.lines] ELSE doc.limits
      BY LimitsTyped DEF Docs
    <2>3. Edited(doc, op, fresh0) = [doc EXCEPT !.style = style, !.limits = limits]
      BY <1>1, <2>1, <2>2 DEF Edited
    <2>4. ~Repages(doc, op) => style.lines = doc.style.lines
      BY <1>1, <2>1 DEF Repages
    <2>5. ~Repages(doc, op) => limits = doc.limits
      BY <2>2, <2>4
    <2>6. [doc EXCEPT !.style = style, !.limits = limits] \in Docs(pages)
      BY DEF Docs
    <2>7. limits = doc.limits =>
             [doc EXCEPT !.style = style, !.limits = limits] = [doc EXCEPT !.style = style]
      BY DEF Docs
    <2>8. QED
      BY <2>3, <2>5, <2>6, <2>7
  <1>2. CASE op.op = "preset"
    <2>1. op.style \in StyleType /\ LimitsOf[op.style.lines] \in Limits
      BY <1>2, StylesTyped, LimitsTyped DEF OpTyped
    <2>2. Edited(doc, op, fresh0) = [doc EXCEPT !.style = op.style, !.limits = LimitsOf[op.style.lines]]
      BY <1>2 DEF Edited
    <2>3. QED
      BY <1>2, <2>1, <2>2 DEF Docs, Repages
  <1>3. CASE op.op = "resegment"
    <2>1. Edited(doc, op, fresh0) = [doc EXCEPT !.limits = op.limits, !.breaks = {}, !.joins = {}]
      BY <1>3 DEF Edited
    <2>2. op.limits \in Limits
      BY <1>3 DEF OpTyped
    <2>3. QED
      BY <1>3, <2>1, <2>2 DEF Docs, Repages
  <1>4. CASE op.op = "replace"
    <2>1. PICK k \in 1..Len(doc.words) : k = Index(doc.words, op.word)
      BY <1>4, IndexIs DEF Accepts, HasWord, Docs
    <2>2. PICK new \in Seq(Word) : new = Replacements(doc.words[k], op.tokens, fresh0)
      BY <1>4, ReplacementsTyped DEF OpTyped, Docs
    <2>3. PICK words : words = SubSeq(doc.words, 1, k - 1) \o new
                                 \o SubSeq(doc.words, k + 1, Len(doc.words))
      OBVIOUS
    <2>4. words \in Seq(Word)
      BY <2>3 DEF Docs
    <2>5. Edited(doc, op, fresh0) = [doc EXCEPT !.words = words]
      BY <1>4, <2>1, <2>2, <2>3 DEF Edited
    <2>6. QED
      BY <1>4, <2>4, <2>5 DEF Docs, Repages
  <1>5. CASE op.op = "timing"
    <2>1. PICK k \in 1..Len(doc.words) : k = Index(doc.words, op.word)
      BY <1>5, IndexIs DEF Accepts, HasWord, Docs
    <2>2. PICK words : words = [doc.words EXCEPT ![k].start = op.start, ![k].end = op.end]
      OBVIOUS
    <2>3. words \in Seq(Word)
      <3>1. PICK word : word = [doc.words[k] EXCEPT !.start = op.start, !.end = op.end]
        OBVIOUS
      <3>2. word \in Word
        <4>1. op.start \in Int /\ op.end \in Int
          BY <1>5 DEF OpTyped
        <4>2. doc.words[k] \in Word
          BY DEF Docs
        <4>3. QED
          BY <3>1, <4>1, <4>2 DEF Word
      <3>3. words = [doc.words EXCEPT ![k] = word]
        BY <2>2, <3>1 DEF Docs
      <3>4. QED
        BY <3>2, <3>3 DEF Docs
    <2>4. Edited(doc, op, fresh0) = [doc EXCEPT !.words = words]
      BY <1>5, <2>1, <2>2, ZenonT(40) DEF Edited
    <2>5. QED
      BY <1>5, <2>3, <2>4 DEF Docs, Repages
  <1>6. CASE op.op = "delete"
    <2>1. PICK k \in 1..Len(doc.words) : k = Index(doc.words, op.word)
      BY <1>6, IndexIs DEF Accepts, HasWord, Docs
    <2>2. PICK words : words = RemoveAt(doc.words, k)
      OBVIOUS
    <2>3. words \in Seq(Word)
      BY <2>2 DEF RemoveAt, Docs
    <2>4. Edited(doc, op, fresh0) = [doc EXCEPT !.words = words,
                !.breaks = doc.breaks \ {op.word}, !.joins = doc.joins \ {op.word}]
      BY <1>6, <2>1, <2>2 DEF Edited
    <2>5. doc.breaks \ {op.word} \in SUBSET Nat /\ doc.joins \ {op.word} \in SUBSET Nat
      BY DEF Docs
    <2>6. QED
      BY <1>6, <2>3, <2>4, <2>5 DEF Docs, Repages
  <1>7. CASE op.op = "insert"
    <2>1. PICK k \in 1 .. Len(doc.words) + 1 :
             k = IF op.after = 0 THEN 1 ELSE Index(doc.words, op.after) + 1
      <3>1. Len(doc.words) \in Nat
        BY DEF Docs
      <3>2. QED
        BY <1>7, <3>1, IndexIs DEF Accepts, HasWord, Docs
    <2>2. PICK word \in Word :
             word = [id |-> fresh0, chars |-> op.chars, start |-> op.start, end |-> op.end]
      BY <1>7 DEF OpTyped, Word
    <2>3. PICK words : words = InsertAt(doc.words, k, word)
      OBVIOUS
    <2>4. words \in Seq(Word)
      BY <2>3 DEF InsertAt, Docs
    <2>5. Edited(doc, op, fresh0) = [doc EXCEPT !.words = words]
      BY <1>7, <2>1, <2>2, <2>3 DEF Edited
    <2>6. QED
      BY <1>7, <2>4, <2>5 DEF Docs, Repages
  <1>8. CASE op.op = "split"
    <2>1. Edited(doc, op, fresh0) = [doc EXCEPT !.breaks = doc.breaks \cup {op.word},
                                               !.joins = doc.joins \ {op.word}]
      BY <1>8 DEF Edited
    <2>2. op.word \in Nat
      BY <1>8, IndexIs DEF Accepts, HasWord, Docs
    <2>3. doc.breaks \cup {op.word} \in SUBSET Nat /\ doc.joins \ {op.word} \in SUBSET Nat
      BY <2>2 DEF Docs
    <2>4. Edited(doc, op, fresh0) \in Docs(pages)
      BY <2>1, <2>3 DEF Docs
    <2>5. QED
      BY <1>8, <2>4 DEF Repages
  <1>9. CASE op.op = "merge"
    <2>1. doc.pages = pages
      BY DEF Docs
    <2>2. PICK p \in PageIndex(doc, op.page) :
             p < Len(pages) /\ pages[p+1].from < Len(doc.words)
      BY <1>9, <2>1 DEF Accepts
    <2>3. p \in 1..Len(pages) /\ pages[p].id = op.page
      BY <2>1, <2>2 DEF PageIndex, PagesTile
    <2>4. ASSUME NEW q \in PageIndex(doc, op.page) PROVE q = p
      <3>1. q \in 1..Len(pages) /\ pages[q].id = op.page
        BY <2>1, <2>4 DEF PageIndex, PagesTile
      <3>2. QED
        BY <2>3, <3>1, PageIdsDiffer
    <2>5. p = CHOOSE q \in PageIndex(doc, op.page) : TRUE
      BY <2>2, <2>4
    <2>6. PICK first : first = doc.words[pages[p+1].from + 1].id
      OBVIOUS
    <2>7. first \in Nat
      <3>1. Len(pages) \in Nat
        BY DEF PagesTile
      <3>2. p + 1 \in 1..Len(pages)
        BY <2>2, <2>3, <3>1
      <3>3. PICK k \in Nat : k = pages[p+1].from
        BY <3>2 DEF PagesTile
      <3>4. doc.words \in Seq(Word) /\ k < Len(doc.words)
        BY <2>2, <3>3 DEF Docs
      <3>5. k + 1 \in 1..Len(doc.words)
        BY <3>4
      <3>6. doc.words[k+1] \in Word
        BY <3>4, <3>5
      <3>7. QED
        BY <2>6, <3>3, <3>6 DEF Word
    <2>8. Edited(doc, op, fresh0) = [doc EXCEPT !.joins = doc.joins \cup {first},
                                               !.breaks = doc.breaks \ {first}]
      BY <1>9, <2>1, <2>5, <2>6 DEF Edited
    <2>9. doc.joins \cup {first} \in SUBSET Nat /\ doc.breaks \ {first} \in SUBSET Nat
      BY <2>7 DEF Docs
    <2>10. Edited(doc, op, fresh0) \in Docs(pages)
      BY <2>8, <2>9 DEF Docs
    <2>11. QED
      BY <1>9, <2>10 DEF Repages
  <1>10. QED
    BY <1>1, <1>2, <1>3, <1>4, <1>5, <1>6, <1>7, <1>8, <1>9 DEF OpTyped

\* The first h words, others, and those from the j-th on.
Splice(w, h, new, j) == SubSeq(w, 1, h) \o new \o SubSeq(w, j, Len(w))

IsSplice(words, w, n, h, new, m, j) ==
    /\ Len(words) = h + m + (n - j + 1)
    /\ \A i \in 1 .. h + m + (n - j + 1) :
          words[i] = IF i <= h THEN w[i]
                     ELSE IF i <= h + m THEN new[i - h] ELSE w[i - h - m + j - 1]

LEMMA Spliced ==
    ASSUME NEW w \in Seq(Word), NEW new \in Seq(Word), NEW h \in Nat, NEW j \in Nat,
           h < j, j <= Len(w) + 1
    PROVE  IsSplice(Splice(w, h, new, j), w, Len(w), h, new, Len(new), j)
  <1> SUFFICES ASSUME NEW n \in Nat, n = Len(w), NEW m \in Nat, m = Len(new),
                      NEW words, words = Splice(w, h, new, j)
               PROVE  IsSplice(words, w, n, h, new, m, j)
    OBVIOUS
  <1>1. /\ SubSeq(w, 1, h) \in Seq(Word) /\ Len(SubSeq(w, 1, h)) = h
        /\ \A i \in 1..h : SubSeq(w, 1, h)[i] = w[i]
    <2>1. \A i \in 1..h : w[i] \in Word
      OBVIOUS
    <2>2. /\ SubSeq(w, 1, h) \in Seq(Word)
          /\ Len(SubSeq(w, 1, h)) = IF 1 <= h THEN h - 1 + 1 ELSE 0
          /\ \A i \in 1 .. h - 1 + 1 : SubSeq(w, 1, h)[i] = w[1 + i - 1]
      BY <2>1, SubSeqProperties
    <2>3. h - 1 + 1 = h /\ \A i \in 1..h : 1 + i - 1 = i
      OBVIOUS
    <2>4. QED
      BY <2>2, <2>3
  <1>2. PICK a \in Seq(Word) : /\ a = SubSeq(w, 1, h) /\ Len(a) = h
                               /\ \A i \in 1..h : a[i] = w[i]
    BY <1>1
  <1>3. /\ SubSeq(w, j, n) \in Seq(Word) /\ Len(SubSeq(w, j, n)) = n - j + 1
        /\ \A i \in 1 .. n - j + 1 : SubSeq(w, j, n)[i] = w[j + i - 1]
    <2>1. \A i \in j..n : w[i] \in Word
      OBVIOUS
    <2>2. /\ SubSeq(w, j, n) \in Seq(Word)
          /\ Len(SubSeq(w, j, n)) = IF j <= n THEN n - j + 1 ELSE 0
          /\ \A i \in 1 .. n - j + 1 : SubSeq(w, j, n)[i] = w[j + i - 1]
      BY <2>1, SubSeqProperties
    <2>3. QED
      BY <2>2
  <1>4. PICK b \in Seq(Word) : /\ b = SubSeq(w, j, n) /\ Len(b) = n - j + 1
                               /\ \A i \in 1 .. n - j + 1 : b[i] = w[j + i - 1]
    BY <1>3
  <1>5. PICK c \in Seq(Word) : /\ c = a \o new /\ Len(c) = h + m
                               /\ \A i \in 1 .. h + m :
                                     c[i] = IF i <= h THEN a[i] ELSE new[i - h]
    <2>1. PICK c : c = a \o new
      OBVIOUS
    <2>2. /\ c \in Seq(Word) /\ Len(c) = Len(a) + Len(new)
          /\ \A i \in 1 .. Len(a) + Len(new) :
                c[i] = IF i <= Len(a) THEN a[i] ELSE new[i - Len(a)]
      BY <2>1, ConcatProperties
    <2>3. /\ c \in Seq(Word) /\ Len(c) = h + m
          /\ \A i \in 1 .. h + m : c[i] = IF i <= h THEN a[i] ELSE new[i - h]
      BY <1>2, <2>2
    <2>4. QED
      BY <2>1, <2>3
  <1>6. /\ Len(words) = h + m + (n - j + 1)
        /\ \A i \in 1 .. h + m + (n - j + 1) :
              words[i] = IF i <= h + m THEN c[i] ELSE b[i - (h + m)]
    <2>1. words = c \o b
      BY <1>2, <1>4, <1>5 DEF Splice
    <2>2. /\ Len(c \o b) = Len(c) + Len(b)
          /\ \A i \in 1 .. Len(c) + Len(b) :
                (c \o b)[i] = IF i <= Len(c) THEN c[i] ELSE b[i - Len(c)]
      BY ConcatProperties
    <2>3. PICK r \in Nat : r = Len(b) /\ r = n - j + 1
      <3>1. Len(b) \in Nat
        OBVIOUS
      <3>2. QED
        BY <1>4, <3>1
    <2>4. /\ Len(words) = h + m + r
          /\ \A i \in 1 .. h + m + r : words[i] = IF i <= h + m THEN c[i] ELSE b[i - (h + m)]
      BY <1>5, <2>1, <2>2, <2>3
    <2>5. QED
      BY <2>3, <2>4
  <1>7. ASSUME NEW i \in 1 .. h + m + (n - j + 1)
        PROVE  words[i] = IF i <= h THEN w[i]
                          ELSE IF i <= h + m THEN new[i - h] ELSE w[i - h - m + j - 1]
    <2>1. CASE i <= h
      <3>1. i \in 1..h /\ i <= h + m /\ i \in 1 .. h + m
        BY <2>1
      <3>2. QED
        BY <1>2, <1>5, <1>6, <2>1, <3>1
    <2>2. CASE ~(i <= h) /\ i <= h + m
      <3>1. i \in 1 .. h + m
        BY <2>2
      <3>2. QED
        BY <1>5, <1>6, <2>2, <3>1
    <2>3. CASE ~(i <= h) /\ ~(i <= h + m)
      <3>1. i - (h + m) \in 1 .. n - j + 1
        BY <2>3
      <3>2. PICK t \in 1 .. n - j + 1 : t = i - (h + m)
        BY <3>1
      <3>3. j + t - 1 = i - h - m + j - 1
        BY <3>2
      <3>4. QED
        BY <1>4, <1>6, <2>3, <3>2, <3>3
    <2>4. QED
      BY <2>1, <2>2, <2>3
  <1>8. QED
    BY <1>6, <1>7 DEF IsSplice

\* Removing the k-th word, inserting one after the k-th, and replacing the k-th by m
\* others.
IsRemoval(words, w, m, k) ==
    Len(words) = m /\ \A i \in 1..m : words[i] = IF i < k THEN w[i] ELSE w[i+1]
IsInsertion(words, w, m, k, word) ==
    /\ Len(words) = m
    /\ \A i \in 1..m : words[i] = IF i <= k THEN w[i] ELSE IF i = k + 1 THEN word ELSE w[i-1]
IsReplacement(words, w, n, k, new, m) ==
    /\ Len(words) = n + m - 1
    /\ \A i \in 1 .. n + m - 1 :
          words[i] = IF i < k THEN w[i] ELSE IF i < k + m THEN new[i - k + 1] ELSE w[i - m + 1]

LEMMA WordRemoved ==
    ASSUME NEW w \in Seq(Word), NEW n \in Nat, n = Len(w), NEW k \in 1..n,
           NEW m \in Nat, m = n - 1, NEW words, words = RemoveAt(w, k)
    PROVE  IsRemoval(words, w, m, k)
  <1>1. SubSeq(w, 1, k - 1) \in Seq(Word)
    <2>1. \A i \in 1 .. k - 1 : w[i] \in Word
      OBVIOUS
    <2>2. QED
      BY <2>1, SubSeqProperties
  <1>2. <<>> \in Seq(Word) /\ Len(<<>>) = 0
    OBVIOUS
  <1>3. words = SubSeq(w, 1, k - 1) \o <<>> \o SubSeq(w, k + 1, n)
    BY <1>1, ConcatEmptySeq DEF RemoveAt
  <1>4. PICK none \in Seq(Word) : none = <<>> /\ Len(none) = 0
    BY <1>2
  <1>5. PICK h \in 0..n, zero \in Nat, j \in 1 .. n + 1 :
           h = k - 1 /\ zero = Len(none) /\ zero = 0 /\ j = k + 1 /\ j \in h + 1 .. n + 1
    BY <1>4
  <1>6. words = Splice(w, h, none, j)
    BY <1>3, <1>4, <1>5 DEF Splice
  <1>7. /\ Len(words) = h + zero + (n - j + 1)
        /\ \A i \in 1 .. h + zero + (n - j + 1) :
             words[i] = IF i <= h THEN w[i] ELSE IF i <= h + zero THEN none[i - h]
                        ELSE w[i - h - zero + j - 1]
    <2>1. IsSplice(words, w, n, h, none, zero, j)
      <3>1. h \in Nat /\ j \in Nat /\ h < j /\ j <= Len(w) + 1
        BY <1>5
      <3>2. QED
        BY <1>5, <1>6, <3>1, Spliced, Zenon
    <2>2. QED
      BY <2>1 DEF IsSplice
  <1>8. h + zero + (n - j + 1) = m
    BY <1>5
  <1>9. ASSUME NEW i \in 1..m PROVE words[i] = IF i < k THEN w[i] ELSE w[i+1]
    <2>1. (i <= h + zero <=> i < k) /\ (i <= h <=> i < k) /\ i - h - zero + j - 1 = i + 1
      BY <1>5
    <2>2. QED
      BY <1>7, <1>8, <2>1
  <1>10. QED
    BY <1>7, <1>8, <1>9 DEF IsRemoval

LEMMA WordInserted ==
    ASSUME NEW w \in Seq(Word), NEW n \in Nat, n = Len(w), NEW k \in 0..n, NEW word \in Word,
           NEW m \in Nat, m = n + 1, NEW words, words = InsertAt(w, k + 1, word)
    PROVE  IsInsertion(words, w, m, k, word)
  <1>1. <<word>> \in Seq(Word) /\ Len(<<word>>) = 1 /\ <<word>>[1] = word
    OBVIOUS
  <1>2. PICK new \in Seq(Word) : new = <<word>> /\ Len(new) = 1 /\ new[1] = word
    BY <1>1
  <1>3. words = SubSeq(w, 1, (k + 1) - 1) \o new \o SubSeq(w, k + 1, n)
    BY <1>2 DEF InsertAt
  <1>4. PICK one \in Nat, j \in 1 .. n + 1 :
           one = Len(new) /\ one = 1 /\ j = k + 1 /\ j \in k + 1 .. n + 1
    BY <1>2
  <1>5. words = Splice(w, k, new, j)
    <2>1. (k + 1) - 1 = k
      OBVIOUS
    <2>2. QED
      BY <1>3, <1>4, <2>1 DEF Splice
  <1>6. /\ Len(words) = k + one + (n - j + 1)
        /\ \A i \in 1 .. k + one + (n - j + 1) :
             words[i] = IF i <= k THEN w[i] ELSE IF i <= k + one THEN new[i - k]
                        ELSE w[i - k - one + j - 1]
    <2>1. IsSplice(words, w, n, k, new, one, j)
      <3>1. k \in Nat /\ j \in Nat /\ k < j /\ j <= Len(w) + 1
        BY <1>4
      <3>2. IsSplice(Splice(w, k, new, j), w, Len(w), k, new, Len(new), j)
        BY <3>1, Spliced, Zenon
      <3>3. QED
        BY <1>4, <1>5, <3>2, Zenon
    <2>2. QED
      BY <2>1 DEF IsSplice
  <1>7. k + one + (n - j + 1) = m
    BY <1>4
  <1>8. ASSUME NEW i \in 1..m
        PROVE  words[i] = IF i <= k THEN w[i] ELSE IF i = k + 1 THEN word ELSE w[i-1]
    <2>1. CASE i <= k
      BY <1>6, <1>7, <2>1
    <2>2. CASE i = k + 1
      <3>1. ~(i <= k) /\ i <= k + one /\ i - k = 1
        BY <1>4, <2>2
      <3>2. words[i] = new[1]
        BY <1>6, <1>7, <3>1
      <3>3. QED
        BY <1>2, <2>2, <3>1, <3>2
    <2>3. CASE i > k + 1
      <3>1. ~(i <= k) /\ ~(i <= k + one) /\ i - k - one + j - 1 = i - 1 /\ i # k + 1
        BY <1>4, <2>3
      <3>2. QED
        BY <1>6, <1>7, <3>1
    <2>4. QED
      BY <2>1, <2>2, <2>3
  <1>9. QED
    BY <1>6, <1>7, <1>8 DEF IsInsertion

LEMMA WordReplaced ==
    ASSUME NEW w \in Seq(Word), NEW n \in Nat, n = Len(w), NEW k \in 1..n,
           NEW new \in Seq(Word), NEW m \in Nat \ {0}, m = Len(new),
           NEW words, words = SubSeq(w, 1, k - 1) \o new \o SubSeq(w, k + 1, n)
    PROVE  IsReplacement(words, w, n, k, new, m)
  <1>1. PICK h \in 0..n, j \in 1 .. n + 1 : h = k - 1 /\ j = k + 1 /\ j \in h + 1 .. n + 1
    OBVIOUS
  <1>2. words = Splice(w, h, new, j)
    BY <1>1 DEF Splice
  <1>3. /\ Len(words) = h + m + (n - j + 1)
        /\ \A i \in 1 .. h + m + (n - j + 1) :
             words[i] = IF i <= h THEN w[i] ELSE IF i <= h + m THEN new[i - h]
                        ELSE w[i - h - m + j - 1]
    <2>1. IsSplice(words, w, n, h, new, m, j)
      <3>1. h \in Nat /\ j \in Nat /\ h < j /\ j <= Len(w) + 1
        BY <1>1
      <3>2. QED
        BY <1>2, <3>1, Spliced, Zenon
    <2>2. QED
      BY <2>1 DEF IsSplice
  <1>4. h + m + (n - j + 1) = n + m - 1
    BY <1>1
  <1>5. ASSUME NEW i \in 1 .. n + m - 1
        PROVE  words[i] = IF i < k THEN w[i] ELSE IF i < k + m THEN new[i - k + 1] ELSE w[i - m + 1]
    <2>1. /\ (i <= h <=> i < k) /\ (i <= h + m <=> i < k + m)
          /\ i - h = i - k + 1 /\ i - h - m + j - 1 = i - m + 1
      BY <1>1
    <2>2. QED
      BY <1>3, <1>4, <2>1
  <1>6. QED
    BY <1>3, <1>4, <1>5 DEF IsReplacement

\* However the words are edited, each lasts some time.
LEMMA EditedLasting ==
    ASSUME NEW pages, NEW doc \in Docs(pages), Lasting(doc.words),
           NEW op, OpTyped(op), Accepts(doc, op), NEW fresh0 \in Nat \ {0}
    PROVE  Lasting(Edited(doc, op, fresh0).words)
  <1>1. PICK w \in Seq(Word) : w = doc.words
    BY DEF Docs
  <1>2. PICK n \in Nat : n = Len(w) /\ DOMAIN w = 1..n
    OBVIOUS
  <1>3. \A k \in 1..n : w[k].start < w[k].end
    BY <1>1, <1>2 DEF Lasting
  <1>4. ASSUME NEW words, NEW m \in Nat, Len(words) = m,
               \A k \in 1..m : words[k].start < words[k].end
        PROVE  Lasting(words)
    BY <1>4 DEF Lasting
  <1>5. CASE op.op \in {"style", "preset", "resegment", "split", "merge"}
    <2>1. Edited(doc, op, fresh0).words = doc.words
      BY <1>5 DEF Edited, Docs
    <2>2. QED
      BY <2>1
  <1>6. CASE op.op = "replace"
    <2>1. PICK k \in 1..n : k = Index(w, op.word)
      BY <1>1, <1>2, <1>6, IndexIs DEF Accepts, HasWord
    <2>2. PICK word \in Word : word = w[k]
      BY <1>2
    <2>3. PICK tokens \in Tokens : tokens = op.tokens
      BY <1>6 DEF OpTyped
    <2>4. PICK m \in Nat \ {0} : m = Len(tokens)
      BY TextAssumption
    <2>5. PICK new : new = Replacements(word, tokens, fresh0)
      OBVIOUS
    <2>6. new \in Seq(Word) /\ Len(new) = m /\ \A i \in 1..m : new[i].start < new[i].end
      BY <2>4, <2>5, ReplacementsTyped
    <2>7. PICK words : words = SubSeq(w, 1, k - 1) \o new \o SubSeq(w, k + 1, n)
      OBVIOUS
    <2>8. Edited(doc, op, fresh0).words = words
      BY <1>1, <1>2, <1>6, <2>1, <2>2, <2>3, <2>5, <2>7 DEF Edited, Docs
    <2>9. PICK all \in Nat : all = n + m - 1
      OBVIOUS
    <2>10. /\ Len(words) = all
           /\ \A i \in 1..all : words[i] = IF i < k THEN w[i] ELSE IF i < k + m
                                             THEN new[i - k + 1] ELSE w[i - m + 1]
      <3>1. IsReplacement(words, w, n, k, new, m)
        BY <1>2, <2>1, <2>4, <2>6, <2>7, WordReplaced, Zenon
      <3>2. QED
        BY <2>9, <3>1 DEF IsReplacement
    <2>11. ASSUME NEW i \in 1..all PROVE words[i].start < words[i].end
      <3>1. CASE i < k
        <4>1. i \in 1..n /\ words[i] = w[i]
          BY <2>10, <3>1
        <4>2. QED
          BY <1>3, <4>1
      <3>2. CASE ~(i < k) /\ i < k + m
        <4>1. i - k + 1 \in 1..m /\ words[i] = new[i - k + 1]
          BY <2>10, <3>2
        <4>2. QED
          BY <2>6, <4>1
      <3>3. CASE ~(i < k) /\ ~(i < k + m)
        <4>1. i - m + 1 \in 1..n /\ words[i] = w[i - m + 1]
          BY <2>9, <2>10, <3>3
        <4>2. QED
          BY <1>3, <4>1
      <3>4. QED
        BY <3>1, <3>2, <3>3
    <2>12. QED
      BY <1>4, <2>8, <2>10, <2>11
  <1>7. CASE op.op = "timing"
    <2>1. PICK k \in 1..n : k = Index(w, op.word)
      BY <1>1, <1>2, <1>7, IndexIs DEF Accepts, HasWord
    <2>2. PICK start \in Int, end \in Int : start = op.start /\ end = op.end /\ start < end
      BY <1>7 DEF Accepts, Between, OpTyped
    <2>3. PICK word \in Word : /\ word = [w[k] EXCEPT !.start = start, !.end = end]
                               /\ word.start = start /\ word.end = end
      <3>1. PICK old \in Word : old = w[k]
        BY <1>2
      <3>2. PICK word : word = [old EXCEPT !.start = start, !.end = end]
        OBVIOUS
      <3>3. word \in Word /\ word.start = start /\ word.end = end
        BY <3>2 DEF Word
      <3>4. QED
        BY <3>1, <3>2, <3>3
    <2>4. PICK words : words = [w EXCEPT ![k] = word]
      OBVIOUS
    <2>5. Edited(doc, op, fresh0).words = words
      <3>1. words = [w EXCEPT ![k].start = start, ![k].end = end]
        BY <1>2, <2>3, <2>4
      <3>2. QED
        BY <1>1, <1>7, <2>1, <2>2, <3>1 DEF Edited, Docs
    <2>6. Len(words) = n /\ \A i \in 1..n : words[i] = IF i = k THEN word ELSE w[i]
      BY <1>2, <2>4
    <2>7. \A i \in 1..n : words[i].start < words[i].end
      BY <1>3, <2>2, <2>3, <2>6
    <2>8. QED
      BY <1>4, <2>5, <2>6, <2>7
  <1>8. CASE op.op = "delete"
    <2>1. PICK k \in 1..n : k = Index(w, op.word)
      BY <1>1, <1>2, <1>8, IndexIs DEF Accepts, HasWord
    <2>2. PICK words : words = RemoveAt(w, k)
      OBVIOUS
    <2>3. Edited(doc, op, fresh0).words = words
      BY <1>1, <1>8, <2>1, <2>2 DEF Edited, Docs
    <2>4. PICK m \in Nat : m = n - 1
      BY <1>2, <2>1
    <2>5. Len(words) = m /\ \A i \in 1..m : words[i] = IF i < k THEN w[i] ELSE w[i+1]
      <3>1. IsRemoval(words, w, m, k)
        BY <1>2, <2>1, <2>2, <2>4, WordRemoved, Zenon
      <3>2. QED
        BY <3>1 DEF IsRemoval
    <2>6. \A i \in 1..m : words[i].start < words[i].end
      <3>1. \A i \in 1..m : i \in 1..n /\ i + 1 \in 1..n
        BY <2>4
      <3>2. QED
        BY <1>3, <2>5, <3>1
    <2>7. QED
      BY <1>4, <2>3, <2>5, <2>6
  <1>9. CASE op.op = "insert"
    <2>1. PICK k \in 0..n : k = IF op.after = 0 THEN 0 ELSE Index(w, op.after)
      BY <1>1, <1>2, <1>9, IndexIs DEF Accepts, HasWord
    <2>2. PICK start \in Int, end \in Int : start = op.start /\ end = op.end /\ start < end
      BY <1>9 DEF Accepts, Between, OpTyped
    <2>3. PICK word : word = [id |-> fresh0, chars |-> op.chars, start |-> start, end |-> end]
      OBVIOUS
    <2>4. word \in Word
      BY <1>9, <2>2, <2>3 DEF Word, OpTyped
    <2>5. PICK words : words = InsertAt(w, k + 1, word)
      OBVIOUS
    <2>6. Edited(doc, op, fresh0).words = words
      <3>1. k + 1 = IF op.after = 0 THEN 1 ELSE Index(w, op.after) + 1
        BY <2>1
      <3>2. QED
        BY <1>1, <1>9, <2>2, <2>3, <2>5, <3>1 DEF Edited, Docs
    <2>7. PICK m \in Nat : m = n + 1
      OBVIOUS
    <2>8. /\ Len(words) = m
          /\ \A i \in 1..m : words[i] = IF i <= k THEN w[i] ELSE IF i = k + 1 THEN word ELSE w[i-1]
      <3>1. IsInsertion(words, w, m, k, word)
        BY <1>2, <2>1, <2>4, <2>5, <2>7, WordInserted, Zenon
      <3>2. QED
        BY <3>1 DEF IsInsertion
    <2>9. ASSUME NEW i \in 1..m PROVE words[i].start < words[i].end
      <3>1. CASE i <= k
        BY <1>3, <2>1, <2>8, <3>1
      <3>2. CASE i = k + 1
        <4>1. words[i] = word
          BY <2>1, <2>8, <3>2
        <4>2. QED
          BY <2>2, <2>3, <4>1
      <3>3. CASE i > k + 1
        <4>1. i - 1 \in 1..n /\ ~(i <= k) /\ i # k + 1
          BY <2>1, <2>7, <3>3
        <4>2. QED
          BY <1>3, <2>8, <4>1
      <3>4. QED
        BY <2>1, <3>1, <3>2, <3>3
    <2>10. QED
      BY <1>4, <2>6, <2>8, <2>9
  <1>10. QED
    BY <1>5, <1>6, <1>7, <1>8, <1>9 DEF OpTyped

-----------------------------------------------------------------------------
(* Ids of words.                                                           *)

\* Every word has an id of its own, one of those given out before `next'.
UniqueIds(words, next) ==
    \A j, k \in 1..Len(words) :
        words[j].id \in 1 .. next - 1 /\ (words[j].id = words[k].id => j = k)

Tidy(doc, next) == UniqueIds(doc.words, next) /\ doc.breaks \cap doc.joins = {}

\* After the k-th word come c others with the next ids, or some words get other
\* times.
LEMMA IdsGrown ==
    ASSUME NEW w \in Seq(Word), NEW n \in Nat, n = Len(w), NEW next \in Nat \ {0},
           UniqueIds(w, next), NEW k \in 0..n, NEW c \in Nat, NEW words, Len(words) = n + c,
           \A i \in 1 .. n + c : words[i].id = IF i <= k THEN w[i].id
                                               ELSE IF i <= k + c THEN next + i - k - 1
                                               ELSE w[i - c].id
    PROVE  UniqueIds(words, next + c)
  <1>1. PICK old \in [1..n -> Nat] : old = [i \in 1..n |-> w[i].id]
    <2>1. \A i \in 1..n : w[i] \in Word
      OBVIOUS
    <2>2. QED
      BY <2>1 DEF Word
  <1>2. \A i, j \in 1..n : old[i] < next /\ old[i] > 0 /\ (old[i] = old[j] => i = j)
    BY <1>1 DEF UniqueIds
  <1>3. ASSUME NEW i \in 1 .. n + c
        PROVE  \/ i <= k /\ i \in 1..n /\ words[i].id = old[i]
               \/ i > k /\ i <= k + c /\ words[i].id = next + i - k - 1
               \/ i > k + c /\ i - c \in 1..n /\ words[i].id = old[i - c]
    BY <1>1
  <1>4. ASSUME NEW i \in 1 .. n + c, NEW j \in 1 .. n + c, words[i].id = words[j].id
        PROVE  i = j
    <2>1. CASE i <= k
      BY <1>2, <1>3, <1>4, <2>1
    <2>2. CASE i > k /\ i <= k + c
      <3>1. PICK id \in Nat : id = next + i - k - 1 /\ id >= next
        BY <2>2
      <3>2. words[i].id = id
        BY <1>3, <2>2, <3>1
      <3>3. CASE j <= k
        <4>1. j \in 1..n /\ words[j].id = old[j]
          BY <1>3, <3>3
        <4>2. old[j] = id
          BY <1>4, <3>2, <4>1, Zenon
        <4>3. QED
          BY <1>2, <3>1, <4>1, <4>2
      <3>4. CASE j > k /\ j <= k + c
        <4>1. words[j].id = next + j - k - 1
          BY <1>3, <3>4
        <4>2. id = next + j - k - 1
          BY <1>4, <3>2, <4>1, Zenon
        <4>3. QED
          BY <3>1, <4>2
      <3>5. CASE j > k + c
        <4>1. j - c \in 1..n /\ words[j].id = old[j - c]
          BY <1>3, <3>5
        <4>2. old[j - c] = id
          BY <1>4, <3>2, <4>1, Zenon
        <4>3. QED
          BY <1>2, <3>1, <4>1, <4>2
      <3>6. QED
        BY <3>3, <3>4, <3>5
    <2>3. CASE i > k + c
      BY <1>2, <1>3, <1>4, <2>3
    <2>4. QED
      BY <2>1, <2>2, <2>3
  <1>5. ASSUME NEW i \in 1 .. n + c PROVE words[i].id \in 1 .. (next + c) - 1
    <2>1. CASE i <= k
      <3>1. i \in 1..n /\ words[i].id = old[i]
        BY <1>3, <2>1
      <3>2. old[i] \in Nat /\ old[i] < next /\ old[i] > 0
        BY <1>2, <3>1
      <3>3. QED
        BY <3>1, <3>2
    <2>2. CASE i > k /\ i <= k + c
      <3>1. words[i].id = next + i - k - 1
        BY <1>3, <2>2
      <3>2. QED
        BY <2>2, <3>1
    <2>3. CASE i > k + c
      <3>1. i - c \in 1..n /\ words[i].id = old[i - c]
        BY <1>3, <2>3
      <3>2. old[i - c] \in Nat /\ old[i - c] < next /\ old[i - c] > 0
        BY <1>2, <3>1
      <3>3. QED
        BY <3>1, <3>2
    <2>4. QED
      BY <2>1, <2>2, <2>3
  <1>6. QED
    BY <1>4, <1>5 DEF UniqueIds

\* Without the k-th word.
LEMMA IdsShrunk ==
    ASSUME NEW w \in Seq(Word), NEW n \in Nat, n = Len(w), NEW next, UniqueIds(w, next),
           NEW k \in 1..n, NEW m \in Nat, m = n - 1, NEW words, Len(words) = m,
           \A i \in 1..m : words[i] = IF i < k THEN w[i] ELSE w[i+1]
    PROVE  UniqueIds(words, next)
  <1>1. ASSUME NEW i \in 1..m
        PROVE  /\ i < k => i \in 1..n /\ words[i] = w[i]
               /\ ~(i < k) => i + 1 \in 1..n /\ words[i] = w[i+1]
    OBVIOUS
  <1>2. ASSUME NEW i \in 1..m PROVE words[i].id \in 1 .. next - 1
    BY <1>1 DEF UniqueIds
  <1>3. ASSUME NEW i \in 1..m, NEW j \in 1..m, words[i].id = words[j].id PROVE i = j
    <2>1. CASE i < k /\ j < k
      BY <1>1, <1>3, <2>1 DEF UniqueIds
    <2>2. CASE i < k /\ ~(j < k)
      BY <1>1, <1>3, <2>2 DEF UniqueIds
    <2>3. CASE ~(i < k) /\ j < k
      BY <1>1, <1>3, <2>3 DEF UniqueIds
    <2>4. CASE ~(i < k) /\ ~(j < k)
      BY <1>1, <1>3, <2>4 DEF UniqueIds
    <2>5. QED
      BY <2>1, <2>2, <2>3, <2>4
  <1>4. QED
    BY <1>2, <1>3 DEF UniqueIds

\* An edit gives new words ids of their own, below the next one; a break and a join
\* of the same word exclude each other.
LEMMA EditedTidy ==
    ASSUME NEW pages, NEW doc \in Docs(pages), NEW op, OpTyped(op), Accepts(doc, op),
           NEW next \in Nat \ {0}, Tidy(doc, next)
    PROVE  Tidy(Edited(doc, op, next), next + NewIds(op))
  <1>1. PICK w \in Seq(Word) : w = doc.words
    BY DEF Docs
  <1>2. PICK n \in Nat : n = Len(w) /\ DOMAIN w = 1..n
    OBVIOUS
  <1>3. UniqueIds(w, next) /\ doc.breaks \cap doc.joins = {} /\ next + 0 = next
    BY <1>1 DEF Tidy
  <1>4. CASE op.op = "style"
    <2>1. PICK style, limits : Edited(doc, op, next) = [doc EXCEPT !.style = style, !.limits = limits]
      BY <1>4 DEF Edited
    <2>2. NewIds(op) = 0
      BY <1>4 DEF NewIds
    <2>3. QED
      BY <1>1, <1>3, <2>1, <2>2 DEF Tidy, Docs
  <1>5. CASE op.op = "preset"
    <2>1. PICK style, limits : Edited(doc, op, next) = [doc EXCEPT !.style = style, !.limits = limits]
      BY <1>5 DEF Edited
    <2>2. NewIds(op) = 0
      BY <1>5 DEF NewIds
    <2>3. QED
      BY <1>1, <1>3, <2>1, <2>2 DEF Tidy, Docs
  <1>6. CASE op.op = "resegment"
    <2>1. Edited(doc, op, next) = [doc EXCEPT !.limits = op.limits, !.breaks = {}, !.joins = {}]
      BY <1>6 DEF Edited
    <2>2. NewIds(op) = 0
      BY <1>6 DEF NewIds
    <2>3. QED
      BY <1>1, <1>3, <2>1, <2>2 DEF Tidy, Docs
  <1>7. CASE op.op = "split"
    <2>1. Edited(doc, op, next) = [doc EXCEPT !.breaks = doc.breaks \cup {op.word},
                                             !.joins = doc.joins \ {op.word}]
      BY <1>7 DEF Edited
    <2>2. NewIds(op) = 0
      BY <1>7 DEF NewIds
    <2>3. (doc.breaks \cup {op.word}) \cap (doc.joins \ {op.word}) = {}
      BY <1>3
    <2>4. QED
      BY <1>1, <1>3, <2>1, <2>2, <2>3 DEF Tidy, Docs
  <1>8. CASE op.op = "merge"
    <2>1. PICK first : Edited(doc, op, next) = [doc EXCEPT !.joins = doc.joins \cup {first},
                                                          !.breaks = doc.breaks \ {first}]
      BY <1>8 DEF Edited
    <2>2. NewIds(op) = 0
      BY <1>8 DEF NewIds
    <2>3. (doc.breaks \ {first}) \cap (doc.joins \cup {first}) = {}
      BY <1>3
    <2>4. QED
      BY <1>1, <1>3, <2>1, <2>2, <2>3 DEF Tidy, Docs
  <1>9. CASE op.op = "replace"
    <2>1. PICK k \in 1..n : k = Index(w, op.word)
      BY <1>1, <1>2, <1>9, IndexIs DEF Accepts, HasWord
    <2>2. PICK word \in Word : word = w[k]
      BY <1>2
    <2>3. PICK tokens \in Tokens : tokens = op.tokens
      BY <1>9 DEF OpTyped
    <2>4. PICK m \in Nat \ {0} : m = Len(tokens)
      BY TextAssumption
    <2>5. PICK new : new = Replacements(word, tokens, next)
      OBVIOUS
    <2>6. /\ new \in Seq(Word) /\ Len(new) = m
          /\ \A i \in 1..m : new[i].id = IF i = 1 THEN word.id ELSE next + i - 2
      BY <2>4, <2>5, ReplacementsTyped
    <2>7. PICK words : words = SubSeq(w, 1, k - 1) \o new \o SubSeq(w, k + 1, n)
      OBVIOUS
    <2>8. Edited(doc, op, next) = [doc EXCEPT !.words = words]
      BY <1>1, <1>2, <1>9, <2>1, <2>2, <2>3, <2>5, <2>7 DEF Edited
    <2>9. PICK c \in Nat : c = m - 1
      OBVIOUS
    <2>10. /\ Len(words) = n + c
           /\ \A i \in 1 .. n + c : words[i] = IF i < k THEN w[i] ELSE IF i < k + m
                                               THEN new[i - k + 1] ELSE w[i - m + 1]
      <3>1. /\ Len(words) = n + m - 1
            /\ \A i \in 1 .. n + m - 1 : words[i] = IF i < k THEN w[i] ELSE IF i < k + m
                                                    THEN new[i - k + 1] ELSE w[i - m + 1]
        <4>1. IsReplacement(words, w, n, k, new, m)
          BY <1>2, <2>1, <2>4, <2>6, <2>7, WordReplaced, Zenon
        <4>2. QED
          BY <4>1 DEF IsReplacement
      <3>2. n + m - 1 = n + c
        BY <2>9
      <3>3. QED
        BY <3>1, <3>2
    <2>11. ASSUME NEW i \in 1 .. n + c
           PROVE  words[i].id = IF i <= k THEN w[i].id ELSE IF i <= k + c THEN next + i - k - 1
                                ELSE w[i - c].id
      <3>1. CASE i < k
        BY <2>10, <3>1
      <3>2. CASE i = k
        <4>1. words[i] = new[1]
          BY <2>9, <2>10, <3>2
        <4>2. QED
          BY <2>2, <2>6, <3>2, <4>1
      <3>3. CASE i > k /\ i <= k + c
        <4>1. PICK t \in 1..m : t = i - k + 1 /\ t # 1 /\ next + t - 2 = next + i - k - 1
          BY <2>9, <3>3
        <4>2. words[i] = new[t]
          BY <2>9, <2>10, <3>3, <4>1, SMTT(30)
        <4>3. QED
          BY <2>6, <3>3, <4>1, <4>2
      <3>4. CASE i > k + c
        <4>1. ~(i < k) /\ ~(i < k + m) /\ i - m + 1 = i - c /\ ~(i <= k) /\ ~(i <= k + c)
          BY <2>9, <3>4
        <4>2. QED
          BY <2>10, <4>1
      <3>5. QED
        BY <3>1, <3>2, <3>3, <3>4
    <2>12. NewIds(op) = c
      BY <1>9, <2>3, <2>4, <2>9 DEF NewIds
    <2>13. UniqueIds(words, next + c)
      <3>1. k \in 0..n
        OBVIOUS
      <3>2. QED
        BY <1>2, <1>3, <2>10, <2>11, <3>1, IdsGrown, ZenonT(30)
    <2>14. QED
      BY <1>3, <2>8, <2>12, <2>13 DEF Tidy, Docs
  <1>10. CASE op.op = "timing"
    <2>1. PICK k \in 1..n : k = Index(w, op.word)
      BY <1>1, <1>2, <1>10, IndexIs DEF Accepts, HasWord
    <2>2. PICK old \in Word : old = w[k]
      BY <1>2
    <2>3. PICK word : word = [old EXCEPT !.start = op.start, !.end = op.end]
      OBVIOUS
    <2>4. word.id = old.id
      BY <2>3 DEF Word
    <2>5. PICK words : words = [w EXCEPT ![k] = word]
      OBVIOUS
    <2>6. Edited(doc, op, next) = [doc EXCEPT !.words = words]
      <3>1. words = [w EXCEPT ![k].start = op.start, ![k].end = op.end]
        BY <1>2, <2>2, <2>3, <2>5
      <3>2. words = [doc.words EXCEPT ![k].start = op.start, ![k].end = op.end]
        BY <1>1, <3>1
      <3>3. k = Index(doc.words, op.word)
        BY <1>1, <2>1
      <3>4. QED
        BY <1>10, <3>2, <3>3, ZenonT(40) DEF Edited
    <2>7. Len(words) = n /\ \A i \in 1..n : words[i].id = w[i].id
      BY <1>2, <2>2, <2>4, <2>5
    <2>8. UniqueIds(words, next)
      BY <1>2, <1>3, <2>7 DEF UniqueIds
    <2>9. NewIds(op) = 0
      BY <1>10 DEF NewIds
    <2>10. QED
      BY <1>3, <2>6, <2>8, <2>9 DEF Tidy, Docs
  <1>11. CASE op.op = "delete"
    <2>1. PICK k \in 1..n : k = Index(w, op.word)
      BY <1>1, <1>2, <1>11, IndexIs DEF Accepts, HasWord
    <2>2. PICK words : words = RemoveAt(w, k)
      OBVIOUS
    <2>3. PICK m \in Nat : m = n - 1
      OBVIOUS
    <2>4. Len(words) = m /\ \A i \in 1..m : words[i] = IF i < k THEN w[i] ELSE w[i+1]
      <3>1. IsRemoval(words, w, m, k)
        BY <1>2, <2>1, <2>2, <2>3, WordRemoved, Zenon
      <3>2. QED
        BY <3>1 DEF IsRemoval
    <2>5. UniqueIds(words, next)
      BY <1>2, <1>3, <2>3, <2>4, IdsShrunk, ZenonT(30)
    <2>6. Edited(doc, op, next) = [doc EXCEPT !.words = words,
                !.breaks = doc.breaks \ {op.word}, !.joins = doc.joins \ {op.word}]
      BY <1>1, <1>11, <2>1, <2>2 DEF Edited
    <2>7. (doc.breaks \ {op.word}) \cap (doc.joins \ {op.word}) = {}
      BY <1>3
    <2>8. NewIds(op) = 0
      BY <1>11 DEF NewIds
    <2>9. QED
      BY <1>3, <2>5, <2>6, <2>7, <2>8 DEF Tidy, Docs
  <1>12. CASE op.op = "insert"
    <2>1. PICK k \in 0..n : k = IF op.after = 0 THEN 0 ELSE Index(w, op.after)
      BY <1>1, <1>2, <1>12, IndexIs DEF Accepts, HasWord
    <2>2. PICK word \in Word : /\ word = [id |-> next, chars |-> op.chars, start |-> op.start,
                                          end |-> op.end]
                               /\ word.id = next
      <3>1. PICK word : word = [id |-> next, chars |-> op.chars, start |-> op.start, end |-> op.end]
        OBVIOUS
      <3>2. word \in Word /\ word.id = next
        BY <1>12, <3>1 DEF OpTyped, Word
      <3>3. QED
        BY <3>1, <3>2
    <2>3. PICK words : words = InsertAt(w, k + 1, word)
      OBVIOUS
    <2>4. PICK m \in Nat, one \in Nat : m = n + 1 /\ one = 1
      OBVIOUS
    <2>5. /\ Len(words) = m
          /\ \A i \in 1..m : words[i] = IF i <= k THEN w[i] ELSE IF i = k + 1 THEN word ELSE w[i-1]
      <3>1. IsInsertion(words, w, m, k, word)
        BY <1>2, <2>1, <2>2, <2>3, <2>4, WordInserted, Zenon
      <3>2. QED
        BY <3>1 DEF IsInsertion
    <2>6. ASSUME NEW i \in 1 .. n + one
          PROVE  words[i].id = IF i <= k THEN w[i].id ELSE IF i <= k + one THEN next + i - k - 1
                               ELSE w[i - one].id
      BY <2>2, <2>4, <2>5
    <2>7. UniqueIds(words, next + one)
      <3>1. Len(words) = n + one
        BY <2>4, <2>5
      <3>2. QED
        BY <1>2, <1>3, <2>6, <3>1, IdsGrown, ZenonT(30)
    <2>8. Edited(doc, op, next) = [doc EXCEPT !.words = words]
      <3>1. k + 1 = IF op.after = 0 THEN 1 ELSE Index(w, op.after) + 1
        BY <2>1
      <3>2. QED
        BY <1>1, <1>12, <2>2, <2>3, <3>1 DEF Edited
    <2>9. NewIds(op) = one
      BY <1>12, <2>4 DEF NewIds
    <2>10. QED
      BY <1>3, <2>7, <2>8, <2>9 DEF Tidy, Docs
  <1>13. QED
    BY <1>4, <1>5, <1>6, <1>7, <1>8, <1>9, <1>10, <1>11, <1>12 DEF OpTyped

LEMMA EditedKeepsRevision ==
    ASSUME NEW pages, NEW doc \in Docs(pages), NEW op, OpTyped(op), NEW next
    PROVE  Edited(doc, op, next).revision = doc.revision
  BY DEF OpTyped, Edited, Docs

-----------------------------------------------------------------------------
(* Patches.                                                                *)

\* What applying operations to `old' goes through.  Until an operation calls for
\* new pages, nothing but the style has changed.  `next' is the first new id.
States(old, next) ==
    {s \in [ok : BOOLEAN, doc : Docs(old.pages), fresh : Nat \ {0}, repage : BOOLEAN] :
        /\ ~s.repage => \E style \in StyleType : s.doc = [old EXCEPT !.style = style]
        /\ Lasting(old.words) => Lasting(s.doc.words)
        /\ Tidy(old, next) => Tidy(s.doc, s.fresh)
        /\ s.doc.revision = old.revision}

LEMMA AppliedTyped ==
    ASSUME NEW old, NEW revision, NEW n, PagesTile(old.pages, revision, n),
           NEW next, NEW s \in States(old, next), NEW op, OpTyped(op)
    PROVE  Applied(s, op) \in States(old, next)
  <1>1. CASE ~(s.ok /\ Accepts(s.doc, op))
    <2>1. Applied(s, op) = [s EXCEPT !.ok = FALSE]
      BY <1>1 DEF Applied
    <2>2. QED
      BY <2>1 DEF States
  <1>2. CASE s.ok /\ Accepts(s.doc, op)
    <2>1. s.doc \in Docs(old.pages) /\ s.fresh \in Nat \ {0} /\ s.repage \in BOOLEAN
      BY DEF States
    <2>2. PICK doc \in Docs(old.pages) :
             /\ doc = Edited(s.doc, op, s.fresh)
             /\ ~Repages(s.doc, op) =>
                   \E style \in StyleType : doc = [s.doc EXCEPT !.style = style]
      BY <1>2, <2>1, EditedTyped
    <2>3. PICK fresh2 \in Nat \ {0} : fresh2 = s.fresh + NewIds(op)
      <3>1. NewIds(op) \in Nat
        <4>1. CASE op.op = "replace"
          <5>1. op.tokens \in Seq(Nat \ {0}) /\ op.tokens # <<>>
            BY <4>1, TextAssumption DEF OpTyped
          <5>2. Len(op.tokens) \in Nat \ {0}
            BY <5>1
          <5>3. QED
            BY <4>1, <5>2 DEF NewIds
        <4>2. CASE op.op # "replace"
          BY <4>2 DEF NewIds
        <4>3. QED
          BY <4>1, <4>2
      <3>2. QED
        BY <2>1, <3>1
    <2>4. PICK repage \in BOOLEAN : repage = (s.repage \/ Repages(s.doc, op))
      OBVIOUS
    <2>5. Applied(s, op) = [ok |-> TRUE, doc |-> doc, fresh |-> fresh2, repage |-> repage]
      BY <1>2, <2>2, <2>3, <2>4 DEF Applied
    <2>6. ASSUME ~repage PROVE \E style \in StyleType : doc = [old EXCEPT !.style = style]
      <3>1. PICK before \in StyleType : s.doc = [old EXCEPT !.style = before]
        BY <2>4, <2>6 DEF States
      <3>2. PICK style \in StyleType : doc = [s.doc EXCEPT !.style = style]
        BY <2>2, <2>4, <2>6
      <3>3. doc = [old EXCEPT !.style = style]
        BY <3>1, <3>2
      <3>4. QED
        BY <3>3
    <2>7. ASSUME Lasting(old.words) PROVE Lasting(doc.words)
      <3>1. Lasting(s.doc.words)
        BY <2>7 DEF States
      <3>2. QED
        BY <1>2, <2>1, <2>2, <3>1, EditedLasting
    <2>8. ASSUME Tidy(old, next) PROVE Tidy(doc, fresh2)
      <3>1. Tidy(s.doc, s.fresh)
        BY <2>8 DEF States
      <3>2. QED
        BY <1>2, <2>1, <2>2, <2>3, <3>1, EditedTidy
    <2>9. doc.revision = old.revision
      <3>1. s.doc.revision = old.revision
        BY DEF States
      <3>2. Edited(s.doc, op, s.fresh).revision = s.doc.revision
        BY <1>2, <2>1, EditedKeepsRevision
      <3>3. QED
        BY <2>2, <3>1, <3>2
    <2>10. QED
      BY <2>5, <2>6, <2>7, <2>8, <2>9 DEF States
  <1>3. QED
    BY <1>1, <1>2

LEMMA GreatestIsMax ==
    ASSUME NEW N \in Nat, NEW s \in SUBSET (1..N), s # {}
    PROVE  Max(s) \in s /\ Max(s) = Greatest(s)
  <1>1. IsFiniteSet(1..N)
    BY FS_Interval
  <1>2. IsFiniteSet(s)
    BY <1>1, FS_Subset
  <1>3. s \in SUBSET Int
    OBVIOUS
  <1>4. Max(s) \in s
    BY <1>2, <1>3, ExtremesAre
  <1>5. QED
    BY <1>4 DEF Max, Greatest

OpsTyped(ops) ==
    /\ Len(ops) \in Nat /\ DOMAIN ops = 1..Len(ops)
    /\ \A n \in 1..Len(ops) : OpTyped(ops[n])

LEMMA FoldTyped ==
    ASSUME NEW old, NEW revision, NEW n, PagesTile(old.pages, revision, n),
           NEW next, NEW base \in States(old, next), NEW ops, OpsTyped(ops)
    PROVE  FoldLeft(Applied, base, ops) \in States(old, next)
  <1> DEFINE Def(g) == [s \in SUBSET DOMAIN ops |->
                          IF s = {} THEN base ELSE Applied(g[s \ {Max(s)}], ops[Max(s)])]
             iter == CHOOSE g : g = Def(g)
  <1>1. FoldLeft(Applied, base, ops) = iter[DOMAIN ops]
    BY DEF FoldLeft, MapThenFoldSet
  <1>2. PICK N \in Nat : N = Len(ops) /\ DOMAIN ops = 1..N
    BY DEF OpsTyped
  <1>3. \A k \in 1..N : \A s \in States(old, next) : Applied(s, ops[k]) \in States(old, next)
    BY <1>2, AppliedTyped DEF OpsTyped
  <1>4. \A s \in SUBSET (1..N) : s # {} => Max(s) \in s /\ Max(s) = Greatest(s)
    BY GreatestIsMax
  <1>5. PICK step : step = [k \in 1..N |-> [s \in States(old, next) |-> Applied(s, ops[k])]]
    OBVIOUS
  <1>6. \A k \in 1..N : \A s \in States(old, next) : step[k][s] \in States(old, next)
    BY <1>3, <1>5
  <1>7. PICK g \in [SUBSET (1..N) -> States(old, next)] : FoldFollows(g, base, step, 1..N)
    BY <1>6, FoldRecursion
  <1>8. g = Def(g)
    <2>1. ASSUME NEW s \in SUBSET (1..N)
          PROVE  g[s] = IF s = {} THEN base ELSE Applied(g[s \ {Max(s)}], ops[Max(s)])
      <3>1. CASE s = {}
        BY <1>7, <3>1 DEF FoldFollows
      <3>2. CASE s # {}
        <4>1. PICK k \in 1..N : k = Max(s) /\ k = Greatest(s)
          BY <1>4, <3>2
        <4>2. g[s \ {k}] \in States(old, next)
          BY <1>7
        <4>3. g[s] = step[k][g[s \ {k}]]
          BY <1>7, <3>2, <4>1 DEF FoldFollows
        <4>4. QED
          BY <1>5, <3>2, <4>1, <4>2, <4>3
      <3>3. QED
        BY <3>1, <3>2
    <2>2. QED
      BY <1>2, <1>7, <2>1
  <1>9. iter = Def(iter)
    <2> HIDE DEF Def
    <2>1. QED
      BY <1>8
  <1>10. 1..N \in {s \in SUBSET (1..N) : iter[s] \in States(old, next)}
    <2> HIDE DEF iter
    <2>1. ASSUME NEW s \in SUBSET (1..N), \A x \in s : iter[s \ {x}] \in States(old, next)
          PROVE  iter[s] \in States(old, next)
      <3>1. iter[s] = IF s = {} THEN base ELSE Applied(iter[s \ {Max(s)}], ops[Max(s)])
        BY <1>2, <1>9
      <3>2. CASE s # {}
        <4>1. Max(s) \in s /\ Max(s) \in 1..N
          BY <1>4, <3>2
        <4>2. PICK k \in 1..N : k = Max(s) /\ k \in s
          BY <4>1
        <4>3. PICK t \in States(old, next) : t = iter[s \ {k}]
          BY <2>1, <4>2
        <4>4. iter[s] = Applied(t, ops[k])
          BY <3>1, <3>2, <4>2, <4>3
        <4>5. QED
          BY <1>3, <4>4
      <3>3. QED
        BY <3>1, <3>2
    <2> DEFINE T == {s \in SUBSET (1..N) : iter[s] \in States(old, next)}
    <2>2. \A s \in SUBSET (1..N) : (\A x \in s : s \ {x} \in T) => s \in T
      BY <2>1
    <2>3. IsFiniteSet(1..N)
      BY FS_Interval
    <2> HIDE DEF T
    <2>4. 1..N \in T
      BY <2>2, <2>3, Descent
    <2>5. QED
      BY <2>4 DEF T
  <1>11. QED
    BY <1>1, <1>2, <1>10

\* A document whose pages are those of its words, limits and constraints.
Current(doc) ==
    /\ doc \in Docs(doc.pages)
    /\ doc.pages = PagesOf(doc.words, doc.limits, doc.breaks, doc.joins, doc.revision)

LEMMA CurrentTiles ==
    ASSUME NEW doc, Current(doc)
    PROVE  /\ PagesTile(doc.pages, doc.revision, Len(doc.words))
           /\ Covers(doc.words, doc.pages) /\ InTime(doc.words, doc.pages)
  <1>1. doc.words \in Seq(Word) /\ doc.limits \in Limits
    BY DEF Current, Docs
  <1>2. QED
    BY <1>1, PagesFaithful DEF Current

\* Constraints on words that are gone constrain nothing.
LEMMA SameConstraints ==
    ASSUME NEW words \in Seq(Word), NEW breaks, NEW joins
    PROVE  /\ Forced(words, breaks \cap Ids(words)) = Forced(words, breaks)
           /\ Forbidden(words, breaks \cap Ids(words), joins \cap Ids(words))
                 = Forbidden(words, breaks, joins)
  <1>1. \A k \in 1 .. Len(words) - 1 : words[k+1].id \in Ids(words)
    <2> SUFFICES ASSUME NEW k \in 1 .. Len(words) - 1 PROVE words[k+1].id \in Ids(words)
      OBVIOUS
    <2>1. k + 1 \in DOMAIN words
      OBVIOUS
    <2>2. QED
      BY <2>1 DEF Ids
  <1>2. Forced(words, breaks \cap Ids(words)) = Forced(words, breaks)
    BY <1>1 DEF Forced
  <1>3. QED
    BY <1>1, <1>2 DEF Forbidden

LEMMA SamePages ==
    ASSUME NEW words \in Seq(Word), NEW limits, NEW breaks, NEW joins, NEW revision
    PROVE  PagesOf(words, limits, breaks \cap Ids(words), joins \cap Ids(words), revision)
              = PagesOf(words, limits, breaks, joins, revision)
  BY SameConstraints DEF PagesOf

\* A document paged anew is current.
LEMMA ResegmentedIsCurrent ==
    ASSUME NEW pages, NEW doc \in Docs(pages)
    PROVE  /\ Current(Resegmented(doc)) /\ Resegmented(doc).words = doc.words
           /\ Resegmented(doc).style = doc.style /\ Resegmented(doc).revision = doc.revision
           /\ \A next : Tidy(doc, next) => Tidy(Resegmented(doc), next)
  <1>1. PICK breaks \in SUBSET Nat : breaks = doc.breaks \cap Ids(doc.words)
    BY DEF Docs
  <1>2. PICK joins \in SUBSET Nat : joins = doc.joins \cap Ids(doc.words)
    BY DEF Docs
  <1>3. PICK new : new = PagesOf(doc.words, doc.limits, doc.breaks, doc.joins, doc.revision)
    OBVIOUS
  <1>4. PICK d : d = [doc EXCEPT !.breaks = breaks, !.joins = joins, !.pages = new]
    OBVIOUS
  <1>5. Resegmented(doc) = d
    BY <1>1, <1>2, <1>3, <1>4 DEF Resegmented
  <1>6. /\ d \in Docs(new) /\ d.pages = new /\ d.words = doc.words /\ d.limits = doc.limits
        /\ d.breaks = breaks /\ d.joins = joins /\ d.revision = doc.revision
        /\ d.style = doc.style
    BY <1>4 DEF Docs
  <1>7. new = PagesOf(doc.words, doc.limits, breaks, joins, doc.revision)
    <2>1. doc.words \in Seq(Word)
      BY DEF Docs
    <2>2. QED
      BY <1>1, <1>2, <1>3, <2>1, SamePages
  <1>8. ASSUME NEW next, Tidy(doc, next) PROVE Tidy(d, next)
    BY <1>1, <1>2, <1>6, <1>8 DEF Tidy
  <1>9. QED
    BY <1>5, <1>6, <1>7, <1>8 DEF Current

LEMMA NewDocumentIsCurrent ==
    ASSUME NEW words \in Seq(Word), NEW style \in StyleType, NEW limits \in Limits,
           NEW revision \in Nat
    PROVE  Current(NewDocument(words, style, limits, revision))
  <1>1. PICK doc : doc = [words |-> words, style |-> style, limits |-> limits, breaks |-> {},
                          joins |-> {}, pages |-> <<>>, revision |-> revision]
    OBVIOUS
  <1>2. doc \in Docs(<<>>)
    BY <1>1 DEF Docs
  <1>3. NewDocument(words, style, limits, revision) = Resegmented(doc)
    BY <1>1 DEF NewDocument
  <1>4. QED
    BY <1>2, <1>3, ResegmentedIsCurrent

\* applyPatchOps leaves the pages that the words and constraints give.
LEMMA PatchedIsCurrent ==
    ASSUME NEW old, Current(old), NEW ops, OpsTyped(ops),
           NEW fresh0 \in Nat \ {0}, NEW revision \in Nat,
           NEW out, out = Patched(old, ops, fresh0, revision)
    PROVE  /\ Current(out.doc) /\ out.fresh \in Nat \ {0}
           /\ Lasting(old.words) => Lasting(out.doc.words)
           /\ Tidy(old, fresh0) => Tidy(out.doc, out.fresh)
           /\ out.doc.revision = old.revision \/ (out.reworded /\ out.doc.revision = revision)
           /\ out = [ok |-> out.ok, fresh |-> out.fresh, reworded |-> out.reworded, doc |-> out.doc]
  <1>1. old \in Docs(old.pages) /\ PagesTile(old.pages, old.revision, Len(old.words))
    BY CurrentTiles DEF Current
  <1>2. PICK base : base = [ok |-> TRUE, doc |-> old, fresh |-> fresh0, repage |-> FALSE]
    OBVIOUS
  <1>3. base \in States(old, fresh0)
    <2>1. old.style \in StyleType /\ old = [old EXCEPT !.style = old.style]
      BY <1>1 DEF Docs
    <2>2. QED
      BY <1>1, <1>2, <2>1 DEF States
  <1>4. PICK s \in States(old, fresh0) : s = FoldLeft(Applied, base, ops)
    BY <1>1, <1>3, FoldTyped
  <1>5. PICK reworded : reworded = (\E n \in DOMAIN ops : ops[n].op \in WordOps)
    OBVIOUS
  <1>6. PICK seeded : seeded = IF reworded THEN [s.doc EXCEPT !.revision = revision] ELSE s.doc
    OBVIOUS
  <1>7. out = [ok |-> s.ok, fresh |-> s.fresh, reworded |-> reworded,
               doc |-> IF s.repage THEN Resegmented(seeded) ELSE s.doc]
    BY <1>2, <1>4, <1>5, <1>6 DEF Patched
  <1>8. /\ seeded \in Docs(old.pages) /\ seeded.words = s.doc.words
        /\ seeded.breaks = s.doc.breaks /\ seeded.joins = s.doc.joins
        /\ seeded.revision = old.revision \/ (reworded /\ seeded.revision = revision)
    <2>1. PICK doc \in Docs(old.pages) : doc = s.doc /\ doc.revision = old.revision
      BY DEF States
    <2>2. CASE reworded
      BY <1>6, <2>1, <2>2 DEF Docs
    <2>3. CASE ~reworded
      BY <1>6, <2>1, <2>3
    <2>4. QED
      BY <2>2, <2>3
  <1>9. CASE s.repage
    <2>1. PICK doc : doc = Resegmented(seeded)
      OBVIOUS
    <2>2. /\ Current(doc) /\ doc.words = s.doc.words /\ doc.revision = seeded.revision
          /\ Tidy(seeded, s.fresh) => Tidy(doc, s.fresh)
      BY <1>8, <2>1, ResegmentedIsCurrent
    <2>3. out = [ok |-> s.ok, fresh |-> s.fresh, reworded |-> reworded, doc |-> doc]
      BY <1>7, <1>9, <2>1
    <2>4. Tidy(old, fresh0) => Tidy(doc, s.fresh)
      BY <1>8, <2>2 DEF States, Tidy
    <2>5. /\ out.doc = doc /\ out.fresh = s.fresh /\ out.reworded = reworded
          /\ out = [ok |-> out.ok, fresh |-> out.fresh, reworded |-> out.reworded, doc |-> out.doc]
      BY <2>3
    <2>6. QED
      BY <1>8, <2>2, <2>4, <2>5 DEF States
  <1>10. CASE ~s.repage
    <2>1. PICK style \in StyleType : s.doc = [old EXCEPT !.style = style]
      BY <1>10 DEF States
    <2>2. Current(s.doc)
      BY <1>1, <2>1 DEF Current, Docs
    <2>3. /\ out.doc = s.doc /\ out.fresh = s.fresh
          /\ out = [ok |-> out.ok, fresh |-> out.fresh, reworded |-> out.reworded, doc |-> out.doc]
      BY <1>7, <1>10
    <2>4. /\ Lasting(old.words) => Lasting(s.doc.words)
          /\ Tidy(old, fresh0) => Tidy(s.doc, s.fresh)
          /\ s.doc.revision = old.revision /\ s.fresh \in Nat \ {0}
      BY DEF States
    <2>5. QED
      BY <2>2, <2>3, <2>4
  <1>11. QED
    BY <1>9, <1>10

-----------------------------------------------------------------------------
(* Normalized words.                                                       *)

\* Before the first word.
Silence == [id |-> 0, chars |-> 0, start |-> 0, end |-> 0]

\* Merging tokens of punctuation leaves raw words.
LEMMA MergedTyped ==
    ASSUME NEW raw \in Seq(RawWord)
    PROVE  Merged(raw) \in Seq(RawWord)
  <1> DEFINE Merge(words, token) ==
                IF token.punctuation /\ words # <<>>
                THEN [words EXCEPT ![Len(words)].chars = @ + token.chars,
                                   ![Len(words)].end = Max({@, token.end})]
                ELSE Append(words, token)
             Def(g) == [s \in SUBSET DOMAIN raw |->
                          IF s = {} THEN <<>> ELSE Merge(g[s \ {Max(s)}], raw[Max(s)])]
             iter == CHOOSE g : g = Def(g)
  <1>1. Merged(raw) = iter[DOMAIN raw]
    BY DEF Merged, FoldLeft, MapThenFoldSet
  <1>2. ASSUME NEW words \in Seq(RawWord), NEW token \in RawWord
        PROVE  Merge(words, token) \in Seq(RawWord)
    <2>1. CASE token.punctuation /\ words # <<>>
      <3>1. PICK n \in 1..Len(words) : n = Len(words)
        BY <2>1
      <3>2. words[n] \in RawWord
        OBVIOUS
      <3>3. PICK last \in Int : last = Max({words[n].end, token.end})
        BY <3>2, MaxOf DEF RawWord
      <3>4. PICK chars \in Nat : chars = words[n].chars + token.chars
        <4>1. words[n].chars \in Nat /\ token.chars \in Nat
          BY <3>2 DEF RawWord
        <4>2. QED
          BY <4>1
      <3>5. PICK word \in RawWord : word = [words[n] EXCEPT !.chars = chars, !.end = last]
        BY <3>2 DEF RawWord
      <3>6. Merge(words, token) = [words EXCEPT ![n].chars = words[n].chars + token.chars,
                                                ![n].end = Max({words[n].end, token.end})]
        BY <2>1, <3>1, <3>2 DEF RawWord
      <3>7. Merge(words, token) = [words EXCEPT ![n] = word]
        BY <3>2, <3>3, <3>4, <3>5, <3>6 DEF RawWord
      <3>8. [words EXCEPT ![n] = word] \in Seq(RawWord)
        BY <3>5
      <3>9. QED
        BY <3>7, <3>8
    <2>2. CASE ~(token.punctuation /\ words # <<>>)
      BY <2>2
    <2>3. QED
      BY <2>1, <2>2
  <1> HIDE DEF Merge
  <1>3. PICK N \in Nat : N = Len(raw) /\ DOMAIN raw = 1..N
    OBVIOUS
  <1>4. \A s \in SUBSET (1..N) : s # {} => Max(s) \in s /\ Max(s) = Greatest(s)
    BY GreatestIsMax
  <1>5. PICK step : step = [k \in 1..N |-> [words \in Seq(RawWord) |-> Merge(words, raw[k])]]
    OBVIOUS
  <1>6. \A k \in 1..N : \A words \in Seq(RawWord) :
           step[k][words] = Merge(words, raw[k]) /\ step[k][words] \in Seq(RawWord)
    BY <1>2, <1>3, <1>5
  <1>7. PICK g \in [SUBSET (1..N) -> Seq(RawWord)] : FoldFollows(g, <<>>, step, 1..N)
    <2>1. <<>> \in Seq(RawWord)
      OBVIOUS
    <2>2. QED
      BY <1>6, <2>1, FoldRecursion
  <1>8. g = Def(g)
    <2>1. ASSUME NEW s \in SUBSET (1..N)
          PROVE  g[s] = IF s = {} THEN <<>> ELSE Merge(g[s \ {Max(s)}], raw[Max(s)])
      <3>1. CASE s = {}
        BY <1>7, <3>1 DEF FoldFollows
      <3>2. CASE s # {}
        <4>1. PICK k \in 1..N : k = Max(s) /\ k = Greatest(s)
          BY <1>4, <3>2
        <4>2. g[s \ {k}] \in Seq(RawWord)
          BY <1>7
        <4>3. g[s] = step[k][g[s \ {k}]]
          BY <1>7, <3>2, <4>1 DEF FoldFollows
        <4>4. QED
          BY <1>6, <3>2, <4>1, <4>2, <4>3
      <3>3. QED
        BY <3>1, <3>2
    <2>2. QED
      BY <1>3, <1>7, <2>1
  <1>9. iter = Def(iter)
    <2> HIDE DEF Def
    <2>1. QED
      BY <1>8
  <1> HIDE DEF iter
  <1> DEFINE T == {s \in SUBSET (1..N) : iter[s] \in Seq(RawWord)}
  <1>10. ASSUME NEW s \in SUBSET (1..N), \A x \in s : s \ {x} \in T PROVE s \in T
    <2>1. iter[s] = IF s = {} THEN <<>> ELSE Merge(iter[s \ {Max(s)}], raw[Max(s)])
      BY <1>3, <1>9
    <2>2. CASE s # {}
      <3>1. PICK k \in 1..N : k = Max(s) /\ k \in s
        BY <1>4, <2>2
      <3>2. PICK words \in Seq(RawWord) : words = iter[s \ {k}]
        BY <1>10, <3>1
      <3>3. iter[s] = Merge(words, raw[k])
        BY <2>1, <2>2, <3>1, <3>2
      <3>4. raw[k] \in RawWord
        BY <1>3
      <3>5. QED
        BY <1>2, <3>3, <3>4
    <2>3. CASE s = {}
      <3>1. iter[s] = <<>>
        BY <2>1, <2>3
      <3>2. iter[s] \in Seq(RawWord)
        BY <3>1
      <3>3. QED
        BY <3>2
    <2>4. QED
      BY <2>2, <2>3
  <1>11. IsFiniteSet(1..N)
    BY FS_Interval
  <1>12. 1..N \in T
    <2> HIDE DEF T
    <2>1. QED
      BY <1>10, <1>11, Descent
  <1>13. QED
    BY <1>1, <1>3, <1>12

\* Repaired words are in order.
LEMMA RepairedTyped ==
    ASSUME NEW raw \in Seq(RawWord)
    PROVE  Repaired(raw) \in Seq(Word) /\ Ordered(Repaired(raw))
  <1> DEFINE After(k, w) ==
                LET start == Max({raw[k].start, w.end})
                IN  [id |-> k, chars |-> raw[k].chars, start |-> start,
                     end |-> Max({raw[k].end, start + MinWordMs})]
             Def(g) == [k \in 0 .. Len(raw) |-> IF k = 0 THEN Silence ELSE After(k, g[k-1])]
             iter == CHOOSE g : g = Def(g)
  <1>1. Repaired(raw) = [k \in 1 .. Len(raw) |-> iter[k]]
    BY DEF Repaired, Silence
  <1>2. ASSUME NEW k \in 1..Len(raw), NEW w \in Word
        PROVE  /\ After(k, w) \in Word /\ w.end <= After(k, w).start
               /\ After(k, w).start < After(k, w).end
    <2>1. raw[k].chars \in Nat /\ raw[k].start \in Int /\ raw[k].end \in Int /\ w.end \in Int
      <3>1. raw[k] \in RawWord
        OBVIOUS
      <3>2. QED
        BY <3>1 DEF RawWord, Word
    <2>2. PICK start \in Int : start = Max({raw[k].start, w.end}) /\ w.end <= start
      BY <2>1, MaxOf
    <2>3. start + MinWordMs \in Int /\ start < start + MinWordMs
      BY <2>2, BoundsAssumption
    <2>4. PICK end \in Int : end = Max({raw[k].end, start + MinWordMs}) /\ start + MinWordMs <= end
      <3>1. PICK least \in Int : least = start + MinWordMs
        BY <2>3
      <3>2. Max({raw[k].end, least}) \in Int /\ least <= Max({raw[k].end, least})
        BY <2>1, MaxOf
      <3>3. QED
        BY <3>1, <3>2
    <2>5. After(k, w) = [id |-> k, chars |-> raw[k].chars, start |-> start, end |-> end]
      BY <2>2, <2>4
    <2>6. QED
      BY <2>1, <2>2, <2>3, <2>4, <2>5, SMTT(20) DEF Word
  <1> HIDE DEF After
  <1>3. PICK N \in Nat : N = Len(raw)
    OBVIOUS
  <1>4. PICK step : step = [k \in 1..N |-> [w \in Word |-> After(k, w)]]
    OBVIOUS
  <1>5. \A k \in 1..N : \A w \in Word : step[k][w] = After(k, w) /\ step[k][w] \in Word
    BY <1>2, <1>3, <1>4
  <1>6. Silence \in Word
    BY DEF Silence, Word
  <1>7. PICK g \in [0..N -> Word] : Follows(g, Silence, step, N)
    BY <1>5, <1>6, Recursion
  <1>8. g = Def(g)
    <2>1. ASSUME NEW k \in 0..N
          PROVE  g[k] = IF k = 0 THEN Silence ELSE After(k, g[k-1])
      <3>1. CASE k = 0
        BY <1>7, <3>1 DEF Follows
      <3>2. CASE k # 0
        <4>1. k \in 1..N /\ k - 1 \in 0..N
          BY <3>2
        <4>2. g[k] = step[k][g[k-1]] /\ g[k-1] \in Word
          BY <1>7, <3>2, <4>1 DEF Follows
        <4>3. QED
          BY <1>5, <3>2, <4>1, <4>2
      <3>3. QED
        BY <3>1, <3>2
    <2>2. QED
      BY <1>3, <1>7, <2>1
  <1>9. iter = Def(iter)
    <2> HIDE DEF Def
    <2>1. QED
      BY <1>8
  <1> HIDE DEF iter
  <1> DEFINE T == {k \in 0..N : iter[k] \in Word}
  <1>10. iter[0] = Silence /\ \A k \in 1..N : iter[k] = After(k, iter[k-1])
    <2>1. \A k \in 0..N : iter[k] = IF k = 0 THEN Silence ELSE After(k, iter[k-1])
      BY <1>3, <1>9
    <2>2. iter[0] = Silence
      BY <2>1
    <2>3. ASSUME NEW k \in 1..N PROVE iter[k] = After(k, iter[k-1])
      <3>1. k \in 0..N /\ k # 0
        OBVIOUS
      <3>2. QED
        BY <2>1, <3>1
    <2>4. QED
      BY <2>2, <2>3
  <1>11. \A k \in 0..N : k \in T
    <2>1. 0 \in T
      BY <1>6, <1>10
    <2>2. ASSUME NEW k \in 1..N, k - 1 \in T PROVE k \in T
      BY <1>2, <1>3, <1>10, <2>2
    <2> HIDE DEF T
    <2>3. QED
      BY <2>1, <2>2, Upward
  <1>12. \A k \in 0..N : iter[k] \in Word
    BY <1>11
  <1>13. PICK words : words = [k \in 1..N |-> iter[k]]
    OBVIOUS
  <1>14. words \in Seq(Word) /\ Len(words) = N
    <2>1. words \in [1..N -> Word]
      BY <1>12, <1>13
    <2>2. QED
      BY <1>13, <2>1
  <1>15. ASSUME NEW k \in 1..N PROVE words[k].start < words[k].end
    <2>1. k - 1 \in 0..N
      OBVIOUS
    <2>2. QED
      BY <1>2, <1>3, <1>10, <1>12, <1>13, <2>1
  <1>16. ASSUME NEW k \in 1 .. N - 1 PROVE words[k].end <= words[k+1].start
    <2>1. PICK next \in 1..N : next = k + 1 /\ next - 1 = k
      OBVIOUS
    <2>2. iter[k] \in Word
      BY <1>12
    <2>3. iter[next] = After(next, iter[k])
      BY <1>10, <2>1
    <2>4. iter[k].end <= iter[next].start
      BY <1>2, <1>3, <2>2, <2>3
    <2>5. words[k] = iter[k] /\ words[k+1] = iter[next]
      BY <1>13, <2>1
    <2>6. QED
      BY <2>4, <2>5
  <1>17. Ordered(words)
    BY <1>14, <1>15, <1>16 DEF Ordered, Lasting, InOrder
  <1>18. QED
    BY <1>1, <1>3, <1>13, <1>14, <1>17

\* Compressing words into the duration leaves words, in order if they were.
LEMMA FittedTyped ==
    ASSUME NEW words \in Seq(Word), Ordered(words), NEW duration \in Nat
    PROVE  Fitted(words, duration) \in Seq(Word) /\ Ordered(Fitted(words, duration))
  <1> DEFINE n == Len(words)
             most == Max({1, duration})
             slot == Max({1, most \div n})
             total == words[n].end
             After(k, before) ==
                LET w == words[k]
                    start == Min({most - slot * (n - k + 1),
                                  Max({before.end, Rounded(w.start * most, total)})})
                IN  [w EXCEPT !.start = start,
                              !.end = Min({most - slot * (n - k),
                                           Max({start + 1, Rounded(w.end * most, total)})})]
             Def(g) == [k \in 0..n |-> IF k = 0 THEN Silence ELSE After(k, g[k-1])]
             iter == CHOOSE g : g = Def(g)
  <1>1. CASE n = 0 \/ total <= most
    <2>1. Fitted(words, duration) = words
      BY <1>1 DEF Fitted
    <2>2. QED
      BY <2>1
  <1>2. CASE ~(n = 0 \/ total <= most)
    <2>1. Fitted(words, duration) = [k \in 1..n |-> iter[k]]
      BY <1>2 DEF Fitted, Silence
    <2>2. n \in Nat \ {0} /\ most \in Nat \ {0}
      <3>1. PICK one \in Int : one = 1
        OBVIOUS
      <3>2. PICK length \in Int : length = duration
        OBVIOUS
      <3>3. Max({one, length}) \in Int /\ Max({one, length}) >= one
        BY MaxOf
      <3>4. QED
        BY <1>2, <3>1, <3>2, <3>3
    <2>3. slot \in Nat \ {0}
      <3>1. PICK one \in Int : one = 1
        OBVIOUS
      <3> HIDE DEF most
      <3>2. PICK part \in Int : part = most \div n
        BY <2>2
      <3>3. Max({one, part}) \in Int /\ Max({one, part}) >= one
        BY MaxOf
      <3>4. QED
        BY <3>1, <3>2, <3>3
    <2>4. total \in Nat \ {0}
      <3>1. words[n] \in Word
        BY <2>2
      <3>2. total \in Int
        BY <3>1 DEF Word
      <3> HIDE DEF most, total
      <3>3. QED
        BY <1>2, <2>2, <3>2
    <2> HIDE DEF most, slot, total
    \* What a word leaves to those from k on, of k and the one after it.
    <2>5. ASSUME NEW k \in 1..n
          PROVE  /\ most - slot * (n - k + 1) \in Int /\ most - slot * (n - k) \in Int
                 /\ most - slot * (n - k + 1) < most - slot * (n - k)
      <3>1. PICK left \in Nat : left = n - k
        BY <2>2
      <3>2. slot * (left + 1) = slot * left + slot /\ slot * left \in Nat
        BY <2>3, <3>1
      <3>3. QED
        BY <2>2, <2>3, <3>1, <3>2
    <2>6. ASSUME NEW k \in 1..n, NEW before \in Word,
                 k = 1 \/ before.end <= most - slot * (n - k + 1)
          PROVE  /\ After(k, before) \in Word /\ After(k, before).end <= most - slot * (n - k)
                 /\ After(k, before).start < After(k, before).end
                 /\ k # 1 => before.end <= After(k, before).start
      <3>1. PICK w \in Word : w = words[k]
        OBVIOUS
      <3>2. before.end \in Int
        BY DEF Word
      <3>3. PICK scaled \in Int : scaled = Rounded(w.start * most, total)
        <4>1. w.start * most \in Int
          BY <2>2 DEF Word
        <4>2. QED
          BY <2>4, <4>1, RoundedType
      <3>4. PICK scaledEnd \in Int : scaledEnd = Rounded(w.end * most, total)
        <4>1. w.end * most \in Int
          BY <2>2 DEF Word
        <4>2. QED
          BY <2>4, <4>1, RoundedType
      <3>5. PICK a \in Int, b \in Int : /\ a = most - slot * (n - k + 1)
                                        /\ b = most - slot * (n - k) /\ a < b
        BY <2>5
      <3>6. PICK later \in Int : later = Max({before.end, scaled}) /\ before.end <= later
        BY <3>2, MaxOf
      <3>7. PICK start \in Int : /\ start = Min({a, later}) /\ start <= a
                                 /\ start \in {a, later}
        BY MinOf
      <3>8. PICK next \in Int : next = start + 1
        OBVIOUS
      <3>9. PICK laterEnd \in Int : laterEnd = Max({next, scaledEnd}) /\ next <= laterEnd
        BY MaxOf
      <3>10. PICK end \in Int : /\ end = Min({b, laterEnd}) /\ end <= b /\ end \in {b, laterEnd}
        BY MinOf
      <3>11. After(k, before) = [w EXCEPT !.start = start, !.end = end]
        BY <3>1, <3>3, <3>4, <3>5, <3>6, <3>7, <3>8, <3>9, <3>10
      <3>12. PICK new : new = [w EXCEPT !.start = start, !.end = end]
        OBVIOUS
      <3>13. new \in Word /\ new.start = start /\ new.end = end
        BY <3>12 DEF Word
      <3>14. start < end
        <4>1. a < b /\ start <= a
          BY <3>5, <3>7
        <4>2. start < laterEnd
          BY <3>8, <3>9
        <4>3. end \in {b, laterEnd}
          BY <3>10
        <4>4. QED
          BY <4>1, <4>2, <4>3
      <3>15. k # 1 => before.end <= start
        BY <2>6, <3>2, <3>5, <3>6, <3>7
      <3> HIDE DEF After
      <3>16. QED
        BY <3>5, <3>10, <3>11, <3>12, <3>13, <3>14, <3>15
    <2> HIDE DEF After
    <2> DEFINE V == [k \in 0..n |-> {w \in Word : k = 0 \/ w.end <= most - slot * (n - k)}]
    <2>7. ASSUME NEW k \in 1..n, NEW w \in V[k-1]
          PROVE  /\ After(k, w) \in V[k] /\ After(k, w).start < After(k, w).end
                 /\ k # 1 => w.end <= After(k, w).start
      <3>1. k - 1 \in 0..n /\ n - (k - 1) = n - k + 1 /\ k \in 0..n
        BY <2>2
      <3>2. w \in Word /\ (k = 1 \/ w.end <= most - slot * (n - k + 1))
        BY <3>1
      <3>3. QED
        BY <2>6, <3>1, <3>2
    <2>8. PICK N \in Nat : N = n
      BY <2>2
    <2>9. PICK step : step = [k \in 1..N |-> [w \in V[k-1] |-> After(k, w)]]
      OBVIOUS
    <2>10. Silence \in V[0]
      BY <2>2 DEF Silence, Word
    <2> HIDE DEF V
    <2>11. \A k \in 1..N : \A w \in V[k-1] : step[k][w] = After(k, w) /\ step[k][w] \in V[k]
      BY <2>7, <2>8, <2>9
    <2>12. PICK g : g = [k \in 0..N |-> g[k]] /\ Follows(g, Silence, step, N)
      BY <2>10, <2>11, TypedRecursion
    <2>13. \A k \in 0..N : g[k] \in V[k]
      BY <2>10, <2>11, <2>12, TypedRecursion
    <2>14. g = Def(g)
      <3>1. ASSUME NEW k \in 0..N
            PROVE  g[k] = IF k = 0 THEN Silence ELSE After(k, g[k-1])
        <4>1. CASE k = 0
          BY <2>12, <4>1 DEF Follows
        <4>2. CASE k # 0
          <5>1. k \in 1..N /\ k - 1 \in 0..N
            BY <4>2
          <5>2. g[k] = step[k][g[k-1]] /\ g[k-1] \in V[k-1]
            BY <2>12, <2>13, <4>2, <5>1 DEF Follows
          <5>3. QED
            BY <2>11, <4>2, <5>1, <5>2
        <4>3. QED
          BY <4>1, <4>2
      <3>2. QED
        BY <2>8, <2>12, <3>1
    <2>15. iter = Def(iter)
      <3> HIDE DEF Def
      <3>1. QED
        BY <2>14
    <2> HIDE DEF iter
    <2>16. \A k \in 0..N : iter[k] = IF k = 0 THEN Silence ELSE After(k, iter[k-1])
      BY <2>8, <2>15
    <2> DEFINE T == {k \in 0..N : iter[k] \in V[k]}
    <2>17. \A k \in 0..N : k \in T
      <3>1. 0 \in T
        <4>1. 0 \in 0..N
          OBVIOUS
        <4>2. iter[0] = Silence
          BY <2>16, <4>1
        <4>3. QED
          BY <2>10, <4>1, <4>2
      <3>2. ASSUME NEW k \in 1..N, k - 1 \in T PROVE k \in T
        <4>1. k \in 0..N /\ k # 0 /\ iter[k-1] \in V[k-1]
          BY <3>2
        <4>2. iter[k] = After(k, iter[k-1])
          BY <2>16, <4>1
        <4>3. QED
          BY <2>7, <2>8, <4>1, <4>2
      <3> HIDE DEF T
      <3>3. QED
        BY <3>1, <3>2, Upward
    <2>18. ASSUME NEW k \in 1..N
           PROVE  /\ iter[k] \in Word /\ iter[k].start < iter[k].end
                  /\ k # 1 => iter[k-1].end <= iter[k].start
      <3>1. k \in 0..N /\ k - 1 \in 0..N /\ k # 0
        OBVIOUS
      <3>2. iter[k-1] \in V[k-1] /\ iter[k] \in V[k] /\ iter[k] = After(k, iter[k-1])
        BY <2>16, <2>17, <3>1
      <3>3. iter[k] \in Word
        BY <2>8, <3>1, <3>2 DEF V
      <3>4. QED
        BY <2>7, <2>8, <3>2, <3>3
    <2> HIDE DEF T
    <2>19. PICK fitted : fitted = [k \in 1..N |-> iter[k]]
      OBVIOUS
    <2>20. fitted \in Seq(Word) /\ Len(fitted) = N
      <3>1. fitted \in [1..N -> Word]
        BY <2>18, <2>19
      <3>2. QED
        BY <2>19, <3>1
    <2>21. \A k \in 1..N : fitted[k].start < fitted[k].end
      BY <2>18, <2>19
    <2>22. ASSUME NEW k \in 1 .. N - 1 PROVE fitted[k].end <= fitted[k+1].start
      <3>1. PICK next \in 1..N : next = k + 1 /\ next # 1 /\ next - 1 = k
        OBVIOUS
      <3>2. iter[k].end <= iter[next].start
        BY <2>18, <3>1
      <3>3. QED
        BY <2>19, <3>1, <3>2
    <2>23. Ordered(fitted)
      BY <2>20, <2>21, <2>22 DEF Ordered, Lasting, InOrder
    <2>24. QED
      BY <2>1, <2>8, <2>19, <2>20, <2>23
  <1>3. QED
    BY <1>1, <1>2

\* normalizeWords: whatever a provider returns, the words each last some time, and none
\* starts before the one it follows has ended (normalize.ts).
THEOREM NormalizedWords ==
    ASSUME NEW raw \in Raw
    PROVE  NormalizeWords(raw, Duration) \in Seq(Word) /\ Ordered(NormalizeWords(raw, Duration))
  <1>1. raw \in Seq(RawWord) /\ Duration \in Nat
    BY TextAssumption DEF RawWord
  <1>2. Merged(raw) \in Seq(RawWord)
    BY <1>1, MergedTyped
  <1>3. Repaired(Merged(raw)) \in Seq(Word) /\ Ordered(Repaired(Merged(raw)))
    BY <1>2, RepairedTyped
  <1>4. QED
    BY <1>1, <1>3, FittedTyped DEF NormalizeWords

-----------------------------------------------------------------------------
(* The documents of a state.                                               *)

PageId == Nat \X Nat \X Nat

OpType ==
    [op : {"style"}, patch : PatchType]
    \cup [op : {"preset"}, style : Styles]
    \cup [op : {"resegment"}, limits : Limits]
    \cup [op : {"replace"}, word : Nat, tokens : Tokens]
    \cup [op : {"timing"}, word : Nat, start : Int, end : Int]
    \cup [op : {"insert"}, after : Nat, chars : Nat, start : Int, end : Int]
    \cup [op : {"delete"}, word : Nat]
    \cup [op : {"split"}, page : PageId, word : Nat]
    \cup [op : {"merge"}, page : PageId]

LEMMA OpsOfType ==
    ASSUME NEW ops \in Seq(OpType)
    PROVE  OpsTyped(ops)
  <1>1. ASSUME NEW op \in OpType PROVE OpTyped(op)
    BY DEF OpType, OpTyped
  <1>2. \A n \in 1..Len(ops) : ops[n] \in OpType
    OBVIOUS
  <1>3. QED
    BY <1>1, <1>2 DEF OpsTyped

\* The pages of a view have ids, whether it has pages or not.
ViewTyped(view) == view.count \in Nat /\ \A p \in DOMAIN view.pages : view.pages[p].id \in PageId

LEMMA ViewsTyped ==
    ASSUME NEW doc, Current(doc)
    PROVE  \A view \in Views(doc) : ViewTyped(view)
  <1>1. PagesTile(doc.pages, doc.revision, Len(doc.words)) /\ doc.revision \in Nat
    BY CurrentTiles DEF Current, Docs
  <1>2. ASSUME NEW p \in DOMAIN doc.pages PROVE doc.pages[p].id \in PageId
    <2>1. /\ doc.pages[p].from \in Nat /\ doc.pages[p].to \in Nat
          /\ doc.pages[p].id = <<doc.revision, doc.pages[p].from, doc.pages[p].to>>
      BY <1>1 DEF PagesTile
    <2>2. QED
      BY <1>1, <2>1 DEF PageId
  <1>3. Len(doc.words) \in Nat
    BY <1>1 DEF PagesTile
  <1>4. ViewTyped(View(doc, doc.pages))
    BY <1>2, <1>3 DEF View, ViewTyped
  <1>5. ViewTyped(View(doc, <<>>))
    BY <1>3 DEF View, ViewTyped
  <1>6. QED
    BY <1>4, <1>5 DEF Views

\* What a client may do to words and pages it sees, whether they belong together or
\* not.
LEMMA OperationsTyped ==
    ASSUME NEW words \in Seq(Word), NEW pages, \A p \in DOMAIN pages : pages[p].id \in PageId
    PROVE  Operations(words, pages) \subseteq OpType
  <1>1. \A k \in DOMAIN words :
           words[k].id \in Nat /\ words[k].start \in Int /\ words[k].end \in Int
    <2>1. \A k \in DOMAIN words : words[k] \in Word
      OBVIOUS
    <2>2. QED
      BY <2>1 DEF Word
  <1>2. Range(LimitsOf) \subseteq Limits
    BY TextAssumption DEF Limits
  <1> SUFFICES ASSUME NEW op \in Operations(words, pages) PROVE op \in OpType
    OBVIOUS
  <1> DEFINE paged == {k \in DOMAIN words : \E p \in DOMAIN pages :
                          pages[p].from < k /\ k <= pages[p].to}
             shown == {words[k] : k \in paged}
             ids == {pages[p].id : p \in DOMAIN pages}
  <1>3. \A w \in shown : w.id \in Nat /\ w.start \in Int /\ w.end \in Int
    BY <1>1
  <1>4. \A id \in ids : id \in PageId
    OBVIOUS
  <1>5. \/ op \in {[op |-> "delete", word |-> w.id] : w \in shown}
        \/ op \in {[op |-> "replace", word |-> w.id, tokens |-> tokens] :
                      w \in shown, tokens \in Tokens}
        \/ op \in {[op |-> "timing", word |-> w.id, start |-> w.start + 1, end |-> w.end] :
                      w \in shown}
        \/ op \in {[op |-> "insert", after |-> w.id, chars |-> 2, start |-> w.end,
                    end |-> w.end + 1] : w \in shown}
        \/ op \in {[op |-> "split", page |-> id, word |-> w.id] : id \in ids, w \in shown}
        \/ op \in {[op |-> "merge", page |-> id] : id \in ids}
        \/ op \in {[op |-> "resegment", limits |-> limits] : limits \in Range(LimitsOf)}
        \/ op \in {[op |-> "preset", style |-> style] : style \in Styles}
    BY DEF Operations
  <1> HIDE DEF shown, ids
  <1>6. QED
    BY <1>2, <1>3, <1>4, <1>5 DEF OpType

Good(doc) == Current(doc) /\ Lasting(doc.words)

\* A request for words under way.
Request == [total : Nat, offset : Nat, words : Seq(Word)]

TaskRecord(r) == r = [number |-> r.number, status |-> r.status, attempts |-> r.attempts,
                      cancel |-> r.cancel, preset |-> r.preset]

ServerDoc ==
    /\ Good(project.doc) /\ Tidy(project.doc, fresh) /\ fresh \in Nat \ {0}
    /\ revisions \in Nat /\ project.doc.revision \in 0..revisions
EditorDocs ==
    /\ ViewTyped(editor.view)
    /\ editor.call.pc = "answered" => ViewTyped(editor.call.reply.view)
    /\ editor.loading # Nothing => ViewTyped(editor.loading.view)
    /\ editor.generated # Nothing => ViewTyped(editor.generated.view)
    /\ editor.words \in Seq(Word) /\ editor.reloads \in Seq(Request)
    /\ editor.pending = NoStyle \/ editor.pending \in PatchType
    /\ editor.chain \in Seq(Seq(OpType))
    /\ editor.call.pc # "none" => editor.chain # <<>>
TaskStyle == TaskRecord(task) /\ task.preset \in Styles \cup {NoStyle}

DocInv == ServerDoc /\ EditorDocs /\ TaskStyle

LEMMA DocInitially == Init => DocInv
  <1> SUFFICES ASSUME Init PROVE DocInv
    OBVIOUS
  <1>1. PICK captioned \in BOOLEAN, style \in Styles :
           /\ revisions = IF captioned THEN 1 ELSE 0
           /\ project = [version |-> 1, status |-> IF captioned THEN "captioned" ELSE "ready",
                doc |-> NewDocument(IF captioned THEN Words ELSE <<>>, style,
                                    LimitsOf[style.lines], IF captioned THEN 1 ELSE 0)]
    BY DEF Init
  <1>2. PICK words \in Seq(Word) : /\ words = IF captioned THEN Words ELSE <<>>
                                   /\ Lasting(words)
    <2>1. Words \in Seq(Word) /\ Lasting(Words)
      BY TextAssumption, WordsAssumption DEF Word, Lasting
    <2>2. <<>> \in Seq(Word) /\ Lasting(<<>>)
      BY DEF Lasting
    <2>3. QED
      BY <2>1, <2>2
  <1>3. PICK revision \in Nat : revision = IF captioned THEN 1 ELSE 0
    OBVIOUS
  <1>4. style \in StyleType /\ LimitsOf[style.lines] \in Limits
    BY StylesTyped, LimitsTyped
  <1>5. PICK doc : doc = NewDocument(words, style, LimitsOf[style.lines], revision)
    OBVIOUS
  <1>6. Current(doc) /\ doc.words = words
    BY <1>4, <1>5, NewDocumentIsCurrent, NewDocumentIs
  <1>7. project.doc = doc
    BY <1>1, <1>2, <1>3, <1>5
  <1>8. fresh \in Nat \ {0}
    BY TextAssumption DEF Init
  <1>9. ServerDoc
    <2>1. UniqueIds(words, fresh)
      <3>1. Len(Words) \in Nat /\ fresh - 1 = Len(Words)
        BY TextAssumption DEF Init
      <3>2. CASE captioned
        BY <1>2, <3>1, <3>2, WordsAssumption DEF UniqueIds
      <3>3. CASE ~captioned
        <4>1. words = <<>>
          BY <1>2, <3>3
        <4>2. QED
          BY <4>1 DEF UniqueIds
      <3>4. QED
        BY <3>2, <3>3
    <2>2. doc.breaks = {} /\ doc.joins = {} /\ doc.revision = revision
      BY <1>5, NewDocumentIs
    <2>3. Tidy(doc, fresh)
      BY <1>6, <2>1, <2>2 DEF Tidy
    <2>4. revisions = revision
      BY <1>1, <1>3
    <2>5. Tidy(project.doc, fresh) /\ revisions \in Nat /\ project.doc.revision \in 0..revisions
      BY <1>7, <2>2, <2>3, <2>4
    <2>6. QED
      BY <1>2, <1>6, <1>7, <1>8, <2>5 DEF ServerDoc, Good
  <1>10. EditorDocs
    <2>1. ViewTyped(View(doc, doc.pages))
      BY <1>6, ViewsTyped DEF Views
    <2>2. /\ editor.view = View(doc, doc.pages) /\ editor.words = words /\ editor.reloads = <<>>
          /\ editor.loading = Nothing /\ editor.generated = Nothing /\ editor.chain = <<>>
          /\ editor.pending = NoStyle /\ editor.call.pc = "none"
      BY <1>6, <1>7 DEF Init, NoCall
    <2>3. <<>> \in Seq(Request) /\ <<>> \in Seq(Seq(OpType))
      OBVIOUS
    <2>4. QED
      BY <2>1, <2>2, <2>3 DEF EditorDocs
  <1>11. TaskStyle
    BY DEF Init, TaskStyle, TaskRecord
  <1>12. QED
    BY <1>9, <1>10, <1>11 DEF DocInv

\* What the server makes of operations.
Proposed(out) ==
    /\ Good(out.doc) /\ Tidy(out.doc, out.fresh) /\ out.fresh \in Nat \ {0}
    /\ \/ out.doc.revision \in 0..revisions
       \/ out.reworded /\ out.doc.revision = revisions + 1

LEMMA OutcomeIs ==
    ASSUME ServerDoc, NEW ops \in Seq(OpType), NEW out, out = Outcome(ops)
    PROVE  Proposed(out)
  <1>1. PICK next \in Nat : next = revisions + 1
    BY DEF ServerDoc
  <1>2. PICK raw : raw = Patched(project.doc, ops, fresh, next)
    OBVIOUS
  <1>3. /\ Current(raw.doc) /\ raw.fresh \in Nat \ {0}
        /\ Lasting(project.doc.words) => Lasting(raw.doc.words)
        /\ Tidy(project.doc, fresh) => Tidy(raw.doc, raw.fresh)
        /\ \/ raw.doc.revision = project.doc.revision
           \/ raw.reworded /\ raw.doc.revision = next
        /\ raw = [ok |-> raw.ok, fresh |-> raw.fresh, reworded |-> raw.reworded, doc |-> raw.doc]
    BY <1>2, OpsOfType, PatchedIsCurrent DEF ServerDoc, Good
  <1>4. PICK ok : out = [raw EXCEPT !.ok = ok]
    BY <1>1, <1>2 DEF Outcome
  <1>5. out.doc = raw.doc /\ out.fresh = raw.fresh /\ out.reworded = raw.reworded
    BY <1>3, <1>4
  <1>6. Good(out.doc)
    BY <1>3, <1>5 DEF ServerDoc, Good
  <1>7. QED
    BY <1>1, <1>3, <1>5, <1>6 DEF ServerDoc, Proposed

LEMMA ServerWrites ==
    ASSUME ServerDoc, NEW out, Proposed(out), ApplyPatch(out)
    PROVE  ServerDoc'
  <1>1. project'.doc = out.doc /\ fresh' = out.fresh
    BY CommitDoes DEF ApplyPatch
  <1>2. Good(project'.doc) /\ Tidy(project'.doc, fresh') /\ fresh' \in Nat \ {0}
    BY <1>1 DEF Proposed
  <1>3. revisions' \in Nat /\ project'.doc.revision \in 0..revisions'
    BY <1>1 DEF ApplyPatch, ServerDoc, Proposed
  <1>4. QED
    BY <1>2, <1>3 DEF ServerDoc

\* A patch of the editor's pending style, and the style it becomes.
LEMMA PendingTyped ==
    ASSUME EditorDocs
    PROVE  /\ PendingOps \in Seq(OpType)
           /\ \A patch \in StylePatches : MergeStylePatch(editor.pending, patch) \in PatchType
  <1>1. PendingOps \in Seq(OpType)
    <2>1. CASE editor.pending = NoStyle
      <3>1. <<>> \in Seq(OpType)
        OBVIOUS
      <3>2. QED
        BY <2>1, <3>1 DEF PendingOps
    <2>2. CASE editor.pending # NoStyle
      <3>1. StyleOp(editor.pending) \in OpType
        BY <2>2 DEF EditorDocs, StyleOp, OpType
      <3>2. <<StyleOp(editor.pending)>> \in Seq(OpType)
        BY <3>1
      <3>3. QED
        BY <2>2, <3>2 DEF PendingOps
    <2>3. QED
      BY <2>1, <2>2
  <1>2. ASSUME NEW patch \in StylePatches
        PROVE  MergeStylePatch(editor.pending, patch) \in PatchType
    <2>1. patch \in PatchType
      BY StylesTyped
    <2>2. CASE editor.pending = NoStyle
      BY <2>1, <2>2 DEF MergeStylePatch
    <2>3. CASE editor.pending # NoStyle
      <3>1. PICK base \in PatchType : base = editor.pending
        BY <2>3 DEF EditorDocs
      <3>2. PICK kept : kept = DOMAIN base \ UNION {group \in Replaced : group \cap DOMAIN patch # {}}
        OBVIOUS
      <3>3. PICK merged : merged = [f \in kept \cup DOMAIN patch |->
                                       IF f \in DOMAIN patch THEN patch[f] ELSE base[f]]
        OBVIOUS
      <3>4. /\ kept \subseteq DOMAIN base
            /\ DOMAIN base \subseteq StyleFields /\ DOMAIN patch \subseteq StyleFields
            /\ \A f \in DOMAIN base : base[f] \in StyleValues
            /\ \A f \in DOMAIN patch : patch[f] \in StyleValues
        BY <2>1, <3>2 DEF PatchType, PartialStyle
      <3>5. kept \cup DOMAIN patch \in SUBSET StyleFields
        BY <3>4
      <3>6. merged \in [kept \cup DOMAIN patch -> StyleValues]
        BY <3>3, <3>4
      <3>7. merged \in PartialStyle
        BY <3>5, <3>6 DEF PartialStyle
      <3>8. "lines" \in DOMAIN merged => merged["lines"] \in DOMAIN LimitsOf
        BY <2>1, <3>3, <3>4 DEF PatchType
      <3>9. QED
        BY <2>3, <3>1, <3>2, <3>3, <3>7, <3>8 DEF MergeStylePatch, PatchType
    <2>4. QED
      BY <2>2, <2>3
  <1>3. QED
    BY <1>1, <1>2

\* The words that a request has got so far, and those it ends with.
LEMMA WordsTyped ==
    ASSUME ServerDoc, EditorDocs, EditorRecord(editor), ReadWords \/ EndReload
    PROVE  editor'.words \in Seq(Word) /\ editor'.reloads \in Seq(Request)
  <1>1. PICK n \in Nat : n = Len(editor.reloads) /\ DOMAIN editor.reloads = 1..n
    BY DEF EditorDocs
  <1>2. \A r \in 1..n : editor.reloads[r] \in Request
    BY <1>1 DEF EditorDocs
  <1>3. CASE ReadWords
    <2>1. PICK r, window :
             /\ r \in 1..n
             /\ window = SubSeq(project.doc.words, editor.reloads[r].offset + 1,
                                Min({editor.reloads[r].offset + Window, Len(project.doc.words)}))
             /\ editor' = [editor EXCEPT
                   !.reloads[r].words = @ \o window,
                   !.reloads[r].offset = IF window = <<>> THEN editor.reloads[r].total ELSE @ + Window]
      BY <1>1, <1>3 DEF ReadWords
    <2>2. PICK reload \in Request : reload = editor.reloads[r]
      BY <1>2, <2>1
    <2>3. reload.total \in Nat /\ reload.offset \in Nat /\ reload.words \in Seq(Word)
      BY DEF Request
    <2>4. window \in Seq(Word)
      <3>1. PICK words \in Seq(Word) : words = project.doc.words
        BY DEF ServerDoc, Good, Current, Docs
      <3>2. PICK m \in Int, all \in Int, from \in Nat :
               /\ m = reload.offset + Window /\ all = Len(words) /\ from = reload.offset + 1
               /\ from >= 1
        BY <2>3, BoundsAssumption
      <3>3. PICK to \in Int : to = Min({m, all}) /\ to <= all
        BY MinOf
      <3>4. \A i \in from..to : words[i] \in Word
        BY <3>2, <3>3
      <3>5. SubSeq(words, from, to) \in Seq(Word)
        BY <3>4, SubSeqProperties
      <3>6. QED
        BY <2>1, <2>2, <3>1, <3>2, <3>3, <3>5
    <2>5. PICK words \in Seq(Word) : words = reload.words \o window
      BY <2>3, <2>4, ConcatProperties
    <2>6. PICK offset \in Nat :
             offset = IF window = <<>> THEN reload.total ELSE reload.offset + Window
      BY <2>3, BoundsAssumption
    <2>7. PICK next \in Request : next = [reload EXCEPT !.words = words, !.offset = offset]
      <3>1. [reload EXCEPT !.words = words, !.offset = offset] \in Request
        BY DEF Request
      <3>2. QED
        BY <3>1
    <2>8. editor' = [editor EXCEPT !.reloads = [editor.reloads EXCEPT ![r] = next]]
      BY <2>1, <2>2, <2>5, <2>6, <2>7, <1>1 DEF Request
    <2>9. [editor.reloads EXCEPT ![r] = next] \in Seq(Request)
      BY <1>1, <2>1 DEF EditorDocs
    <2>10. PICK reloads \in Seq(Request) : editor' = [editor EXCEPT !.reloads = reloads]
      BY <2>8, <2>9
    <2>11. QED
      BY <2>10 DEF EditorRecord, EditorDocs
  <1>4. CASE EndReload
    <2>1. PICK r, words :
             /\ r \in 1..n /\ words \in {editor.words, editor.reloads[r].words}
             /\ editor' = [editor EXCEPT !.reloads = RemoveAt(editor.reloads, r), !.words = words]
      BY <1>1, <1>4 DEF EndReload
    <2>2. words \in Seq(Word)
      <3>1. editor.reloads[r].words \in Seq(Word)
        BY <1>2, <2>1 DEF Request
      <3>2. QED
        BY <2>1, <3>1 DEF EditorDocs
    <2>3. RemoveAt(editor.reloads, r) \in Seq(Request)
      <3>1. /\ \A i \in 1 .. r - 1 : editor.reloads[i] \in Request
            /\ \A i \in r + 1 .. n : editor.reloads[i] \in Request
        BY <1>2, <2>1
      <3>2. /\ SubSeq(editor.reloads, 1, r - 1) \in Seq(Request)
            /\ SubSeq(editor.reloads, r + 1, n) \in Seq(Request)
        BY <2>1, <3>1, SubSeqProperties
      <3>3. QED
        BY <1>1, <3>2, ConcatProperties DEF RemoveAt
    <2>4. PICK reloads \in Seq(Request) :
             editor' = [editor EXCEPT !.reloads = reloads, !.words = words]
      BY <2>1, <2>3
    <2>5. editor'.words = words /\ editor'.reloads = reloads
      BY <2>4 DEF EditorRecord
    <2>6. QED
      BY <2>2, <2>5
  <1>5. QED
    BY <1>3, <1>4

\* Requests for the words of a view that is shown.
LEMMA AskedTyped ==
    ASSUME EditorDocs, NEW answer, ViewTyped(answer.view)
    PROVE  Append(editor.reloads, Asked(answer)) \in Seq(Request)
  <1>1. <<>> \in Seq(Word) /\ answer.view.count \in Nat
    BY DEF ViewTyped
  <1>2. Asked(answer) \in Request
    BY <1>1 DEF Asked, Request
  <1>3. QED
    BY <1>2, AppendProperties DEF EditorDocs

\* An editor that keeps what a step does not change.
LEMMA EditorKeeps ==
    ASSUME EditorDocs, editor'.view = editor.view \/ ViewTyped(editor'.view),
           \/ editor'.call = editor.call /\ (editor.chain # <<>> => editor'.chain # <<>>)
           \/ editor'.call.pc = "none"
           \/ editor'.call.pc \in {"sent", "conflict", "failed"} /\ editor'.chain # <<>>
           \/ /\ editor'.call.pc = "answered" /\ ViewTyped(editor'.call.reply.view)
              /\ editor'.chain # <<>>,
           editor'.loading \in {editor.loading, Nothing} \/ ViewTyped(editor'.loading.view),
           editor'.generated \in {editor.generated, Nothing} \/ ViewTyped(editor'.generated.view),
           editor'.pending \in {editor.pending, NoStyle} \/ editor'.pending \in PatchType,
           editor'.chain = editor.chain \/ editor'.chain \in Seq(Seq(OpType)),
           editor'.words = editor.words \/ editor'.words \in Seq(Word),
           editor'.reloads = editor.reloads \/ editor'.reloads \in Seq(Request)
    PROVE  EditorDocs'
  <1>1. /\ ViewTyped(editor'.view) /\ editor'.chain \in Seq(Seq(OpType))
        /\ editor'.words \in Seq(Word) /\ editor'.reloads \in Seq(Request)
    BY DEF EditorDocs
  <1>2. editor'.pending = NoStyle \/ editor'.pending \in PatchType
    BY DEF EditorDocs
  <1>3. /\ editor'.loading # Nothing => ViewTyped(editor'.loading.view)
        /\ editor'.generated # Nothing => ViewTyped(editor'.generated.view)
    BY DEF EditorDocs
  <1>4. /\ editor'.call.pc = "answered" => ViewTyped(editor'.call.reply.view)
        /\ editor'.call.pc # "none" => editor'.chain # <<>>
    BY DEF EditorDocs
  <1>5. QED
    BY <1>1, <1>2, <1>3, <1>4 DEF EditorDocs, Nothing

\* The editor's own steps.
LEMMA DocEditor ==
    ASSUME VersionInv, ServerDoc, EditorDocs,
           \/ \E patch \in StylePatches : EditStyle(patch)
           \/ Enqueue \/ FlushStyle \/ Send \/ LosePatch \/ HandleReply \/ Load \/ Adopt
           \/ ReadWords \/ EndReload \/ HandleGenerated
    PROVE  EditorDocs'
  <1>1. EditorRecord(editor) /\ editor.chain \in Seq(Seq(OpType)) /\ <<>> \in Seq(Word)
    BY DEF VersionInv, Shaped, EditorDocs
  <1>2. ASSUME NEW patch \in StylePatches, EditStyle(patch) PROVE EditorDocs'
    <2>1. PICK pending \in PatchType : pending = MergeStylePatch(editor.pending, patch)
      BY PendingTyped
    <2>2. editor' = [editor EXCEPT !.pending = pending]
      BY <1>2, <2>1 DEF EditStyle
    <2>3. /\ editor'.view = editor.view /\ editor'.call = editor.call
          /\ editor'.loading = editor.loading /\ editor'.pending = pending
          /\ editor'.chain = editor.chain /\ editor'.words = editor.words
          /\ editor'.reloads = editor.reloads /\ editor'.generated = editor.generated
      BY <1>1, <2>2 DEF EditorRecord
    <2>4. QED
      BY <2>3, EditorKeeps
  <1>3. CASE Enqueue
    <2>1. PICK op \in OpType : editor' = [editor EXCEPT !.pending = NoStyle,
                                   !.chain = Append(editor.chain, Append(PendingOps, op))]
      BY <1>3, OperationsTyped DEF Enqueue, EditorDocs, ViewTyped
    <2>2. PICK ops \in Seq(OpType) : ops = Append(PendingOps, op)
      BY PendingTyped, AppendProperties
    <2>3. PICK chain \in Seq(Seq(OpType)) : chain = Append(editor.chain, ops) /\ chain # <<>>
      <3>1. PICK S, before : S = Seq(OpType) /\ before = editor.chain /\ before \in Seq(S)
        BY <1>1
      <3>2. PICK after : after = Append(before, ops)
        OBVIOUS
      <3>3. ops \in S
        BY <2>2, <3>1
      <3>4. after \in Seq(S) /\ after # <<>>
        BY <3>1, <3>2, <3>3, AppendProperties
      <3>5. QED
        BY <3>1, <3>2, <3>4
    <2>4. editor' = [editor EXCEPT !.pending = NoStyle, !.chain = chain]
      BY <2>1, <2>2, <2>3
    <2>5. /\ editor'.view = editor.view /\ editor'.call = editor.call
          /\ editor'.loading = editor.loading /\ editor'.pending = NoStyle
          /\ editor'.chain = chain /\ editor'.words = editor.words
          /\ editor'.reloads = editor.reloads /\ editor'.generated = editor.generated
      BY <1>1, <2>4 DEF EditorRecord
    <2>6. QED
      BY <2>3, <2>5, EditorKeeps
  <1>4. CASE FlushStyle
    <2>1. PICK ops \in Seq(OpType) : ops = PendingOps
      BY PendingTyped
    <2>2. PICK chain \in Seq(Seq(OpType)) : chain = Append(editor.chain, ops) /\ chain # <<>>
      <3>1. PICK S, before : S = Seq(OpType) /\ before = editor.chain /\ before \in Seq(S)
        BY <1>1
      <3>2. PICK after : after = Append(before, ops)
        OBVIOUS
      <3>3. ops \in S
        BY <2>1, <3>1
      <3>4. after \in Seq(S) /\ after # <<>>
        BY <3>1, <3>2, <3>3, AppendProperties
      <3>5. QED
        BY <3>1, <3>2, <3>4
    <2>3. editor' = [editor EXCEPT !.pending = NoStyle, !.chain = chain]
      BY <1>4, <2>1, <2>2 DEF FlushStyle
    <2>4. /\ editor'.view = editor.view /\ editor'.call = editor.call
          /\ editor'.loading = editor.loading /\ editor'.pending = NoStyle
          /\ editor'.chain = chain /\ editor'.words = editor.words
          /\ editor'.reloads = editor.reloads /\ editor'.generated = editor.generated
      BY <1>1, <2>3 DEF EditorRecord
    <2>5. QED
      BY <2>2, <2>4, EditorKeeps
  <1>5. CASE Send \/ LosePatch
    <2>1. PICK call : call.pc \in {"sent", "failed"} /\ editor' = [editor EXCEPT !.call = call]
      <3>1. PICK sent : sent = [NoCall EXCEPT !.pc = "sent", !.expects = editor.version]
        OBVIOUS
      <3>2. PICK lost : lost = [NoCall EXCEPT !.pc = "failed"]
        OBVIOUS
      <3>3. sent.pc = "sent" /\ lost.pc = "failed"
        BY <3>1, <3>2 DEF NoCall
      <3>4. editor' = [editor EXCEPT !.call = sent] \/ editor' = [editor EXCEPT !.call = lost]
        BY <1>5, <3>1, <3>2 DEF Send, LosePatch
      <3>5. QED
        BY <3>3, <3>4
    <2>2. editor.chain # <<>>
      BY <1>5 DEF Send, LosePatch, EditorDocs
    <2>3. /\ editor'.view = editor.view /\ editor'.call = call
          /\ editor'.loading = editor.loading /\ editor'.pending = editor.pending
          /\ editor'.chain = editor.chain /\ editor'.words = editor.words
          /\ editor'.reloads = editor.reloads /\ editor'.generated = editor.generated
      BY <1>1, <2>1 DEF EditorRecord
    <2>4. QED
      BY <2>1, <2>2, <2>3, EditorKeeps
  <1>6. CASE HandleReply
    <2>1. editor.chain # <<>>
      BY <1>6 DEF HandleReply, EditorDocs
    <2>2. Tail(editor.chain) \in Seq(Seq(OpType))
      BY <1>1, <2>1, HeadTailProperties
    <2>3. editor.call.pc = "answered" => ViewTyped(editor.call.reply.view)
      BY DEF EditorDocs
    <2>4. editor'.view = editor.view \/ ViewTyped(editor'.view)
      BY <1>1, <1>6, <2>3, ReplyDoes
    <2>5. editor'.reloads = editor.reloads \/ editor'.reloads \in Seq(Request)
      BY <1>1, <1>6, <2>3, ReplyDoes, AskedTyped
    <2>6. NoCall.pc = "none"
      BY DEF NoCall
    <2>7. QED
      BY <1>1, <1>6, <2>2, <2>4, <2>5, <2>6, ReplyDoes, EditorKeeps
  <1>7. CASE Load
    <2>1. PICK answer : answer = Answer(project.version, project.doc, project.doc.pages)
      OBVIOUS
    <2>2. /\ editor'.view = editor.view /\ editor'.call = editor.call
          /\ editor'.loading = answer /\ editor'.pending = editor.pending
          /\ editor'.chain = editor.chain /\ editor'.words = editor.words
          /\ editor'.reloads = editor.reloads /\ editor'.generated = editor.generated
      BY <1>1, <1>7, <2>1 DEF EditorRecord, Load
    <2>3. ViewTyped(answer.view)
      BY <2>1, AnswerIs, ViewsTyped DEF ServerDoc, Good
    <2>4. QED
      BY <2>2, <2>3, EditorKeeps
  <1>8. CASE Adopt
    <2>1. ViewTyped(editor.loading.view)
      BY <1>8 DEF Adopt, EditorDocs
    <2>2. editor'.reloads = editor.reloads \/ editor'.reloads \in Seq(Request)
      BY <1>1, <1>8, <2>1, AdoptDoes, AskedTyped
    <2>3. QED
      BY <1>1, <1>8, <2>1, <2>2, AdoptDoes, EditorKeeps
  <1>9. CASE ReadWords \/ EndReload
    BY <1>1, <1>9, WordsDo, WordsTyped, EditorKeeps
  <1>10. CASE HandleGenerated
    <2>1. ViewTyped(editor.generated.view)
      BY <1>10 DEF HandleGenerated, EditorDocs
    <2>2. QED
      BY <1>1, <1>10, <2>1, GeneratedDoes, EditorKeeps
  <1>11. QED
    BY <1>2, <1>3, <1>4, <1>5, <1>6, <1>7, <1>8, <1>9, <1>10

\* The server's side of the editor's request.
LEMMA DocServer ==
    ASSUME VersionInv, ServerDoc, EditorDocs, ServePatch
    PROVE  ServerDoc' /\ EditorDocs'
  <1>1. PICK ops : ops = Head(editor.chain)
    OBVIOUS
  <1>2. PICK out, conflict :
          /\ out = Outcome(ops)
          /\ \/ /\ ApplyPatch(out)
                /\ editor' = [editor EXCEPT !.call.pc = "answered",
                      !.call.reply = Answer(NextVersion(project.doc, out.doc), out.doc, out.doc.pages)]
             \/ /\ editor' = [editor EXCEPT !.call.pc = IF conflict THEN "conflict" ELSE "failed"]
                /\ UNCHANGED <<project, revisions, fresh>>
    BY <1>1 DEF ServePatch
  <1>3. EditorRecord(editor) /\ editor.chain # <<>> /\ editor.chain \in Seq(Seq(OpType))
    BY DEF ServePatch, VersionInv, Shaped, EditorDocs
  <1>4. ops \in Seq(OpType)
    BY <1>1, <1>3, HeadTailProperties
  <1>5. Proposed(out)
    BY <1>2, <1>4, OutcomeIs
  <1>6. PICK answer : answer = Answer(NextVersion(project.doc, out.doc), out.doc, out.doc.pages)
    OBVIOUS
  <1>7. CASE /\ ApplyPatch(out)
             /\ editor' = [editor EXCEPT !.call.pc = "answered", !.call.reply = answer]
    <2>1. ServerDoc'
      BY <1>5, <1>7, ServerWrites
    <2>2. /\ editor'.view = editor.view /\ editor'.loading = editor.loading
          /\ editor'.pending = editor.pending /\ editor'.chain = editor.chain
          /\ editor'.words = editor.words /\ editor'.reloads = editor.reloads
          /\ editor'.generated = editor.generated
          /\ editor'.call.pc = "answered" /\ editor'.call.reply = answer
      BY <1>3, <1>7 DEF EditorRecord, CallRecord
    <2>3. ViewTyped(answer.view)
      BY <1>5, <1>6, AnswerIs, ViewsTyped DEF Proposed, Good
    <2>4. QED
      BY <1>3, <2>1, <2>2, <2>3, EditorKeeps
  <1>8. CASE /\ editor' = [editor EXCEPT !.call.pc = IF conflict THEN "conflict" ELSE "failed"]
             /\ UNCHANGED <<project, revisions, fresh>>
    <2>1. /\ editor'.view = editor.view /\ editor'.loading = editor.loading
          /\ editor'.pending = editor.pending /\ editor'.chain = editor.chain
          /\ editor'.words = editor.words /\ editor'.reloads = editor.reloads
          /\ editor'.generated = editor.generated
          /\ editor'.call.pc \in {"conflict", "failed"}
      BY <1>3, <1>8 DEF EditorRecord, CallRecord
    <2>2. EditorDocs'
      BY <1>3, <2>1, EditorKeeps
    <2>3. ServerDoc'
      BY <1>8 DEF ServerDoc
    <2>4. QED
      BY <2>2, <2>3
  <1>9. QED
    BY <1>2, <1>6, <1>7, <1>8

\* What a client may do that sees the current project.
LEMMA ServerOperations ==
    ASSUME ServerDoc
    PROVE  Operations(project.doc.words, project.doc.pages) \subseteq OpType
  <1>1. Current(project.doc) /\ project.doc.words \in Seq(Word)
    BY DEF ServerDoc, Good, Current, Docs
  <1>2. ViewTyped(View(project.doc, project.doc.pages))
    BY <1>1, ViewsTyped DEF Views
  <1>3. \A p \in DOMAIN project.doc.pages : project.doc.pages[p].id \in PageId
    BY <1>2 DEF View, ViewTyped
  <1>4. QED
    BY <1>1, <1>3, OperationsTyped

\* Another client's patch.
LEMMA DocOther == ASSUME ServerDoc, OtherPatches PROVE ServerDoc'
  <1>1. PICK op \in Operations(project.doc.words, project.doc.pages)
                    \cup {StyleOp(patch) : patch \in StylePatches} :
           ApplyPatch(Outcome(<<op>>))
    BY DEF OtherPatches
  <1>2. op \in OpType
    <2>1. CASE op \in Operations(project.doc.words, project.doc.pages)
      BY <2>1, ServerOperations
    <2>2. CASE op \in {StyleOp(patch) : patch \in StylePatches}
      BY <2>2, StylesTyped DEF StyleOp, OpType
    <2>3. QED
      BY <2>1, <2>2
  <1>3. PICK ops \in Seq(OpType) : ops = <<op>>
    <2>1. <<op>> \in Seq(OpType)
      BY <1>2
    <2>2. QED
      BY <2>1
  <1>4. PICK out : out = Outcome(ops)
    OBVIOUS
  <1>5. Proposed(out) /\ ApplyPatch(out)
    BY <1>1, <1>3, <1>4, OutcomeIs
  <1>6. QED
    BY <1>5, ServerWrites

\* The words that a generation commits, under new ids.
LEMMA NamedWords ==
    ASSUME NEW raw \in Raw, NEW words, words = NormalizeWords(raw, Duration), fresh \in Nat \ {0},
           NEW named, named = [k \in DOMAIN words |-> [words[k] EXCEPT !.id = fresh + k - 1]]
    PROVE  /\ named \in Seq(Word) /\ Lasting(named) /\ Len(words) \in Nat
           /\ UniqueIds(named, fresh + Len(words))
  <1>1. words \in Seq(Word) /\ Lasting(words)
    BY NormalizedWords DEF Ordered
  <1>2. PICK n \in Nat : n = Len(words) /\ DOMAIN words = 1..n
    BY <1>1
  <1>3. ASSUME NEW k \in 1..n
        PROVE  /\ named[k] \in Word /\ named[k].start = words[k].start
               /\ named[k].end = words[k].end /\ named[k].id = fresh + k - 1
    <2>1. PICK word \in Word : word = words[k]
      BY <1>1, <1>2
    <2>2. PICK id \in Nat : id = fresh + k - 1
      OBVIOUS
    <2>3. named[k] = [word EXCEPT !.id = id]
      BY <1>2, <2>1, <2>2
    <2>4. [word EXCEPT !.id = id] \in Word
      BY DEF Word
    <2>5. /\ [word EXCEPT !.id = id].start = word.start /\ [word EXCEPT !.id = id].end = word.end
          /\ [word EXCEPT !.id = id].id = id
      BY DEF Word
    <2>6. QED
      BY <2>1, <2>2, <2>3, <2>4, <2>5
  <1>4. named \in [1..n -> Word]
    BY <1>2, <1>3
  <1>5. named \in Seq(Word) /\ Len(named) = n
    BY <1>4
  <1>6. Lasting(named)
    BY <1>1, <1>2, <1>3, <1>5 DEF Lasting
  <1>7. UniqueIds(named, fresh + n)
    <2>1. ASSUME NEW j \in 1..n, NEW k \in 1..n
          PROVE  /\ named[j].id \in 1 .. (fresh + n) - 1
                 /\ named[j].id = named[k].id => j = k
      <3>1. fresh + j - 1 \in 1 .. (fresh + n) - 1 /\ (fresh + j - 1 = fresh + k - 1 => j = k)
        BY SMTT(30)
      <3>2. QED
        BY <1>3, <3>1
    <2>2. QED
      BY <1>5, <2>1 DEF UniqueIds
  <1>8. QED
    BY <1>2, <1>5, <1>6, <1>7

\* A generation's commit.
LEMMA DocGenerated ==
    ASSUME VersionInv, ServerDoc, TaskStyle, CommitGeneration
    PROVE  ServerDoc'
  <1>1. CASE ~Unchanged /\ UNCHANGED <<project, revisions, fresh>>
    BY <1>1 DEF ServerDoc
  <1>2. CASE Unchanged /\ revisions' = revisions + 1 /\
             \E raw \in Raw :
                LET words == NormalizeWords(raw, Duration)
                    style == GeneratedStyle(worker.read.doc.style)
                    named == [k \in DOMAIN words |-> [words[k] EXCEPT !.id = fresh + k - 1]]
                IN  /\ CommitEdit(NewDocument(named, style, LimitsOf[style.lines], revisions + 1),
                                  "captioned")
                    /\ fresh' = fresh + Len(words)
    <2>1. PICK raw, words, named, style :
             /\ raw \in Raw
             /\ words = NormalizeWords(raw, Duration)
             /\ style = GeneratedStyle(worker.read.doc.style)
             /\ named = [k \in DOMAIN words |-> [words[k] EXCEPT !.id = fresh + k - 1]]
             /\ CommitEdit(NewDocument(named, style, LimitsOf[style.lines], revisions + 1),
                           "captioned")
             /\ fresh' = fresh + Len(words)
      BY <1>2
    <2>2. /\ named \in Seq(Word) /\ Lasting(named) /\ Len(words) \in Nat
          /\ UniqueIds(named, fresh + Len(words))
      BY <2>1, NamedWords DEF ServerDoc
    <2>3. style \in StyleType
      <3>1. worker.read.doc = project.doc
        BY <1>2 DEF VersionInv, KnowsAll, Unchanged
      <3>2. project.doc.style \in StyleType
        BY DEF ServerDoc, Good, Current, Docs
      <3>3. QED
        BY <2>1, <3>1, <3>2, StylesTyped DEF GeneratedStyle, TaskStyle
    <2>4. PICK next \in Nat : next = revisions + 1
      BY DEF ServerDoc
    <2>5. PICK doc : doc = NewDocument(named, style, LimitsOf[style.lines], next)
      OBVIOUS
    <2>6. /\ Current(doc) /\ doc.words = named /\ doc.revision = next
          /\ doc.breaks = {} /\ doc.joins = {}
      BY <2>2, <2>3, <2>4, <2>5, LimitsTyped, NewDocumentIsCurrent, NewDocumentIs
    <2>7. project'.doc = doc
      BY <2>1, <2>4, <2>5, CommitDoes
    <2>8. Good(project'.doc)
      BY <2>2, <2>6, <2>7 DEF Good
    <2>9. fresh' \in Nat \ {0} /\ revisions' \in Nat
      BY <1>2, <2>1, <2>2, <2>4 DEF ServerDoc
    <2>10. Tidy(project'.doc, fresh')
      BY <2>1, <2>2, <2>6, <2>7 DEF Tidy
    <2>11. project'.doc.revision \in 0..revisions'
      BY <1>2, <2>4, <2>6, <2>7
    <2>12. QED
      BY <2>8, <2>9, <2>10, <2>11 DEF ServerDoc
  <1>3. QED
    BY <1>1, <1>2 DEF CommitGeneration

\* What the task asks for.
LEMMA DocTask ==
    ASSUME TaskStyle,
           \/ UNCHANGED task \/ (\E preset \in Styles \cup {NoStyle} : StartGeneration(preset))
           \/ CancelGeneration \/ Claim \/ EndAttempt \/ Reclaim
    PROVE  TaskStyle'
  <1>1. TaskRecord(task)
    BY DEF TaskStyle
  <1>2. CASE UNCHANGED task
    BY <1>2 DEF TaskStyle
  <1>3. ASSUME NEW preset \in Styles \cup {NoStyle}, StartGeneration(preset) PROVE TaskStyle'
    BY <1>3 DEF StartGeneration, TaskStyle, TaskRecord
  <1>4. CASE CancelGeneration \/ Claim \/ EndAttempt \/ Reclaim
    <2>1. \/ \E status : task' = [task EXCEPT !.status = status]
          \/ task' = [task EXCEPT !.cancel = TRUE]
          \/ \E status, attempts : task' = [task EXCEPT !.status = status, !.attempts = attempts]
      <3>1. CASE CancelGeneration
        BY <3>1 DEF CancelGeneration
      <3>2. CASE Claim
        BY <3>2 DEF Claim
      <3>3. CASE EndAttempt
        BY <3>3 DEF EndAttempt
      <3>4. CASE Reclaim
        BY <3>4 DEF Reclaim
      <3>5. QED
        BY <1>4, <3>1, <3>2, <3>3, <3>4
    <2>2. TaskRecord(task') /\ task'.preset = task.preset
      BY <1>1, <2>1 DEF TaskRecord
    <2>3. QED
      BY <2>2 DEF TaskStyle
  <1>5. QED
    BY <1>2, <1>3, <1>4

\* What the start of a generation leaves of the editor.
LEMMA GenerationLeaves ==
    ASSUME EditorRecord(editor), NEW preset, GenerateElsewhere(preset) \/ GenerateHere(preset)
    PROVE  /\ editor'.view = editor.view /\ editor'.call = editor.call
           /\ editor'.loading = editor.loading /\ editor'.pending = editor.pending
           /\ editor'.chain = editor.chain /\ editor'.words = editor.words
           /\ editor'.reloads = editor.reloads
           /\ editor'.generated \in {editor.generated, Answer(project.version, project.doc, <<>>)}
  <1>1. PICK answer : answer = Answer(project.version, project.doc, <<>>)
    OBVIOUS
  <1>2. editor' = editor \/ editor' = [editor EXCEPT !.generated = answer]
    BY <1>1 DEF GenerateElsewhere, GenerateHere
  <1>3. QED
    BY <1>1, <1>2 DEF EditorRecord

LEMMA GenerationDocs ==
    ASSUME VersionInv, ServerDoc, EditorDocs, NEW preset, GenerateElsewhere(preset) \/ GenerateHere(preset)
    PROVE  EditorDocs'
  <1>1. EditorRecord(editor)
    BY DEF VersionInv, Shaped
  <1>2. ViewTyped(Answer(project.version, project.doc, <<>>).view)
    BY AnswerIs, ViewsTyped DEF ServerDoc, Good
  <1>3. QED
    BY <1>1, <1>2, GenerationLeaves, EditorKeeps

LEMMA DocStep == VersionInv /\ DocInv /\ [Next]_vars => DocInv'
  <1> SUFFICES ASSUME VersionInv, DocInv, [Next]_vars PROVE DocInv'
    OBVIOUS
  <1>1. ServerDoc /\ EditorDocs /\ TaskStyle
    BY DEF DocInv
  <1>2. CASE UNCHANGED vars
    BY <1>2 DEF vars, DocInv, ServerDoc, EditorDocs, TaskStyle
  <1>3. CASE OtherPatches
    <2>1. ServerDoc'
      BY <1>1, <1>3, DocOther
    <2>2. EditorDocs' /\ TaskStyle'
      BY <1>1, <1>3 DEF OtherPatches, EditorDocs, TaskStyle
    <2>3. QED
      BY <2>1, <2>2 DEF DocInv
  <1>4. CASE \/ \E patch \in StylePatches : EditStyle(patch)
             \/ Enqueue \/ FlushStyle \/ Send \/ LosePatch \/ HandleReply \/ Load \/ Adopt
             \/ ReadWords \/ EndReload \/ HandleGenerated
    <2>1. EditorDocs'
      BY <1>1, <1>4, DocEditor
    <2>2. UNCHANGED <<project, revisions, fresh, task>>
      BY <1>4 DEF EditStyle, Enqueue, FlushStyle, Send, LosePatch, HandleReply, Load, Adopt,
                  ReadWords, EndReload, HandleGenerated
    <2>3. ServerDoc' /\ TaskStyle'
      BY <1>1, <2>2 DEF ServerDoc, TaskStyle
    <2>4. QED
      BY <2>1, <2>3 DEF DocInv
  <1>5. CASE ServePatch
    <2>1. ServerDoc' /\ EditorDocs'
      BY <1>1, <1>5, DocServer
    <2>2. TaskStyle'
      BY <1>1, <1>5 DEF ServePatch, TaskStyle
    <2>3. QED
      BY <2>1, <2>2 DEF DocInv
  <1>6. CASE CommitGeneration
    <2>1. ServerDoc'
      BY <1>1, <1>6, DocGenerated
    <2>2. EditorDocs' /\ TaskStyle'
      BY <1>1, <1>6 DEF CommitGeneration, EditorDocs, TaskStyle
    <2>3. QED
      BY <2>1, <2>2 DEF DocInv
  <1>7. ASSUME NEW preset \in Styles \cup {NoStyle}, GenerateElsewhere(preset) \/ GenerateHere(preset)
        PROVE  DocInv'
    <2>1. StartGeneration(preset) /\ UNCHANGED <<revisions, fresh>>
      BY <1>7 DEF GenerateElsewhere, GenerateHere, StartGeneration
    <2>2. project'.doc = project.doc
      BY <2>1 DEF StartGeneration, VersionInv, Shaped, ProjectRecord
    <2>3. ServerDoc' /\ TaskStyle'
      BY <1>1, <2>1, <2>2, DocTask DEF ServerDoc
    <2>4. EditorDocs'
      BY <1>1, <1>7, GenerationDocs
    <2>5. QED
      BY <2>3, <2>4 DEF DocInv
  <1>8. CASE \/ CancelGeneration \/ Claim \/ Transcribe \/ ReadProject \/ CatchGeneration
             \/ EndAttempt \/ Crash \/ Reclaim
    <2>1. TaskStyle'
      BY <1>1, <1>8, DocTask DEF Transcribe, ReadProject, CatchGeneration, Crash
    <2>2. UNCHANGED <<editor, revisions, fresh>>
      BY <1>8 DEF CancelGeneration, Claim, Transcribe, ReadProject,
               CatchGeneration, EndAttempt, Crash, Reclaim
    <2>3. project'.doc = project.doc
      <3>1. CASE UNCHANGED project
        BY <3>1
      <3>2. CASE CatchGeneration
        BY <3>2 DEF CatchGeneration, VersionInv, Shaped, ProjectRecord
      <3>3. QED
        BY <1>8, <3>1, <3>2 DEF CancelGeneration, Claim, Transcribe, ReadProject,
                                      EndAttempt, Crash, Reclaim
    <2>4. EditorDocs' /\ ServerDoc'
      BY <1>1, <2>2, <2>3 DEF EditorDocs, ServerDoc
    <2>5. QED
      BY <2>1, <2>4 DEF DocInv
  <1>9. QED
    BY <1>2, <1>3, <1>4, <1>5, <1>6, <1>7, <1>8 DEF Next

LEMMA DocInvariant == Spec => []DocInv
  BY DocInitially, DocStep, VersionInvariant, PTL DEF Spec

\* Pages are always derived from the words, the limits and the manual constraints:
\* whoever writes the document, a client's patch or a generation, stores the pages
\* that these give (state.ts).
THEOREM PagesDerived == Spec => PagesNeverDrift
  <1>1. ASSUME NEW doc, Current(doc) PROVE doc.pages = Resegmented(doc).pages
    <2>1. PICK pages : pages = PagesOf(doc.words, doc.limits, doc.breaks, doc.joins, doc.revision)
      OBVIOUS
    <2>2. Resegmented(doc) = [doc EXCEPT !.breaks = doc.breaks \cap Ids(doc.words),
                                         !.joins = doc.joins \cap Ids(doc.words), !.pages = pages]
      BY <2>1 DEF Resegmented
    <2>3. Resegmented(doc).pages = pages
      BY <1>1, <2>2 DEF Current, Docs
    <2>4. QED
      BY <1>1, <2>1, <2>3 DEF Current
  <1>2. DocInv' => (project'.doc # project.doc => project'.doc.pages = Resegmented(project'.doc).pages)
    BY <1>1 DEF DocInv, ServerDoc, Good
  <1>3. QED
    BY <1>2, DocInvariant, PTL DEF PagesNeverDrift

\* Every word of the transcript is on exactly one page and on exactly one line of it, in
\* order (segmentation.ts, lines.ts, qa.ts), and no page is stretched beyond the next
\* one's start, whatever was patched and generated, and whatever became of the times.
\* That pages do not overlap at all is not said: several tokens that replace a short
\* word take at least a millisecond each and may run over the next word (patch.ts).
THEOREM AlwaysFaithful == Spec => []CaptionFidelity
  <1>1. DocInv => CaptionFidelity
    BY CurrentTiles DEF DocInv, ServerDoc, Good, CaptionFidelity
  <1>2. QED
    BY <1>1, DocInvariant, PTL

\* A word that must start a page does and one that may not does not (state.ts), after
\* any patches and generations, wherever any paging can do so: the dynamic program
\* finds a cut for every boundary of such a paging and keeps no other than lawful ones.
THEOREM ConstraintsKept == Spec => []ConstraintsHonoured
  <1>1. DocInv => ConstraintsHonoured
    <2> SUFFICES ASSUME DocInv PROVE ConstraintsHonoured
      OBVIOUS
    <2>1. PICK doc : doc = project.doc
      OBVIOUS
    <2>2. Current(doc)
      BY <2>1 DEF DocInv, ServerDoc, Good
    <2>3. /\ doc.words \in Seq(Word) /\ doc.limits \in Limits
          /\ doc.pages = PagesOf(doc.words, doc.limits, doc.breaks, doc.joins, doc.revision)
      BY <2>2 DEF Current, Docs
    <2>4. PICK forced : forced = Forced(doc.words, doc.breaks)
      OBVIOUS
    <2>5. PICK forbidden : forbidden = Forbidden(doc.words, doc.breaks, doc.joins)
      OBVIOUS
    <2>6. PICK starts : starts = {doc.pages[p].from : p \in DOMAIN doc.pages}
      OBVIOUS
    <2>7. ASSUME doc.words # <<>>, Feasible(Len(doc.words), doc.limits.words, forced, forbidden)
          PROVE  /\ forced \subseteq starts /\ starts \cap forbidden = {}
                 /\ \A p \in DOMAIN doc.pages : doc.pages[p].manual <=> doc.pages[p].from \in forced
      <3>1. /\ \A b \in forced : \E p \in DOMAIN doc.pages : doc.pages[p].from = b
            /\ \A p \in DOMAIN doc.pages : doc.pages[p].from \notin forbidden
            /\ \A p \in DOMAIN doc.pages : doc.pages[p].manual <=> doc.pages[p].from \in forced
        BY <2>3, <2>4, <2>5, <2>7, PagesLawful
      <3>2. forced \subseteq starts /\ starts \cap forbidden = {}
        BY <2>6, <3>1
      <3>3. QED
        BY <3>1, <3>2
    <2>8. QED
      BY <2>1, <2>4, <2>5, <2>6, <2>7 DEF ConstraintsHonoured
  <1>2. QED
    BY <1>1, DocInvariant, PTL
-----------------------------------------------------------------------------
(* How often the document is written.                                      *)

Kinds == {"style", "delete", "generate", "replace", "timing", "insert", "split", "merge",
          "resegment", "preset"}

\* The ranges that the type invariant names, and a task that was claimed as often as
\* it may be is not queued again.
Ranges ==
    /\ effort \in Nat
    /\ project.status \in {"ready", "transcribing", "captioned"}
    /\ editor.call.pc \in {"none", "sent", "answered", "conflict", "failed"}
    /\ task.status \in {"none", "queued", "running", "succeeded", "failed", "cancelled"}
    /\ task.number \in 0..MaxGenerations /\ task.attempts \in 0..GenerateAttempts
    /\ task.number = 0 => task.status = "none"
    /\ task.status = "queued" => task.attempts < GenerateAttempts
    /\ worker.pc \in {"idle", "work", "read", "commit", "done", "catch", "throw"}
    /\ worker.pc # "idle" => task.number # 0

\* What may still be written on account of what was done: the patches of the queue
\* that the server has not seen, the pending style, the generation under way.
Unserved ==
    IF editor.call.pc \in {"answered", "conflict", "failed"} THEN Len(editor.chain) - 1
    ELSE Len(editor.chain)
Owed == IF editor.pending = NoStyle THEN 0 ELSE 1
Generating == IF worker.pc \in {"work", "read", "commit"} THEN 1 ELSE 0

\* How often generations were claimed, those of earlier tasks at their most.
Claims == IF task.number = 0 THEN 0 ELSE (task.number - 1) * GenerateAttempts + task.attempts

\* Every version was paid for by an effort or a claim.
PaidFor == project.version + Unserved + Owed + Generating <= 1 + effort + Claims

LEMMA SpendGrows ==
    ASSUME effort \in Nat, NEW kind \in Kinds, Spend(kind)
    PROVE  effort' \in Nat /\ effort' >= effort + 1
  <1>1. Effort[kind] \in Nat \ {0}
    BY EffortAssumption DEF Kinds
  <1>2. PICK weight \in Nat \ {0} : weight = Effort[kind] /\ effort' = effort + weight
    BY <1>1 DEF Spend
  <1>3. QED
    BY <1>2

LEMMA KindsOfOperations == \A op \in OpType : op.op \in Kinds
  BY DEF OpType, Kinds

LEMMA Enqueued ==
    ASSUME DocInv, Enqueue, effort \in Nat
    PROVE  /\ effort' \in Nat /\ effort' >= effort + 1
           /\ \E ops : editor' = [editor EXCEPT !.pending = NoStyle, !.chain = Append(@, ops)]
  <1>1. PICK op \in OpType : Spend(op.op) /\ editor' = [editor EXCEPT !.pending = NoStyle,
                                   !.chain = Append(editor.chain, Append(PendingOps, op))]
    BY OperationsTyped DEF Enqueue, DocInv, EditorDocs, ViewTyped
  <1>2. op.op \in Kinds
    BY KindsOfOperations
  <1>3. effort' \in Nat /\ effort' >= effort + 1
    BY <1>1, <1>2, SpendGrows
  <1>4. QED
    BY <1>1, <1>3

LEMMA OthersPay ==
    ASSUME DocInv, OtherPatches, effort \in Nat
    PROVE  effort' \in Nat /\ effort' >= effort + 1 /\ NewVersion /\ project'.status = project.status
  <1>1. PICK op \in Operations(project.doc.words, project.doc.pages)
                    \cup {StyleOp(patch) : patch \in StylePatches} :
           Spend(op.op) /\ \E out : ApplyPatch(out)
    BY DEF OtherPatches
  <1>2. op.op \in Kinds
    <2>1. CASE op \in Operations(project.doc.words, project.doc.pages)
      <3>1. op \in OpType
        BY <2>1, ServerOperations DEF DocInv
      <3>2. QED
        BY <3>1, KindsOfOperations
    <2>2. CASE op \in {StyleOp(patch) : patch \in StylePatches}
      BY <2>2 DEF StyleOp, Kinds
    <2>3. QED
      BY <2>1, <2>2
  <1>3. NewVersion /\ project'.status = project.status
    BY <1>1, CommitDoes DEF ApplyPatch
  <1>4. QED
    BY <1>1, <1>2, <1>3, SpendGrows

\* The steps of the editor that leave its queue alone.
Settles == Load \/ Adopt \/ ReadWords \/ EndReload \/ HandleGenerated

LEMMA QueueRests ==
    ASSUME EditorRecord(editor), Settles
    PROVE  /\ editor'.chain = editor.chain /\ editor'.call = editor.call
           /\ editor'.pending \in {editor.pending, NoStyle}
           /\ UNCHANGED <<project, task, worker, effort>>
  <1>1. UNCHANGED <<project, task, worker, effort>>
    BY DEF Settles, Load, Adopt, ReadWords, EndReload, HandleGenerated
  <1>2. CASE Load
    <2>1. PICK loading, waits : editor' = [editor EXCEPT !.loading = loading, !.conflict = FALSE,
                                                         !.waits = waits]
      BY <1>2 DEF Load
    <2>2. QED
      BY <1>1, <2>1 DEF EditorRecord
  <1>3. QED
    BY <1>1, <1>2, AdoptDoes, WordsDo, GeneratedDoes DEF Settles

LEMMA RangesInitially == Init => Ranges
  BY BoundsAssumption DEF Init, Ranges, NoCall

\* The steps of the editor and of other clients keep the ranges.
LEMMA RangesEditor ==
    ASSUME VersionInv, DocInv, Ranges,
           \/ OtherPatches \/ (\E patch \in StylePatches : EditStyle(patch))
           \/ Enqueue \/ FlushStyle \/ Send \/ ServePatch \/ LosePatch \/ HandleReply \/ Settles
    PROVE  Ranges'
  <1>1. EditorRecord(editor) /\ effort \in Nat
    BY DEF VersionInv, Shaped, Ranges
  <1>2. effort' \in Nat
    <2>1. ASSUME NEW patch \in StylePatches, EditStyle(patch) PROVE effort' \in Nat
      <3>1. "style" \in Kinds /\ Spend("style")
        BY <2>1 DEF Kinds, EditStyle
      <3>2. QED
        BY <1>1, <3>1, SpendGrows
    <2>2. CASE FlushStyle \/ Send \/ ServePatch \/ LosePatch \/ HandleReply \/ Settles
      BY <1>1, <2>2, QueueRests DEF FlushStyle, Send, ServePatch, LosePatch, HandleReply
    <2>3. QED
      BY <1>1, <2>1, <2>2, Enqueued, OthersPay
  <1>3. UNCHANGED <<task, worker>>
    BY <1>1, QueueRests DEF OtherPatches, EditStyle, Enqueue, FlushStyle, Send, ServePatch,
           LosePatch, HandleReply
  <1>4. project'.status = project.status
    <2>1. CASE ServePatch
      <3>1. PICK out : ApplyPatch(out) \/ UNCHANGED project
        BY <2>1 DEF ServePatch
      <3>2. QED
        BY <3>1, CommitDoes DEF ApplyPatch
    <2>2. CASE UNCHANGED project
      BY <2>2
    <2>3. QED
      BY <2>1, <2>2, OthersPay, QueueRests, <1>1 DEF EditStyle, Enqueue, FlushStyle, Send,
         LosePatch, HandleReply
  <1>5. editor'.call.pc \in {"none", "sent", "answered", "conflict", "failed"}
    <2>1. CASE OtherPatches \/ (\E patch \in StylePatches : EditStyle(patch)) \/ Enqueue \/ FlushStyle
                 \/ Settles
      <3>1. editor'.call = editor.call
        BY <1>1, <2>1, QueueRests DEF EditorRecord, OtherPatches, EditStyle, Enqueue, FlushStyle
      <3>2. QED
        BY <3>1 DEF Ranges
    <2>2. CASE Send \/ LosePatch \/ HandleReply
      <3>1. PICK sent : sent = [NoCall EXCEPT !.pc = "sent", !.expects = editor.version]
        OBVIOUS
      <3>2. PICK lost : lost = [NoCall EXCEPT !.pc = "failed"]
        OBVIOUS
      <3>3. sent.pc = "sent" /\ lost.pc = "failed" /\ NoCall.pc = "none"
        BY <3>1, <3>2 DEF NoCall
      <3>4. editor'.call \in {sent, lost, NoCall}
        BY <1>1, <2>2, <3>1, <3>2, ReplyDoes DEF EditorRecord, Send, LosePatch
      <3>5. QED
        BY <3>3, <3>4
    <2>3. CASE ServePatch
      <3>1. \/ \E reply : editor' = [editor EXCEPT !.call.pc = "answered", !.call.reply = reply]
            \/ editor' = [editor EXCEPT !.call.pc = "conflict"]
            \/ editor' = [editor EXCEPT !.call.pc = "failed"]
        BY <2>3 DEF ServePatch
      <3>2. QED
        BY <1>1, <3>1 DEF EditorRecord, CallRecord
    <2>4. QED
      BY <2>1, <2>2, <2>3
  <1>6. QED
    BY <1>2, <1>3, <1>4, <1>5 DEF Ranges

\* So do those of the generation.
LEMMA RangesGeneration ==
    ASSUME VersionInv, DocInv, Ranges,
           \/ \E preset : StartGeneration(preset) /\ (GenerateElsewhere(preset) \/ GenerateHere(preset))
           \/ CancelGeneration \/ Claim \/ Transcribe \/ ReadProject \/ CommitGeneration
           \/ CatchGeneration \/ EndAttempt \/ Crash \/ Reclaim
    PROVE  Ranges'
  <1>1. /\ ProjectRecord(project) /\ WorkerRecord(worker) /\ TaskRecord(task) /\ effort \in Nat
        /\ GenerateAttempts \in Nat \ {0} /\ MaxGenerations \in Nat
    BY BoundsAssumption DEF VersionInv, Shaped, Ranges, DocInv, TaskStyle
  <1>2. editor'.call = editor.call
    BY GenerationLeaves DEF VersionInv, Shaped, CancelGeneration, Claim, Transcribe, ReadProject,
       CommitGeneration, CatchGeneration, EndAttempt, Crash, Reclaim
  <1>3. effort' \in Nat
    <2>1. ASSUME NEW preset, StartGeneration(preset) PROVE effort' \in Nat
      <3>1. "generate" \in Kinds /\ Spend("generate")
        BY <2>1 DEF Kinds, StartGeneration
      <3>2. QED
        BY <1>1, <3>1, SpendGrows
    <2>2. QED
      BY <1>1, <2>1 DEF CancelGeneration, Claim, Transcribe, ReadProject, CommitGeneration,
         CatchGeneration, EndAttempt, Crash, Reclaim
  <1>4. project'.status \in {"ready", "transcribing", "captioned"}
    <2>1. CASE UNCHANGED project
      BY <2>1 DEF Ranges
    <2>2. ASSUME NEW preset, StartGeneration(preset) PROVE project'.status = "transcribing"
      BY <1>1, <2>2 DEF StartGeneration, ProjectRecord
    <2>3. CASE CatchGeneration
      BY <1>1, <2>3 DEF CatchGeneration, ProjectRecord, Ranges
    <2>4. CASE CommitGeneration
      <3>1. (\E doc : CommitEdit(doc, "captioned")) \/ UNCHANGED project
        BY <2>4 DEF CommitGeneration
      <3>2. QED
        BY <2>1, <3>1, CommitDoes
    <2>5. QED
      BY <2>1, <2>2, <2>3, <2>4 DEF CancelGeneration, Claim, Transcribe, ReadProject, EndAttempt,
         Crash, Reclaim
  <1>5. worker'.pc \in {"idle", "work", "read", "commit", "done", "catch", "throw"}
    <2>1. CASE UNCHANGED worker
      BY <2>1 DEF Ranges
    <2>2. CASE Claim \/ EndAttempt \/ Crash \/ ReadProject
      <3>1. Idle.pc = "idle" /\ [Idle EXCEPT !.pc = "work"].pc = "work"
        BY DEF Idle
      <3>2. CASE ReadProject
        BY <1>1, <3>2 DEF ReadProject, WorkerRecord
      <3>3. QED
        BY <2>2, <3>1, <3>2 DEF Claim, EndAttempt, Crash
    <2>3. CASE Transcribe \/ CommitGeneration \/ CatchGeneration
      BY <2>3 DEF Transcribe, CommitGeneration, CatchGeneration, At, Idle, Fails
    <2>4. QED
      BY <2>1, <2>2, <2>3 DEF StartGeneration, CancelGeneration, Reclaim
  <1>6. /\ task'.status \in {"none", "queued", "running", "succeeded", "failed", "cancelled"}
        /\ task'.number \in 0..MaxGenerations /\ task'.attempts \in 0..GenerateAttempts
        /\ task'.number = 0 => task'.status = "none"
        /\ task'.status = "queued" => task'.attempts < GenerateAttempts
    <2>1. CASE UNCHANGED task
      BY <2>1 DEF Ranges
    <2>2. ASSUME NEW preset, StartGeneration(preset)
          PROVE  /\ task'.status = "queued" /\ task'.attempts = 0
                 /\ task'.number = task.number + 1 /\ task.number < MaxGenerations
      BY <2>2 DEF StartGeneration
    <2>3. CASE Claim
      <3>1. /\ task'.status = "running" /\ task'.attempts = task.attempts + 1
            /\ task'.number = task.number /\ task.status = "queued"
        BY <1>1, <2>3 DEF Claim, TaskRecord
      <3>2. QED
        BY <1>1, <3>1 DEF Ranges
    <2>4. CASE CancelGeneration \/ EndAttempt \/ Reclaim
      <3>1. task.number # 0
        BY <2>4 DEF CancelGeneration, EndAttempt, Reclaim, Active, Ranges
      <3>2. \/ task' = [task EXCEPT !.cancel = TRUE]
            \/ \E status \in {"succeeded", "failed", "cancelled"} :
                  task' = [task EXCEPT !.status = status]
            \/ task' = [task EXCEPT !.status = "queued"] /\ task.attempts < GenerateAttempts
        <4>1. CASE CancelGeneration
          BY <4>1 DEF CancelGeneration
        <4>2. CASE EndAttempt
          BY <4>2 DEF EndAttempt
        <4>3. CASE Reclaim
          BY <4>3 DEF Reclaim
        <4>4. QED
          BY <2>4, <4>1, <4>2, <4>3
      <3>3. /\ task'.attempts = task.attempts /\ task'.number = task.number
            /\ \/ task'.status \in {task.status, "succeeded", "failed", "cancelled"}
               \/ task'.status = "queued" /\ task.attempts < GenerateAttempts
        BY <1>1, <3>2 DEF TaskRecord
      <3>4. QED
        BY <3>1, <3>3 DEF Ranges
    <2>5. CASE Transcribe \/ ReadProject \/ CommitGeneration \/ CatchGeneration \/ Crash
      BY <2>1, <2>5 DEF Transcribe, ReadProject, CommitGeneration, CatchGeneration, Crash
    <2>6. CASE \E preset : StartGeneration(preset)
      <3>1. /\ task'.status = "queued" /\ task'.attempts = 0
            /\ task'.number = task.number + 1 /\ task.number < MaxGenerations
        BY <2>2, <2>6
      <3>2. QED
        BY <1>1, <3>1 DEF Ranges
    <2>7. QED
      BY <2>3, <2>4, <2>5, <2>6
  <1>7. worker'.pc # "idle" => task'.number # 0
    <2>1. CASE Claim
      BY <1>1, <2>1 DEF Claim, TaskRecord, Ranges
    <2>2. CASE CancelGeneration \/ Reclaim \/ EndAttempt
      BY <1>1, <2>2 DEF CancelGeneration, Reclaim, EndAttempt, TaskRecord, Ranges, Idle
    <2>3. ASSUME NEW preset, StartGeneration(preset) PROVE task'.number # 0
      BY <2>3 DEF StartGeneration, Ranges
    <2>4. CASE Transcribe \/ ReadProject \/ CommitGeneration \/ CatchGeneration \/ Crash
      <3>1. UNCHANGED task /\ worker.pc # "idle"
        BY <2>4 DEF Transcribe, ReadProject, CommitGeneration, CatchGeneration, Crash
      <3>2. QED
        BY <3>1 DEF Ranges
    <2>5. QED
      BY <2>1, <2>2, <2>3, <2>4
  <1>8. QED
    BY <1>2, <1>3, <1>4, <1>5, <1>6, <1>7 DEF Ranges
LEMMA CountTypes ==
    ASSUME VersionInv, DocInv, Ranges
    PROVE  /\ project.version \in Nat /\ Unserved \in Nat /\ Owed \in 0..1 /\ Generating \in 0..1
           /\ Claims \in Nat /\ effort \in Nat
  <1>1. project.version \in Nat /\ effort \in Nat
    BY DEF VersionInv, Ranges
  <1>2. Unserved \in Nat
    <2>1. Len(editor.chain) \in Nat /\ (editor.chain # <<>> => Len(editor.chain) > 0)
      BY DEF DocInv, EditorDocs
    <2>2. editor.call.pc # "none" => editor.chain # <<>>
      BY DEF DocInv, EditorDocs
    <2>3. QED
      BY <2>1, <2>2 DEF Unserved
  <1>3. Claims \in Nat
    <2>1. PICK number \in Nat, attempts \in Nat : number = task.number /\ attempts = task.attempts
      BY BoundsAssumption DEF Ranges
    <2>2. ASSUME number # 0 PROVE (number - 1) * GenerateAttempts \in Nat
      BY <2>2, BoundsAssumption
    <2>3. QED
      BY <2>1, <2>2 DEF Claims
  <1>4. QED
    BY <1>1, <1>2, <1>3 DEF Owed, Generating

\* A queue that grows by a patch has one more to serve, whatever the call is at.
LEMMA QueueGrows ==
    ASSUME DocInv, NEW ops, editor'.chain = Append(editor.chain, ops), editor'.call = editor.call
    PROVE  Unserved' = Unserved + 1
  <1>1. Len(Append(editor.chain, ops)) = Len(editor.chain) + 1 /\ Len(editor.chain) \in Nat
    BY DEF DocInv, EditorDocs
  <1>2. QED
    BY <1>1 DEF Unserved

\* The steps of the editor and of other clients.
LEMMA PaidByClients ==
    ASSUME VersionInv, DocInv, Ranges, PaidFor,
           \/ OtherPatches \/ (\E patch \in StylePatches : EditStyle(patch))
           \/ Enqueue \/ FlushStyle \/ Send \/ ServePatch \/ LosePatch \/ HandleReply \/ Settles
    PROVE  PaidFor'
  <1>1. /\ EditorRecord(editor) /\ editor.chain \in Seq(Seq(OpType)) /\ effort \in Nat
        /\ editor.call.pc # "none" => editor.chain # <<>>
    BY DEF VersionInv, Shaped, DocInv, EditorDocs, Ranges
  <1>2. /\ project.version \in Nat /\ Unserved \in Nat /\ Owed \in 0..1 /\ Generating \in 0..1
        /\ Claims \in Nat
    BY CountTypes
  <1>3. Claims' = Claims /\ Generating' = Generating
    <2>1. UNCHANGED <<task, worker>>
      BY <1>1, QueueRests DEF OtherPatches, EditStyle, Enqueue, FlushStyle, Send, ServePatch,
             LosePatch, HandleReply
    <2>2. QED
      BY <2>1 DEF Claims, Generating
  <1>4. CASE OtherPatches
    <2>1. Unserved' = Unserved /\ Owed' = Owed
      BY <1>4 DEF OtherPatches, Unserved, Owed
    <2>2. effort' \in Nat /\ effort' >= effort + 1 /\ project'.version = project.version + 1
      BY <1>1, <1>4, OthersPay DEF NewVersion
    <2>3. QED
      BY <1>1, <1>2, <1>3, <2>1, <2>2, SMTT(30) DEF PaidFor
  <1>5. ASSUME NEW patch \in StylePatches, EditStyle(patch) PROVE PaidFor'
    <2>1. editor'.chain = editor.chain /\ editor'.call = editor.call /\ project' = project
      BY <1>1, <1>5 DEF EditStyle, EditorRecord
    <2>2. Unserved' = Unserved /\ Owed' \in 0..1
      BY <2>1 DEF Unserved, Owed
    <2>3. effort' \in Nat /\ effort' >= effort + 1
      <3>1. "style" \in Kinds /\ Spend("style")
        BY <1>5 DEF Kinds, EditStyle
      <3>2. QED
        BY <1>1, <3>1, SpendGrows
    <2>4. QED
      BY <1>1, <1>2, <1>3, <2>1, <2>2, <2>3, SMTT(30) DEF PaidFor
  <1>6. CASE Enqueue
    <2>1. PICK ops : editor' = [editor EXCEPT !.pending = NoStyle, !.chain = Append(editor.chain, ops)]
      BY <1>1, <1>6, Enqueued
    <2>2. /\ editor'.chain = Append(editor.chain, ops) /\ editor'.call = editor.call
          /\ editor'.pending = NoStyle /\ project' = project
      BY <1>1, <1>6, <2>1 DEF EditorRecord, Enqueue
    <2>3. Unserved' = Unserved + 1 /\ Owed' = 0
      BY <2>2, QueueGrows DEF Owed
    <2>4. effort' \in Nat /\ effort' >= effort + 1
      BY <1>1, <1>6, Enqueued
    <2>5. QED
      BY <1>1, <1>2, <1>3, <2>2, <2>3, <2>4, SMTT(30) DEF PaidFor
  <1>7. CASE FlushStyle
    <2>1. /\ editor'.chain = Append(editor.chain, PendingOps) /\ editor'.call = editor.call
          /\ editor'.pending = NoStyle /\ editor.pending # NoStyle
          /\ project' = project /\ effort' = effort
      BY <1>1, <1>7 DEF EditorRecord, FlushStyle
    <2>2. Unserved' = Unserved + 1 /\ Owed' = 0 /\ Owed = 1
      BY <2>1, QueueGrows DEF Owed
    <2>3. QED
      BY <1>1, <1>2, <1>3, <2>1, <2>2, SMTT(30) DEF PaidFor
  <1>8. CASE Send \/ LosePatch
    <2>1. PICK pc : /\ editor'.call.pc = pc /\ editor'.chain = editor.chain
                    /\ editor'.pending = editor.pending
                    /\ (pc = "sent" /\ editor.call.pc = "none") \/ pc = "failed"
      <3>1. CASE Send
        <4>1. PICK call : call = [NoCall EXCEPT !.pc = "sent", !.expects = editor.version]
          OBVIOUS
        <4>2. call.pc = "sent" /\ editor.call.pc = "none" /\ editor' = [editor EXCEPT !.call = call]
          BY <3>1, <4>1 DEF Send, NoCall
        <4>3. QED
          BY <1>1, <4>2 DEF EditorRecord
      <3>2. CASE LosePatch
        <4>1. PICK call : call = [NoCall EXCEPT !.pc = "failed"]
          OBVIOUS
        <4>2. call.pc = "failed" /\ editor' = [editor EXCEPT !.call = call]
          BY <3>2, <4>1 DEF LosePatch, NoCall
        <4>3. QED
          BY <1>1, <4>2 DEF EditorRecord
      <3>3. QED
        BY <1>8, <3>1, <3>2
    <2>2. Len(editor.chain) \in Nat
      BY <1>1
    <2>3. Unserved' \in Int /\ Unserved' <= Unserved /\ Owed' = Owed
      BY <2>1, <2>2 DEF Unserved, Owed
    <2>4. project' = project /\ effort' = effort
      BY <1>8 DEF Send, LosePatch
    <2>5. QED
      BY <1>1, <1>2, <1>3, <2>3, <2>4, SMTT(30) DEF PaidFor
  <1>9. CASE HandleReply
    <2>1. /\ editor'.chain = Tail(editor.chain) /\ editor'.call = NoCall
          /\ editor'.pending \in {editor.pending, NoStyle}
      BY <1>1, <1>9, ReplyDoes
    <2>2. editor.call.pc \in {"answered", "conflict", "failed"} /\ project' = project /\ effort' = effort
      BY <1>9 DEF HandleReply
    <2>3. Len(Tail(editor.chain)) = Len(editor.chain) - 1
      <3>1. editor.chain # <<>>
        BY <1>1, <2>2
      <3>2. QED
        BY <1>1, <3>1, HeadTailProperties
    <2>4. Unserved' = Unserved
      BY <2>1, <2>2, <2>3 DEF Unserved, NoCall
    <2>5. Owed' \in 0..1 /\ Owed' <= Owed
      BY <2>1 DEF Owed
    <2>6. QED
      BY <1>1, <1>2, <1>3, <2>2, <2>4, <2>5, SMTT(30) DEF PaidFor
  <1>10. CASE Settles
    <2>1. /\ editor'.chain = editor.chain /\ editor'.call = editor.call
          /\ editor'.pending \in {editor.pending, NoStyle} /\ project' = project /\ effort' = effort
      BY <1>1, <1>10, QueueRests
    <2>2. Unserved' = Unserved /\ Owed' \in 0..1 /\ Owed' <= Owed
      BY <2>1 DEF Unserved, Owed
    <2>3. QED
      BY <1>1, <1>2, <1>3, <2>1, <2>2, SMTT(30) DEF PaidFor
  <1>11. CASE ServePatch
    <2>1. PICK out :
             \/ /\ ApplyPatch(out)
                /\ \E reply : editor' = [editor EXCEPT !.call.pc = "answered", !.call.reply = reply]
             \/ /\ UNCHANGED project
                /\ \E pc \in {"conflict", "failed"} : editor' = [editor EXCEPT !.call.pc = pc]
      BY <1>11 DEF ServePatch
    <2>2. /\ editor'.chain = editor.chain /\ editor'.pending = editor.pending
          /\ editor'.call.pc \in {"answered", "conflict", "failed"}
      BY <1>1, <2>1 DEF EditorRecord, CallRecord
    <2>3. project'.version \in {project.version, project.version + 1}
      BY <2>1, CommitDoes DEF ApplyPatch, NewVersion
    <2>4. Len(editor.chain) \in Nat /\ editor.call.pc = "sent" /\ effort' = effort
      BY <1>1, <1>11 DEF ServePatch
    <2>5. Unserved' = Unserved - 1 /\ Owed' = Owed
      BY <2>2, <2>4 DEF Unserved, Owed
    <2>6. project'.version \in Int /\ project'.version <= project.version + 1
      BY <1>2, <2>3
    <2>7. QED
      BY <1>1, <1>2, <1>3, <2>4, <2>5, <2>6, SMTT(30) DEF PaidFor
  <1>12. QED
    BY <1>4, <1>5, <1>6, <1>7, <1>8, <1>9, <1>10, <1>11

\* Those of the generation.
LEMMA PaidByGeneration ==
    ASSUME VersionInv, DocInv, Ranges, PaidFor,
           \/ \E preset : StartGeneration(preset) /\ (GenerateElsewhere(preset) \/ GenerateHere(preset))
           \/ CancelGeneration \/ Claim \/ Transcribe \/ ReadProject \/ CommitGeneration
           \/ CatchGeneration \/ EndAttempt \/ Crash \/ Reclaim
    PROVE  PaidFor'
  <1>1. /\ ProjectRecord(project) /\ WorkerRecord(worker) /\ TaskRecord(task) /\ effort \in Nat
        /\ GenerateAttempts \in Nat \ {0}
    BY BoundsAssumption DEF VersionInv, Shaped, Ranges, DocInv, TaskStyle
  <1>2. /\ project.version \in Nat /\ Unserved \in Nat /\ Owed \in 0..1 /\ Generating \in 0..1
        /\ Claims \in Nat
    BY CountTypes
  <1>3. Unserved' = Unserved /\ Owed' = Owed
    <2>1. /\ editor'.call = editor.call /\ editor'.chain = editor.chain
          /\ editor'.pending = editor.pending
      BY GenerationLeaves DEF VersionInv, Shaped, CancelGeneration, Claim, Transcribe, ReadProject,
         CommitGeneration, CatchGeneration, EndAttempt, Crash, Reclaim
    <2>2. QED
      BY <2>1 DEF Unserved, Owed
  <1>4. PICK number \in Nat, attempts \in Nat : /\ number = task.number /\ attempts = task.attempts
                                                /\ attempts <= GenerateAttempts
    BY BoundsAssumption DEF Ranges
  \* A task that is not claimed keeps the claims, and a worker that does not begin
  \* does not generate more.
  <1>5. ASSUME task'.number = task.number, task'.attempts = task.attempts PROVE Claims' = Claims
    BY <1>5 DEF Claims
  <1>6. ASSUME NEW preset, StartGeneration(preset) PROVE PaidFor'
    <2>1. /\ task'.number = number + 1 /\ task'.attempts = 0 /\ project'.version = project.version
          /\ worker' = worker
      BY <1>1, <1>4, <1>6 DEF StartGeneration, ProjectRecord
    <2>2. Claims' \in Nat /\ Claims' >= Claims
      <3>1. PICK whole \in Nat : whole = number * GenerateAttempts
        BY <1>1
      <3>2. Claims' = whole
        <4>1. number + 1 # 0 /\ (number + 1) - 1 = number
          OBVIOUS
        <4>2. Claims' = ((number + 1) - 1) * GenerateAttempts + 0
          BY <2>1, <4>1 DEF Claims
        <4>3. QED
          BY <3>1, <4>1, <4>2
      <3>3. number # 0 => (number - 1) * GenerateAttempts = whole - GenerateAttempts
        BY <1>1, <3>1
      <3>4. Claims <= whole
        BY <1>1, <1>4, <3>1, <3>3 DEF Claims
      <3>5. QED
        BY <1>2, <3>2, <3>4
    <2>3. effort' \in Nat /\ effort' >= effort + 1 /\ Generating' = Generating
      <3>1. "generate" \in Kinds /\ Spend("generate")
        BY <1>6 DEF Kinds, StartGeneration
      <3>2. QED
        BY <1>1, <2>1, <3>1, SpendGrows DEF Generating
    <2>4. QED
      BY <1>1, <1>2, <1>3, <2>1, <2>2, <2>3, SMTT(30) DEF PaidFor
  <1>7. CASE Claim
    <2>1. /\ task'.number = task.number /\ task'.attempts = task.attempts + 1
          /\ project' = project /\ effort' = effort /\ worker.pc = "idle" /\ task.number # 0
          /\ worker'.pc = "work"
      <3>1. [Idle EXCEPT !.pc = "work"].pc = "work"
        BY DEF Idle
      <3>2. QED
        BY <1>1, <1>7, <3>1 DEF Claim, TaskRecord, Ranges
    <2>2. Claims' = Claims + 1
      <3>1. PICK part \in Int : part = (number - 1) * GenerateAttempts
        BY <1>1
      <3>2. QED
        BY <1>4, <2>1, <3>1 DEF Claims
    <2>3. Generating' = 1 /\ Generating = 0
      BY <2>1 DEF Generating
    <2>4. QED
      BY <1>1, <1>2, <1>3, <2>1, <2>2, <2>3, SMTT(30) DEF PaidFor
  <1>8. CASE CommitGeneration
    <2>1. task' = task /\ effort' = effort /\ worker.pc = "commit"
      BY <1>8 DEF CommitGeneration
    <2>2. \/ project' = project
          \/ project'.version = project.version + 1 /\ worker'.pc = "done"
      <3>1. CASE (\E doc : CommitEdit(doc, "captioned")) /\ At("done")
        <4>1. worker'.pc = "done"
          BY <3>1 DEF At, Idle
        <4>2. QED
          BY <3>1, <4>1, CommitDoes DEF NewVersion
      <3>2. QED
        BY <1>8, <3>1 DEF CommitGeneration
    <2>3. Generating = 1 /\ Generating' \in 0..1 /\ (worker'.pc = "done" => Generating' = 0)
      BY <2>1 DEF Generating
    <2>4. QED
      BY <1>1, <1>2, <1>3, <1>5, <2>1, <2>2, <2>3, SMTT(30) DEF PaidFor
  <1>9. CASE CancelGeneration \/ Transcribe \/ ReadProject \/ CatchGeneration \/ EndAttempt
             \/ Crash \/ Reclaim
    <2>1. task'.number = task.number /\ task'.attempts = task.attempts
      <3>1. CASE CancelGeneration \/ EndAttempt \/ Reclaim
        <4>1. task' = [task EXCEPT !.cancel = TRUE] \/ \E status : task' = [task EXCEPT !.status = status]
          BY <3>1 DEF CancelGeneration, EndAttempt, Reclaim
        <4>2. QED
          BY <1>1, <4>1 DEF TaskRecord
      <3>2. QED
        BY <1>9, <3>1 DEF Transcribe, ReadProject, CatchGeneration, Crash
    <2>2. project'.version = project.version
      <3>1. CASE CatchGeneration
        BY <1>1, <3>1 DEF CatchGeneration, ProjectRecord
      <3>2. QED
        BY <1>9, <3>1 DEF CancelGeneration, Transcribe, ReadProject, EndAttempt, Crash, Reclaim
    <2>3. effort' = effort
      BY <1>9 DEF CancelGeneration, Transcribe, ReadProject, CatchGeneration, EndAttempt, Crash, Reclaim
    <2>4. Generating' \in 0..1 /\ Generating' <= Generating
      <3>1. CASE CancelGeneration \/ Reclaim
        BY <3>1 DEF CancelGeneration, Reclaim, Generating
      <3>2. CASE EndAttempt \/ Crash
        <4>1. worker' = Idle /\ Idle.pc = "idle"
          BY <3>2 DEF EndAttempt, Crash, Idle
        <4>2. QED
          BY <1>2, <4>1 DEF Generating
      <3>3. CASE Transcribe \/ ReadProject
        <4>1. worker.pc \in {"work", "read"}
          BY <3>3 DEF Transcribe, ReadProject
        <4>2. QED
          BY <4>1 DEF Generating
      <3>4. CASE CatchGeneration
        <4>1. worker'.pc = "throw"
          BY <3>4 DEF CatchGeneration, At, Idle
        <4>2. QED
          BY <1>2, <4>1 DEF Generating
      <3>5. QED
        BY <1>9, <3>1, <3>2, <3>3, <3>4
    <2>5. QED
      BY <1>1, <1>2, <1>3, <1>5, <2>1, <2>2, <2>3, <2>4, SMTT(30) DEF PaidFor
  <1>10. QED
    BY <1>6, <1>7, <1>8, <1>9
LEMMA CountStep ==
    VersionInv /\ DocInv /\ (Ranges /\ PaidFor) /\ [Next]_vars => (Ranges /\ PaidFor)'
  <1> SUFFICES ASSUME VersionInv, DocInv, Ranges, PaidFor, [Next]_vars PROVE Ranges' /\ PaidFor'
    OBVIOUS
  <1>1. CASE UNCHANGED vars
    BY <1>1 DEF vars, Ranges, PaidFor, Unserved, Owed, Generating, Claims
  <1>2. CASE \/ OtherPatches \/ (\E patch \in StylePatches : EditStyle(patch))
             \/ Enqueue \/ FlushStyle \/ Send \/ ServePatch \/ LosePatch \/ HandleReply \/ Settles
    BY <1>2, RangesEditor, PaidByClients
  <1>3. CASE \/ \E preset : StartGeneration(preset) /\ (GenerateElsewhere(preset) \/ GenerateHere(preset))
             \/ CancelGeneration \/ Claim \/ Transcribe \/ ReadProject \/ CommitGeneration
             \/ CatchGeneration \/ EndAttempt \/ Crash \/ Reclaim
    BY <1>3, RangesGeneration, PaidByGeneration
  <1>4. ASSUME NEW preset \in Styles \cup {NoStyle}, GenerateElsewhere(preset) \/ GenerateHere(preset)
        PROVE  Ranges' /\ PaidFor'
    <2>1. StartGeneration(preset)
      BY <1>4 DEF GenerateElsewhere, GenerateHere
    <2>2. QED
      BY <1>3, <1>4, <2>1
  <1>5. QED
    BY <1>1, <1>2, <1>3, <1>4 DEF Next, Settles

LEMMA CountInvariant == Spec => [](Ranges /\ PaidFor)
  <1>1. Init => Ranges /\ PaidFor
    <2> SUFFICES ASSUME Init PROVE Ranges /\ PaidFor
      OBVIOUS
    <2>1. Ranges /\ effort = 0 /\ project.version = 1
      BY RangesInitially DEF Init
    <2>2. Unserved = 0 /\ Owed = 0 /\ Generating = 0 /\ Claims = 0
      BY DEF Init, NoCall, Unserved, Owed, Generating, Claims
    <2>3. QED
      BY <2>1, <2>2, SMTT(30) DEF PaidFor
  <1>2. QED
    BY <1>1, CountStep, VersionInvariant, DocInvariant, PTL DEF Spec

-----------------------------------------------------------------------------
(* The type invariant.                                                     *)

\* The ids of the words stay their own through replacements, insertions and
\* generations, whoever makes them, none is given out twice, and no word both breaks
\* and joins pages (patch.ts, state.ts).
THEOREM IdsStayUnique ==
    Spec => [](UniqueIds(project.doc.words, fresh) /\ project.doc.breaks \cap project.doc.joins = {})
  <1>1. DocInv => UniqueIds(project.doc.words, fresh) /\ project.doc.breaks \cap project.doc.joins = {}
    BY DEF DocInv, ServerDoc, Tidy
  <1>2. QED
    BY <1>1, DocInvariant, PTL

\* A version is at least one and at most what was paid for.
LEMMA VersionsBounded ==
    ASSUME VersionInv, DocInv, Ranges, PaidFor
    PROVE  project.version \in 1 .. (1 + effort + MaxGenerations * GenerateAttempts)
  <1>1. /\ project.version \in Nat \ {0} /\ Unserved \in Nat /\ Owed \in 0..1 /\ Generating \in 0..1
        /\ Claims \in Nat /\ effort \in Nat
    BY CountTypes DEF VersionInv
  <1>2. PICK most \in Nat : most = MaxGenerations * GenerateAttempts
    BY BoundsAssumption
  <1>3. Claims <= most
    <2>1. PICK number \in Nat, attempts \in Nat :
             /\ number = task.number /\ attempts = task.attempts
             /\ number <= MaxGenerations /\ attempts <= GenerateAttempts
      BY BoundsAssumption DEF Ranges
    <2>2. CASE number = 0
      BY <2>1, <2>2 DEF Claims
    <2>3. CASE number # 0
      <3>1. PICK less \in Nat, rest \in Nat : less = number - 1 /\ rest = MaxGenerations - number
        BY <2>1, <2>3, BoundsAssumption
      <3>2. PICK a \in Nat, b \in Nat : a = less * GenerateAttempts /\ b = rest * GenerateAttempts
        BY BoundsAssumption
      <3>3. MaxGenerations = less + rest + 1
        BY <2>1, <3>1, BoundsAssumption
      <3>4. most = a + b + GenerateAttempts
        BY <1>2, <3>2, <3>3, BoundsAssumption
      <3>5. Claims = a + attempts
        BY <2>1, <2>3, <3>1, <3>2 DEF Claims
      <3>6. QED
        BY <2>1, <3>2, <3>4, <3>5, BoundsAssumption
    <2>4. QED
      BY <2>2, <2>3
  <1>4. QED
    BY <1>1, <1>2, <1>3, SMTT(30) DEF PaidFor

\* The types of the state: every word has an id of its own and lasts some time, no word
\* both breaks and joins, and no version was written that nobody asked for
\* (services/projects.ts, generate-captions.ts).
THEOREM TypeCorrect == Spec => []TypeOK
  <1>1. ASSUME VersionInv, DocInv, Ranges, PaidFor PROVE TypeOK
    <2>1. PICK words \in Seq(Word) : words = project.doc.words
      BY <1>1 DEF DocInv, ServerDoc, Good, Current, Docs
    <2>2. DOMAIN words = 1..Len(words) /\ Len(words) \in Nat
      OBVIOUS
    <2>3. UniqueIds(words, fresh) /\ Lasting(words)
      BY <1>1, <2>1 DEF DocInv, ServerDoc, Good, Tidy
    <2>4. \A k \in DOMAIN words : words[k].id \in 1..(fresh - 1) /\ words[k].start < words[k].end
      BY <2>2, <2>3 DEF UniqueIds, Lasting
    <2>5. ASSUME NEW j \in DOMAIN words, NEW k \in DOMAIN words, j < k
          PROVE  words[j].id # words[k].id
      <3>1. j # k
        BY <2>2, <2>5
      <3>2. QED
        BY <2>2, <2>3, <3>1 DEF UniqueIds
    <2>6. project.version \in 1 .. (1 + effort + MaxGenerations * GenerateAttempts)
      BY <1>1, VersionsBounded
    <2>7. project.doc.revision \in 0..revisions /\ project.doc.breaks \cap project.doc.joins = {}
      BY <1>1 DEF DocInv, ServerDoc, Tidy
    <2>8. QED
      BY <1>1, <2>1, <2>4, <2>5, <2>6, <2>7 DEF TypeOK, Ranges
  <1>2. VersionInv /\ DocInv /\ (Ranges /\ PaidFor) => TypeOK
    BY <1>1
  <1>3. QED
    BY <1>2, VersionInvariant, DocInvariant, CountInvariant, PTL


-----------------------------------------------------------------------------
(* The cheapest pages and lines.                                           *)

\* The ranges a text of n words can be made of, and what each costs as a page.
Spans(n) == {r \in (0..n) \X (0..n) : r[1] < r[2]}
PagePrices(words, limits) ==
    [r \in Spans(Len(words)) |-> PageCost(words, limits, r[1], r[2])]

\* What ranges cost together.
Prices(ranges, price) == [p \in 1..Len(ranges) |-> price[ranges[p]]]
Total(ranges, price) == SumFunctionOnSet(Prices(ranges, price), 1..Len(ranges))

LEMMA TilesSpan ==
    ASSUME NEW ranges, NEW n, Tiles(ranges, n)
    PROVE  Len(ranges) \in Nat /\ \A p \in 1..Len(ranges) : ranges[p] \in Spans(n)
  <1>1. ranges \in Seq(Nat \X Nat) /\ n \in Nat
    BY DEF Tiles
  <1>2. ASSUME NEW p \in 1..Len(ranges) PROVE ranges[p] \in Spans(n)
    <2>1. PICK r \in Nat \X Nat : r = ranges[p]
      BY <1>1
    <2>2. r[1] < r[2] /\ r[2] <= n
      BY <2>1 DEF Tiles
    <2>3. r[1] \in 0..n /\ r[2] \in 0..n
      BY <1>1, <2>2
    <2>4. r = <<r[1], r[2]>>
      OBVIOUS
    <2>5. QED
      BY <2>1, <2>2, <2>3, <2>4 DEF Spans
  <1>3. QED
    BY <1>1, <1>2

LEMMA TotalTyped ==
    ASSUME NEW ranges, NEW n, Tiles(ranges, n), NEW price,
           \A r \in Spans(n) : price[r] \in Int
    PROVE  Total(ranges, price) \in Int
  <1>1. Len(ranges) \in Nat /\ \A p \in 1..Len(ranges) : Prices(ranges, price)[p] \in Int
    BY TilesSpan DEF Prices
  <1>2. IsFiniteSet(1..Len(ranges))
    BY <1>1, FS_Interval
  <1>3. QED
    BY <1>1, <1>2, SumType DEF Total

LEMMA TotalEmpty ==
    ASSUME NEW price
    PROVE  Total(<<>>, price) = 0
  <1>1. PICK none : none = <<>> /\ 1..Len(none) = {}
    OBVIOUS
  <1>2. Total(none, price) = SumFunctionOnSet(Prices(none, price), {})
    BY <1>1 DEF Total
  <1>3. QED
    BY <1>1, <1>2, SumEmpty

LEMMA TotalAppend ==
    ASSUME NEW ranges \in Seq(Nat \X Nat), NEW price, NEW r \in Nat \X Nat, price[r] \in Int,
           \A p \in 1..Len(ranges) : price[ranges[p]] \in Int
    PROVE  Total(Append(ranges, r), price) = Total(ranges, price) + price[r]
  <1>1. PICK n \in Nat : n = Len(ranges)
    OBVIOUS
  <1>2. PICK longer : longer = Append(ranges, r)
    OBVIOUS
  <1>3. Len(longer) = n + 1 /\ longer[n + 1] = r /\ \A p \in 1..n : longer[p] = ranges[p]
    BY <1>1, <1>2
  <1>4. PICK f : f = Prices(ranges, price)
    OBVIOUS
  <1>5. PICK g : g = Prices(longer, price)
    OBVIOUS
  <1>6. g[n + 1] = price[r] /\ \A p \in 1..n : f[p] \in Int /\ g[p] = f[p]
    <2>1. f = [p \in 1..n |-> price[ranges[p]]] /\ g = [p \in 1 .. n + 1 |-> price[longer[p]]]
      BY <1>1, <1>3, <1>4, <1>5 DEF Prices
    <2>2. n + 1 \in 1 .. n + 1 /\ \A p \in 1..n : p \in 1 .. n + 1
      OBVIOUS
    <2>3. g[n + 1] = price[r]
      BY <1>3, <2>1, <2>2
    <2>4. ASSUME NEW p \in 1..n PROVE f[p] \in Int /\ g[p] = f[p]
      BY <1>1, <1>3, <2>1, <2>2
    <2>5. QED
      BY <2>3, <2>4
  <1>7. IsFiniteSet(1..n)
    BY FS_Interval, SMTT(30)
  <1>8. SumFunctionOnSet(g, 1..n) = SumFunctionOnSet(f, 1..n)
    BY <1>6, <1>7, SumSame
  <1>9. 1 .. n + 1 = (1..n) \cup {n + 1} /\ n + 1 \notin 1..n
    OBVIOUS
  <1>10. SumFunctionOnSet(f, 1..n) \in Int
    BY <1>6, <1>7, SumType
  <1>11. SumFunctionOnSet(g, 1 .. n + 1) = g[n + 1] + SumFunctionOnSet(g, 1..n)
    <2>1. \A p \in (1..n) \cup {n + 1} : g[p] \in Int
      BY <1>6
    <2>2. QED
      BY <1>7, <1>9, <2>1, SumAdd
  <1>12. Total(longer, price) = Total(ranges, price) + price[r]
    <2>1. PICK a \in Int : a = SumFunctionOnSet(f, 1..n)
      BY <1>10
    <2>2. PICK b \in Int : b = price[r]
      OBVIOUS
    <2>3. Total(longer, price) = b + a
      BY <1>3, <1>5, <1>6, <1>8, <1>11, <2>1, <2>2 DEF Total
    <2>4. Total(ranges, price) = a
      BY <1>1, <1>4, <2>1 DEF Total
    <2>5. QED
      BY <2>2, <2>3, <2>4
  <1>13. QED
    BY <1>2, <1>12

\* Numbers that never grow by more than a range costs end below what the ranges cost.
LEMMA TotalAtLeast ==
    ASSUME NEW ranges, Len(ranges) \in Nat, NEW price, NEW bound, bound[0] = 0,
           \A p \in 0..Len(ranges) : bound[p] \in Int,
           \A p \in 1..Len(ranges) : /\ price[ranges[p]] \in Int
                                     /\ bound[p] <= bound[p - 1] + price[ranges[p]]
    PROVE  bound[Len(ranges)] <= Total(ranges, price)
  <1>1. PICK n \in Nat : n = Len(ranges)
    OBVIOUS
  <1>2. PICK f : f = Prices(ranges, price)
    OBVIOUS
  <1>3. \A p \in 1..n : f[p] \in Int /\ f[p] = price[ranges[p]]
    BY <1>1, <1>2 DEF Prices
  <1> DEFINE Sum(p) == SumFunctionOnSet(f, 1..p)
             T == {p \in 0..n : bound[p] <= Sum(p)}
  <1>4. ASSUME NEW p \in 0..n PROVE Sum(p) \in Int
    <2>1. IsFiniteSet(1..p)
      BY FS_Interval
    <2>2. \A q \in 1..p : f[q] \in Int
      BY <1>3
    <2>3. QED
      BY <2>1, <2>2, SumType
  <1>5. ASSUME NEW p \in 1..n PROVE Sum(p) = f[p] + Sum(p - 1)
    <2>1. IsFiniteSet(1 .. p - 1)
      BY FS_Interval
    <2>2. 1..p = (1 .. p - 1) \cup {p} /\ p \notin 1 .. p - 1
      OBVIOUS
    <2>3. \A q \in (1 .. p - 1) \cup {p} : f[q] \in Int
      BY <1>3, <2>2
    <2>4. QED
      BY <2>1, <2>2, <2>3, SumAdd
  <1>6. Sum(0) = 0
    <2>1. 1..0 = {}
      OBVIOUS
    <2>2. QED
      BY <2>1, SumEmpty
  <1> HIDE DEF Sum
  <1>7. 0 \in T
    BY <1>6
  <1>8. ASSUME NEW p \in 1..n, p - 1 \in T PROVE p \in T
    <2>1. p \in 0..n /\ p - 1 \in 0..n
      OBVIOUS
    <2>2. PICK a \in Int, b \in Int, c \in Int, d \in Int, x \in Int :
             a = bound[p] /\ b = bound[p - 1] /\ c = Sum(p) /\ d = Sum(p - 1) /\ x = f[p]
      BY <1>1, <1>3, <1>4, <2>1
    <2>3. c = x + d /\ a <= b + x /\ b <= d
      BY <1>1, <1>3, <1>5, <1>8, <2>2
    <2>4. a <= c
      BY <2>3
    <2>5. QED
      BY <2>1, <2>2, <2>4
  <1> HIDE DEF T
  <1>9. \A p \in 0..n : p \in T
    BY <1>7, <1>8, Upward
  <1>10. n \in T
    BY <1>9
  <1>11. QED
    BY <1>1, <1>2, <1>10 DEF T, Sum, Total

\* Every page of a paging may start where it does (segmentWords never looks at others).
Allowed(ranges, limits, forced, forbidden) ==
    \A p \in 1..Len(ranges) : ranges[p][1] \in PageStarts(limits, forced, forbidden, ranges[p][2])

\* A cut that was found is an allowed paging, at the cost it states.
PricedCut(cut, price, limits, forced, forbidden) ==
    cut.found => /\ Allowed(cut.ranges, limits, forced, forbidden)
                 /\ cut.cost = Total(cut.ranges, price)

\* No allowed last page would have made a cut cheaper.
BestCuts(k, price, limits, forced, forbidden) ==
    {cuts \in PageCuts(k) :
        /\ cuts[0].found /\ cuts[0].cost = 0
        /\ \A t \in 0..k : PricedCut(cuts[t], price, limits, forced, forbidden)
        /\ \A t \in 1..k : \A f \in PageStarts(limits, forced, forbidden, t) :
              cuts[f].found => cuts[t].found /\ cuts[t].cost <= cuts[f].cost + price[<<f, t>>]}

LEMMA PagePricesTyped ==
    ASSUME NEW words \in Seq(Word), NEW limits \in Limits, NEW r \in Spans(Len(words))
    PROVE  PagePrices(words, limits)[r] \in Int
  <1>1. r[1] \in Nat /\ r[2] \in 1..Len(words) /\ r[1] < r[2]
    BY DEF Spans
  <1>2. PageCost(words, limits, r[1], r[2]) \in Int
    BY <1>1, PageCostTyped
  <1>3. QED
    BY <1>2 DEF PagePrices

LEMMA AllowedAppend ==
    ASSUME NEW ranges \in Seq(Nat \X Nat), NEW limits, NEW forced, NEW forbidden,
           Allowed(ranges, limits, forced, forbidden), NEW to,
           NEW from \in PageStarts(limits, forced, forbidden, to)
    PROVE  Allowed(Append(ranges, <<from, to>>), limits, forced, forbidden)
  <1>1. PICK n \in Nat : n = Len(ranges)
    OBVIOUS
  <1>2. PICK longer : longer = Append(ranges, <<from, to>>)
    OBVIOUS
  <1>3. Len(longer) = n + 1 /\ longer[n + 1] = <<from, to>> /\ \A p \in 1..n : longer[p] = ranges[p]
    BY <1>1, <1>2
  <1>4. ASSUME NEW p \in 1 .. n + 1
        PROVE  longer[p][1] \in PageStarts(limits, forced, forbidden, longer[p][2])
    <2>1. CASE p = n + 1
      <3>1. longer[p][1] = from /\ longer[p][2] = to
        BY <1>3, <2>1
      <3>2. QED
        BY <3>1
    <2>2. CASE p # n + 1
      <3>1. p \in 1..n
        BY <2>2
      <3>2. QED
        BY <1>1, <1>3, <3>1 DEF Allowed
    <2>3. QED
      BY <2>1, <2>2
  <1>5. Allowed(longer, limits, forced, forbidden)
    BY <1>3, <1>4 DEF Allowed
  <1>6. QED
    BY <1>2, <1>5

\* A cut that ends with the range from one of the cheapest starts.
CheapestCut(cut, cuts, S, cost, to) ==
    \E from \in S :
       /\ \A g \in S : cost[from] <= cost[g]
       /\ cut = [found |-> TRUE, cost |-> cost[from],
                 ranges |-> Append(cuts[from].ranges, <<from, to>>)]

LEMMA PageCutIs ==
    ASSUME NEW to \in Nat \ {0}, NEW cuts, NEW S \in SUBSET (0 .. to - 1), S # {},
           NEW cost \in [S -> Int]
    PROVE  CheapestCut(PageCut(cuts, cost, to), cuts, S, cost, to)
  <1>1. IsFiniteSet(S) /\ S \in SUBSET Int
    <2>1. IsFiniteSet(0 .. to - 1)
      BY FS_Interval
    <2>2. IsFiniteSet(S)
      BY <2>1, FS_Subset
    <2>3. QED
      BY <2>2
  <1>2. Cheapest(cost) # {} /\ Cheapest(cost) \subseteq S
    BY <1>1, CheapestIs
  <1>3. IsFiniteSet(Cheapest(cost)) /\ Cheapest(cost) \in SUBSET Int
    BY <1>1, <1>2, FS_Subset
  <1>4. PICK from \in Cheapest(cost) : from = Max(Cheapest(cost))
    BY <1>2, <1>3, ExtremesAre
  <1>5. from \in S /\ \A g \in S : cost[from] <= cost[g]
    BY <1>2 DEF Cheapest
  <1>6. PageCut(cuts, cost, to) = [found |-> TRUE, cost |-> cost[from],
                                   ranges |-> Append(cuts[from].ranges, <<from, to>>)]
    BY <1>4 DEF PageCut, Cut
  <1>7. QED
    BY <1>5, <1>6 DEF CheapestCut

LEMMA ExtendCutsBest ==
    ASSUME NEW words \in Seq(Word), NEW limits \in Limits, NEW forced, NEW forbidden,
           NEW price, price = PagePrices(words, limits), NEW to \in 1..Len(words),
           NEW cuts \in BestCuts(to - 1, price, limits, forced, forbidden)
    PROVE  ExtendCuts(cuts, words, limits, forced, forbidden, to)
              \in BestCuts(to, price, limits, forced, forbidden)
  <1>1. PICK S : S = {f \in PageStarts(limits, forced, forbidden, to) : cuts[f].found}
    OBVIOUS
  <1>2. cuts \in PageCuts(to - 1)
    BY DEF BestCuts
  <1>3. PageStarts(limits, forced, forbidden, to) \subseteq 0 .. to - 1
    BY PageStartsBefore
  <1>4. S \in SUBSET (0 .. to - 1)
    BY <1>1, <1>3
  <1>5. PICK cost : cost = [from \in S |-> cuts[from].cost + PageCost(words, limits, from, to)]
    OBVIOUS
  <1>6. cost \in [S -> Int]
    BY <1>2, <1>4, <1>5, CostsTyped
  <1>7. PICK new : new = PageCut(cuts, cost, to)
    OBVIOUS
  <1>8. PICK longer : longer = ExtendCuts(cuts, words, limits, forced, forbidden, to)
    OBVIOUS
  <1>9. longer \in PageCuts(to)
    BY <1>2, <1>8, ExtendCutsTyped
  <1>10. longer[to] = new /\ \A t \in 0 .. to - 1 : longer[t] = cuts[t]
    BY <1>1, <1>5, <1>7, <1>8 DEF ExtendCuts
  <1>11. ASSUME NEW f \in S
         PROVE  /\ f \in Nat /\ f < to /\ f \in 0 .. to - 1
                /\ price[<<f, to>>] \in Int /\ cost[f] = cuts[f].cost + price[<<f, to>>]
    <2>1. f \in Nat /\ f < to /\ f \in 0 .. to - 1
      BY <1>4
    <2>2. PICK r : r = <<f, to>>
      OBVIOUS
    <2>3. r \in Spans(Len(words)) /\ r[1] = f /\ r[2] = to
      BY <2>1, <2>2 DEF Spans
    <2>4. price[r] = PageCost(words, limits, f, to) /\ price[r] \in Int
      BY <2>3, PagePricesTyped DEF PagePrices
    <2>5. QED
      BY <1>5, <2>1, <2>2, <2>4
  <1>12. PricedCut(new, price, limits, forced, forbidden)
    <2>1. CASE S = {}
      BY <1>5, <1>7, <2>1 DEF PageCut, NoCut, PricedCut
    <2>2. CASE S # {}
      <3>1. to \in Nat \ {0}
        OBVIOUS
      <3>2. PICK from \in S :
              new = [found |-> TRUE, cost |-> cost[from],
                     ranges |-> Append(cuts[from].ranges, <<from, to>>)]
        <4>1. CheapestCut(new, cuts, S, cost, to)
          BY <1>4, <1>6, <1>7, <2>2, <3>1, PageCutIs, ZenonT(30)
        <4>2. QED
          BY <4>1 DEF CheapestCut
      <3>3. PICK shorter : shorter = cuts[from].ranges
        OBVIOUS
      <3>4. /\ cuts[from].found /\ from \in PageStarts(limits, forced, forbidden, to)
            /\ from \in 0 .. to - 1 /\ from \in Nat /\ from < to
        BY <1>1, <1>11
      <3>5. Allowed(shorter, limits, forced, forbidden) /\ cuts[from].cost = Total(shorter, price)
        BY <3>3, <3>4 DEF BestCuts, PricedCut
      <3>6. Tiles(shorter, from) /\ shorter \in Seq(Nat \X Nat)
        BY <1>2, <3>3, <3>4 DEF PageCuts, CutRecord
      <3>7. Allowed(Append(shorter, <<from, to>>), limits, forced, forbidden)
        BY <3>4, <3>5, <3>6, AllowedAppend
      <3>8. \A p \in 1..Len(shorter) : price[shorter[p]] \in Int
        <4>1. \A p \in 1..Len(shorter) : shorter[p] \in Spans(from)
          BY <3>6, TilesSpan
        <4>2. Spans(from) \subseteq Spans(Len(words))
          BY <3>4 DEF Spans
        <4>3. QED
          BY <4>1, <4>2, PagePricesTyped
      <3>9. PICK r \in Nat \X Nat : r = <<from, to>> /\ price[r] \in Int
        <4>1. <<from, to>> \in Nat \X Nat
          BY <3>1, <3>4
        <4>2. price[<<from, to>>] \in Int
          BY <1>11
        <4>3. QED
          BY <4>1, <4>2
      <3>10. Total(Append(shorter, r), price) = Total(shorter, price) + price[r]
        BY <3>6, <3>8, <3>9, TotalAppend
      <3>11. new.ranges = Append(shorter, r) /\ new.cost = Total(shorter, price) + price[r]
        BY <1>11, <3>2, <3>3, <3>5, <3>9
      <3>12. QED
        BY <3>7, <3>9, <3>10, <3>11 DEF PricedCut
    <2>3. QED
      BY <2>1, <2>2
  <1>13. ASSUME NEW f \in PageStarts(limits, forced, forbidden, to), cuts[f].found
         PROVE  new.found /\ new.cost <= cuts[f].cost + price[<<f, to>>]
    <2>1. f \in S /\ to \in Nat \ {0}
      BY <1>1, <1>13
    <2>2. PICK from \in S :
             /\ \A g \in S : cost[from] <= cost[g]
             /\ new = [found |-> TRUE, cost |-> cost[from],
                       ranges |-> Append(cuts[from].ranges, <<from, to>>)]
      <3>1. CheapestCut(new, cuts, S, cost, to)
        <4>1. S # {}
          BY <2>1
        <4>2. QED
          BY <1>4, <1>6, <1>7, <2>1, <4>1, PageCutIs, ZenonT(30)
      <3>2. QED
        BY <3>1 DEF CheapestCut
    <2>3. new.cost = cost[from] /\ cost[from] <= cost[f]
      BY <2>1, <2>2
    <2>4. QED
      BY <1>11, <2>1, <2>2, <2>3
  <1>14. ASSUME NEW t \in 0..to PROVE PricedCut(longer[t], price, limits, forced, forbidden)
    <2>1. CASE t = to
      BY <1>10, <1>12, <2>1
    <2>2. CASE t # to
      <3>1. t \in 0 .. to - 1
        BY <2>2
      <3>2. QED
        BY <1>10, <3>1 DEF BestCuts
    <2>3. QED
      BY <2>1, <2>2
  <1>15. ASSUME NEW t \in 1..to, NEW f \in PageStarts(limits, forced, forbidden, t), longer[f].found
         PROVE  longer[t].found /\ longer[t].cost <= longer[f].cost + price[<<f, t>>]
    <2>1. f \in 0 .. t - 1 /\ f \in 0 .. to - 1
      BY PageStartsBefore
    <2>2. longer[f] = cuts[f]
      BY <1>10, <2>1
    <2>3. CASE t = to
      BY <1>10, <1>13, <1>15, <2>2, <2>3
    <2>4. CASE t # to
      <3>1. t \in 1 .. to - 1 /\ t \in 0 .. to - 1
        BY <2>4
      <3>2. QED
        BY <1>10, <1>15, <2>2, <3>1 DEF BestCuts
    <2>5. QED
      BY <2>3, <2>4
  <1>16. longer[0].found /\ longer[0].cost = 0
    <2>1. longer[0] = cuts[0]
      BY <1>10
    <2>2. QED
      BY <2>1 DEF BestCuts
  <1>17. longer \in BestCuts(to, price, limits, forced, forbidden)
    BY <1>9, <1>14, <1>15, <1>16 DEF BestCuts
  <1>18. QED
    BY <1>8, <1>17

\* The boundaries that ranges go along, from 0 to n.
Along(ends, ranges, n) ==
    /\ ends[0] = 0 /\ ends[Len(ranges)] = n
    /\ \A p \in 1..Len(ranges) :
          /\ ranges[p] = <<ends[p - 1], ends[p]>>
          /\ ends[p - 1] \in 0..n /\ ends[p] \in 1..n /\ ends[p - 1] < ends[p]

LEMMA TilesAlong ==
    ASSUME NEW ranges, NEW n, Tiles(ranges, n)
    PROVE  \E ends : Along(ends, ranges, n)
  <1>1. PICK m \in Nat : m = Len(ranges)
    BY TilesSpan
  <1>2. PICK ends : ends = [p \in 0..m |-> IF p = 0 THEN 0 ELSE ranges[p][2]]
    OBVIOUS
  <1>3. ends[0] = 0 /\ ends[m] = n
    <2>1. ranges \in Seq(Nat \X Nat) /\ n = IF ranges = <<>> THEN 0 ELSE ranges[Len(ranges)][2]
      BY DEF Tiles
    <2>2. ranges = <<>> <=> m = 0
      BY <1>1, <2>1
    <2>3. QED
      BY <1>1, <1>2, <2>1, <2>2
  <1>4. ASSUME NEW p \in 1..m
        PROVE  /\ ranges[p] = <<ends[p - 1], ends[p]>>
               /\ ends[p - 1] \in 0..n /\ ends[p] \in 1..n /\ ends[p - 1] < ends[p]
    <2>1. p \in 0..m /\ p - 1 \in 0..m
      OBVIOUS
    <2>2. ranges[p] \in Spans(n) /\ n \in Nat
      BY <1>1, TilesSpan DEF Tiles
    <2>3. PICK a \in 0..n, b \in 0..n : ranges[p] = <<a, b>> /\ a < b
      BY <2>2 DEF Spans
    <2>4. b = ends[p]
      BY <1>2, <2>1, <2>3
    <2>5. a = ends[p - 1]
      <3>1. ranges[p][1] = IF p = 1 THEN 0 ELSE ranges[p - 1][2]
        BY <1>1 DEF Tiles
      <3>2. QED
        BY <1>2, <2>1, <2>3, <3>1
    <2>6. b \in 1..n
      BY <2>2, <2>3
    <2>7. QED
      BY <2>3, <2>4, <2>5, <2>6
  <1>5. QED
    BY <1>1, <1>3, <1>4 DEF Along

\* A paging that is allowed leads the dynamic program to its end, and costs no less.
LEMMA NoPagingCheaper ==
    ASSUME NEW n \in Nat, NEW price, \A r \in Spans(n) : price[r] \in Int,
           NEW limits, NEW forced, NEW forbidden,
           NEW cuts \in BestCuts(n, price, limits, forced, forbidden),
           NEW ranges, Tiles(ranges, n), Allowed(ranges, limits, forced, forbidden)
    PROVE  cuts[n].found /\ cuts[n].cost <= Total(ranges, price)
  <1>1. PICK m \in Nat : m = Len(ranges)
    BY TilesSpan
  <1>2. PICK ends : Along(ends, ranges, n)
    BY TilesAlong
  <1>3. ends[0] = 0 /\ ends[m] = n
    BY <1>1, <1>2 DEF Along
  <1>4. ASSUME NEW p \in 1..m
        PROVE  /\ p \in 0..m /\ p - 1 \in 0..m /\ price[ranges[p]] \in Int
               /\ ends[p - 1] \in 0..n /\ ends[p] \in 1..n
               /\ ranges[p] = <<ends[p - 1], ends[p]>>
               /\ ends[p - 1] \in PageStarts(limits, forced, forbidden, ends[p])
    <2>1. p \in 0..m /\ p - 1 \in 0..m
      OBVIOUS
    <2>2. price[ranges[p]] \in Int
      BY <1>1, TilesSpan
    <2>3. /\ ranges[p] = <<ends[p - 1], ends[p]>>
          /\ ends[p - 1] \in 0..n /\ ends[p] \in 1..n
      BY <1>1, <1>2 DEF Along
    <2>4. ranges[p][1] \in PageStarts(limits, forced, forbidden, ranges[p][2])
      BY <1>1 DEF Allowed
    <2>5. ranges[p][1] = ends[p - 1] /\ ranges[p][2] = ends[p]
      BY <2>3
    <2>6. QED
      BY <2>1, <2>2, <2>3, <2>4, <2>5
  <1>5. \A p \in 0..m : cuts[ends[p]].found
    <2> DEFINE T == {p \in 0..m : cuts[ends[p]].found}
    <2>1. 0 \in T
      BY <1>3 DEF BestCuts
    <2>2. ASSUME NEW p \in 1..m, p - 1 \in T PROVE p \in T
      <3>1. PICK f, t : f = ends[p - 1] /\ t = ends[p]
        OBVIOUS
      <3>2. t \in 1..n /\ f \in PageStarts(limits, forced, forbidden, t) /\ cuts[f].found
        BY <1>4, <2>2, <3>1
      <3>3. cuts[t].found
        BY <3>2 DEF BestCuts
      <3>4. QED
        BY <1>4, <3>1, <3>3
    <2> HIDE DEF T
    <2>3. \A p \in 0..m : p \in T
      BY <2>1, <2>2, Upward
    <2>4. QED
      BY <2>3 DEF T
  <1>6. PICK bound : bound = [p \in 0..m |-> cuts[ends[p]].cost]
    OBVIOUS
  <1>7. bound[0] = 0 /\ bound[m] = cuts[n].cost
    BY <1>1, <1>3, <1>6 DEF BestCuts
  <1>8. ASSUME NEW p \in 0..m PROVE bound[p] \in Int
    <2>1. ends[p] \in 0..n
      <3>1. CASE p = 0
        BY <1>3, <3>1
      <3>2. CASE p # 0
        <4>1. p \in 1..m
          BY <3>2
        <4>2. QED
          BY <1>4, <4>1
      <3>3. QED
        BY <3>1, <3>2
    <2>2. cuts[ends[p]] \in CutRecord
      BY <2>1 DEF BestCuts, PageCuts
    <2>3. QED
      BY <1>6, <2>2 DEF CutRecord
  <1>9. ASSUME NEW p \in 1..m
        PROVE  price[ranges[p]] \in Int /\ bound[p] <= bound[p - 1] + price[ranges[p]]
    <2>1. PICK f, t : f = ends[p - 1] /\ t = ends[p]
      OBVIOUS
    <2>2. t \in 1..n /\ f \in PageStarts(limits, forced, forbidden, t) /\ cuts[f].found
      BY <1>4, <1>5, <2>1
    <2>3. cuts[t].cost <= cuts[f].cost + price[<<f, t>>]
      BY <2>2 DEF BestCuts
    <2>4. bound[p] = cuts[t].cost /\ bound[p - 1] = cuts[f].cost /\ ranges[p] = <<f, t>>
      BY <1>4, <1>6, <2>1
    <2>5. QED
      BY <1>4, <2>3, <2>4
  <1>10. bound[m] <= Total(ranges, price)
    BY <1>1, <1>7, <1>8, <1>9, TotalAtLeast
  <1>11. cuts[n].found
    <2>1. m \in 0..m
      BY <1>1
    <2>2. QED
      BY <1>3, <1>5, <2>1
  <1>12. QED
    BY <1>7, <1>10, <1>11

\* What segmentWords ends with: the cuts that the last round of the dynamic program keeps.
LEMMA SegmentsBest ==
    ASSUME NEW words \in Seq(Word), NEW limits \in Limits, NEW forced, NEW forbidden,
           NEW n \in Nat, n = Len(words), NEW price, price = PagePrices(words, limits)
    PROVE  \E v \in BestCuts(n, price, limits, forced, forbidden) :
              SegmentWords(words, limits, forced, forbidden)
                = IF v[n].found THEN v[n].ranges ELSE Chunks(n, limits.words)
  <1>1. PICK V : V = [k \in 0..n |-> BestCuts(k, price, limits, forced, forbidden)]
    OBVIOUS
  <1>2. ASSUME NEW k \in 1..n, NEW v \in V[k - 1]
        PROVE  ExtendCuts(v, words, limits, forced, forbidden, k) \in V[k]
    <2>1. k \in 1..Len(words) /\ v \in BestCuts(k - 1, price, limits, forced, forbidden)
      BY <1>1
    <2>2. ExtendCuts(v, words, limits, forced, forbidden, k)
             \in BestCuts(k, price, limits, forced, forbidden)
      BY <2>1, ExtendCutsBest
    <2>3. QED
      BY <1>1, <2>2
  <1>3. CutOfNothing \in V[0] /\ V[n] = BestCuts(n, price, limits, forced, forbidden)
    <2>1. CutOfNothing[0].found /\ CutOfNothing[0].cost = 0 /\ CutOfNothing[0].ranges = <<>>
      BY DEF CutOfNothing
    <2>2. Allowed(<<>>, limits, forced, forbidden)
      BY DEF Allowed
    <2>3. PricedCut(CutOfNothing[0], price, limits, forced, forbidden)
      BY <2>1, <2>2, TotalEmpty DEF PricedCut
    <2>4. CutOfNothing \in BestCuts(0, price, limits, forced, forbidden)
      BY <2>1, <2>3, CutOfNothingIs DEF BestCuts
    <2>5. QED
      BY <1>1, <2>4
  <1>4. PICK v \in V[n] : SegmentWords(words, limits, forced, forbidden)
                = IF v[n].found THEN v[n].ranges ELSE Chunks(n, limits.words)
    <2>1. \A k \in 1..n : \A v \in V[k - 1] :
             ExtendCuts(v, words, limits, forced, forbidden, k) \in V[k]
      BY <1>2
    <2>2. n \in Nat /\ n = Len(words) /\ CutOfNothing \in V[0]
      BY <1>3
    <2>3. QED
      BY <2>1, <2>2, SegmentCuts, SMTT(60)
  <1>5. QED
    BY <1>3, <1>4

\* segmentWords finds, of all the pagings of a text that keep the manual splits and
\* joins and the limit on words, one of the cheapest: the dynamic program loses none,
\* for any words, limits and constraints.  Costs are those of PageCost: every term of the
\* code's, in 1/Unit and rounded down.
THEOREM CheapestPages ==
    ASSUME NEW words \in Seq(Word), NEW limits \in Limits, NEW forced, NEW forbidden,
           NEW ranges, Tiles(ranges, Len(words)), Allowed(ranges, limits, forced, forbidden)
    PROVE  LET pages == SegmentWords(words, limits, forced, forbidden)
               price == PagePrices(words, limits)
           IN  /\ Tiles(pages, Len(words)) /\ Allowed(pages, limits, forced, forbidden)
               /\ Total(pages, price) <= Total(ranges, price)
  <1>1. PICK n \in Nat : n = Len(words)
    OBVIOUS
  <1>2. PICK price : price = PagePrices(words, limits)
    OBVIOUS
  <1>3. PICK v \in BestCuts(n, price, limits, forced, forbidden) :
           SegmentWords(words, limits, forced, forbidden)
             = IF v[n].found THEN v[n].ranges ELSE Chunks(n, limits.words)
    BY <1>1, <1>2, SegmentsBest
  <1>4. PICK pages : pages = SegmentWords(words, limits, forced, forbidden)
    OBVIOUS
  <1>5. \A r \in Spans(n) : price[r] \in Int
    BY <1>1, <1>2, PagePricesTyped
  <1>6. Tiles(ranges, n)
    BY <1>1
  <1>7. v[n].found /\ v[n].cost <= Total(ranges, price)
    BY <1>5, <1>6, NoPagingCheaper
  <1>8. pages = v[n].ranges
    BY <1>3, <1>4, <1>7
  <1>9. Allowed(pages, limits, forced, forbidden) /\ v[n].cost = Total(pages, price)
    <2>1. n \in 0..n
      OBVIOUS
    <2>2. PricedCut(v[n], price, limits, forced, forbidden)
      BY <2>1 DEF BestCuts
    <2>3. QED
      BY <1>7, <1>8, <2>2 DEF PricedCut
  <1>10. Tiles(pages, Len(words))
    BY <1>4, SegmentsTile
  <1>11. QED
    BY <1>2, <1>4, <1>7, <1>9, <1>10

LinePrices(chars, perLine) ==
    [r \in Spans(Len(chars)) |-> LineCost(CharsOf(chars, r[1], r[2]), perLine)]

LEMMA LinePricesTyped ==
    ASSUME NEW chars \in Seq(Nat), NEW perLine \in Nat, NEW r \in Spans(Len(chars))
    PROVE  LinePrices(chars, perLine)[r] \in Int
  <1>1. r[1] \in Nat /\ r[2] \in 0..Len(chars)
    BY DEF Spans
  <1>2. CharsOf(chars, r[1], r[2]) \in Int
    BY <1>1, CharsTyped
  <1>3. LineCost(CharsOf(chars, r[1], r[2]), perLine) \in Int
    BY <1>2, LineCostTyped
  <1>4. QED
    BY <1>3 DEF LinePrices

\* What one line more makes of the cuts that have fewer.
OneLineMore(cut, fewer, starts, to, price) ==
    /\ \E from \in starts :
          /\ from < to /\ cut.ranges = Append(fewer[from].ranges, <<from, to>>)
          /\ cut.cost = fewer[from].cost + price[<<from, to>>]
    /\ \A f \in starts : f < to => cut.cost <= fewer[f].cost + price[<<f, to>>]

LEMMA LineCutIs ==
    ASSUME NEW chars \in Seq(Nat), NEW perLine \in Nat, NEW k \in Nat \ {0},
           NEW fewer \in LineCuts(k - 1, Len(chars)), NEW to \in k..Len(chars),
           NEW price, price = LinePrices(chars, perLine)
    PROVE  OneLineMore(LineCut(fewer, chars, perLine, to), fewer, Reaches(k - 1, Len(chars)), to, price)
  <1>1. PICK S : S = {f \in DOMAIN fewer : f < to}
    OBVIOUS
  <1>2. DOMAIN fewer = Reaches(k - 1, Len(chars))
    BY DEF LineCuts
  <1>3. S \in SUBSET (0 .. to - 1)
    BY <1>1, <1>2 DEF Reaches
  <1>4. S # {}
    <2>1. k - 1 \in S
      BY <1>1, <1>2 DEF Reaches
    <2>2. QED
      BY <2>1
  <1>5. PICK cost : cost = [f \in S |-> fewer[f].cost + LineCost(CharsOf(chars, f, to), perLine)]
    OBVIOUS
  <1>6. ASSUME NEW f \in S
        PROVE  /\ fewer[f].cost \in Int /\ price[<<f, to>>] \in Int
               /\ cost[f] = fewer[f].cost + price[<<f, to>>] /\ cost[f] \in Int
    <2>1. f \in Nat /\ f < to /\ to \in 0..Len(chars) /\ f \in Reaches(k - 1, Len(chars))
      BY <1>1, <1>2, <1>3
    <2>2. fewer[f] \in CutRecord
      BY <2>1 DEF LineCuts
    <2>3. PICK r : r = <<f, to>>
      OBVIOUS
    <2>4. r \in Spans(Len(chars)) /\ r[1] = f /\ r[2] = to
      BY <2>1, <2>3 DEF Spans
    <2>5. price[r] = LineCost(CharsOf(chars, f, to), perLine) /\ price[r] \in Int
      BY <2>4, LinePricesTyped DEF LinePrices
    <2>6. fewer[f].cost \in Int
      BY <2>2 DEF CutRecord
    <2>7. QED
      BY <1>5, <2>3, <2>5, <2>6
  <1>7. cost \in [S -> Int]
    <2>1. cost = [f \in S |-> cost[f]]
      BY <1>5
    <2>2. QED
      BY <1>6, <2>1
  <1>8. IsFiniteSet(S)
    <2>1. IsFiniteSet(0 .. to - 1)
      BY FS_Interval
    <2>2. QED
      BY <1>3, <2>1, FS_Subset
  <1>9. Cheapest(cost) # {} /\ Cheapest(cost) \subseteq S
    BY <1>4, <1>7, <1>8, CheapestIs
  <1>10. IsFiniteSet(Cheapest(cost)) /\ Cheapest(cost) \in SUBSET Int
    <2>1. IsFiniteSet(Cheapest(cost))
      BY <1>8, <1>9, FS_Subset
    <2>2. S \in SUBSET Int
      BY <1>3
    <2>3. QED
      BY <1>9, <2>1, <2>2
  <1>11. PICK from \in Cheapest(cost) : from = Min(Cheapest(cost))
    BY <1>9, <1>10, ExtremesAre
  <1>12. from \in S /\ \A f \in S : cost[from] <= cost[f]
    BY <1>7, <1>9 DEF Cheapest
  <1>13. PICK cut : cut = LineCut(fewer, chars, perLine, to)
    OBVIOUS
  <1>14. cut = [found |-> TRUE, cost |-> cost[from],
                ranges |-> Append(fewer[from].ranges, <<from, to>>)]
    BY <1>1, <1>5, <1>11, <1>13 DEF LineCut, Cut
  <1>15. cut.cost = cost[from] /\ cut.ranges = Append(fewer[from].ranges, <<from, to>>)
    BY <1>14
  <1>16. from < to /\ from \in Reaches(k - 1, Len(chars))
    BY <1>1, <1>2, <1>12
  <1>17. ASSUME NEW f \in Reaches(k - 1, Len(chars)), f < to
         PROVE  cut.cost <= fewer[f].cost + price[<<f, to>>]
    <2>1. f \in S
      BY <1>1, <1>2, <1>17
    <2>2. cost[from] <= cost[f]
      BY <1>12, <2>1
    <2>3. QED
      BY <1>6, <1>15, <2>1, <2>2
  <1>18. OneLineMore(cut, fewer, Reaches(k - 1, Len(chars)), to, price)
    BY <1>6, <1>12, <1>15, <1>16, <1>17 DEF OneLineMore
  <1>19. QED
    BY <1>13, <1>18

LEMMA LineTableIs ==
    ASSUME NEW chars \in Seq(Nat), NEW perLine \in Nat, NEW n \in Nat, n = Len(chars),
           NEW most \in Nat, NEW lines, LineTables(lines, chars, perLine, most),
           NEW k \in 1..most, NEW t \in k..n, NEW price, price = LinePrices(chars, perLine)
    PROVE  OneLineMore(lines[k][t], lines[k-1], Reaches(k - 1, n), t, price)
  <1>1. k \in Nat \ {0} /\ k - 1 \in 0..most
    OBVIOUS
  <1>2. lines[k - 1] \in LineCuts(k - 1, Len(chars))
    BY <1>1 DEF LineTables
  <1>3. lines[k][t] = LineCut(lines[k - 1], chars, perLine, t)
    BY DEF LineTables
  <1>4. PICK fewer : fewer = lines[k - 1]
    OBVIOUS
  <1>5. OneLineMore(LineCut(fewer, chars, perLine, t), fewer, Reaches(k - 1, Len(chars)), t, price)
    BY <1>1, <1>2, <1>4, LineCutIs
  <1>6. QED
    BY <1>3, <1>4, <1>5

\* The cuts with k lines have k lines, at the cost they state.
PricedLines(cuts, k, n, price) ==
    \A t \in Reaches(k, n) :
        Len(cuts[t].ranges) = k /\ cuts[t].cost = Total(cuts[t].ranges, price)

LEMMA LinesPriced ==
    ASSUME NEW chars \in Seq(Nat), NEW perLine \in Nat, NEW n \in Nat, n = Len(chars),
           NEW most \in Nat, NEW lines, LineTables(lines, chars, perLine, most),
           NEW price, price = LinePrices(chars, perLine)
    PROVE  \A k \in 0..most : PricedLines(lines[k], k, n, price)
  <1> DEFINE T == {k \in 0..most : PricedLines(lines[k], k, n, price)}
  <1>1. 0 \in T
    <2>1. lines[0] = CutOfNothing /\ 0 \in 0..most
      BY DEF LineTables
    <2>2. CutOfNothing[0].cost = 0 /\ CutOfNothing[0].ranges = <<>>
      BY DEF CutOfNothing
    <2>3. Len(<<>>) = 0 /\ Total(<<>>, price) = 0
      BY TotalEmpty
    <2>4. PricedLines(CutOfNothing, 0, n, price)
      BY <2>2, <2>3 DEF PricedLines, Reaches
    <2>5. QED
      BY <2>1, <2>4
  <1>2. ASSUME NEW k \in 1..most, k - 1 \in T PROVE k \in T
    <2>1. ASSUME NEW t \in k..n
          PROVE  /\ Len(lines[k][t].ranges) = k
                 /\ lines[k][t].cost = Total(lines[k][t].ranges, price)
      <3>1. OneLineMore(lines[k][t], lines[k - 1], Reaches(k - 1, n), t, price)
        BY LineTableIs
      <3>2. PICK from \in Reaches(k - 1, n) :
               /\ from < t /\ lines[k][t].ranges = Append(lines[k - 1][from].ranges, <<from, t>>)
               /\ lines[k][t].cost = lines[k - 1][from].cost + price[<<from, t>>]
        BY <3>1 DEF OneLineMore
      <3>3. PICK shorter : shorter = lines[k - 1][from].ranges
        OBVIOUS
      <3>4. /\ k - 1 \in 0..most /\ from \in Nat /\ t \in Nat /\ from <= n /\ t <= n
        <4>1. k - 1 \in 0..most /\ t \in Nat /\ t <= n
          OBVIOUS
        <4>2. from = 0 \/ from \in k - 1 .. n
          BY DEF Reaches
        <4>3. QED
          BY <4>1, <4>2
      <3>5. Tiles(shorter, from) /\ shorter \in Seq(Nat \X Nat)
        BY <3>2, <3>3, <3>4 DEF LineTables, LineCuts, CutRecord
      <3>6. Len(shorter) = k - 1 /\ lines[k - 1][from].cost = Total(shorter, price)
        BY <1>2, <3>2, <3>3 DEF PricedLines
      <3>7. \A p \in 1..Len(shorter) : price[shorter[p]] \in Int
        <4>1. \A p \in 1..Len(shorter) : shorter[p] \in Spans(from)
          BY <3>5, TilesSpan
        <4>2. Spans(from) \subseteq Spans(Len(chars))
          BY <3>4 DEF Spans
        <4>3. QED
          BY <4>1, <4>2, LinePricesTyped
      <3>8. PICK r \in Nat \X Nat : r = <<from, t>>
        BY <3>4
      <3>9. price[r] \in Int
        <4>1. from < t
          BY <3>2
        <4>2. from \in 0..n /\ t \in 0..n
          BY <3>4
        <4>3. r \in (0..Len(chars)) \X (0..Len(chars)) /\ r[1] < r[2]
          BY <3>8, <4>1, <4>2
        <4>4. r \in Spans(Len(chars))
          BY <4>3 DEF Spans
        <4>5. QED
          BY <4>4, LinePricesTyped
      <3>10. Total(Append(shorter, r), price) = Total(shorter, price) + price[r]
        BY <3>5, <3>7, <3>9, TotalAppend
      <3>11. Len(Append(shorter, r)) = k
        BY <3>5, <3>6
      <3>12. QED
        BY <3>2, <3>3, <3>6, <3>8, <3>10, <3>11
    <2>2. Reaches(k, n) = k..n /\ k \in 0..most
      BY DEF Reaches
    <2>3. QED
      BY <2>1, <2>2 DEF PricedLines
  <1> HIDE DEF T
  <1>3. \A k \in 0..most : k \in T
    BY <1>1, <1>2, Upward
  <1>4. QED
    BY <1>3 DEF T

\* Lines of a page, at most `most' of them, cost no less than the table says.
LEMMA NoLinesCheaper ==
    ASSUME NEW chars \in Seq(Nat), NEW perLine \in Nat, NEW n \in Nat, n = Len(chars),
           NEW most \in Nat, NEW lines, LineTables(lines, chars, perLine, most),
           NEW price, price = LinePrices(chars, perLine),
           NEW ranges, Tiles(ranges, n), NEW m \in 1..most, m = Len(ranges)
    PROVE  m <= n /\ lines[m][n].cost <= Total(ranges, price)
  <1>1. PICK ends : Along(ends, ranges, n)
    BY TilesAlong
  <1>2. ends[0] = 0 /\ ends[m] = n
    BY <1>1 DEF Along
  <1>3. ASSUME NEW p \in 1..m
        PROVE  /\ price[ranges[p]] \in Int /\ ranges[p] = <<ends[p - 1], ends[p]>>
               /\ ends[p - 1] \in 0..n /\ ends[p] \in 1..n /\ ends[p - 1] < ends[p]
    <2>1. ranges[p] \in Spans(Len(chars))
      BY TilesSpan
    <2>2. price[ranges[p]] \in Int
      BY <2>1, LinePricesTyped
    <2>3. QED
      BY <1>1, <2>2 DEF Along
  <1>4. \A p \in 0..m : ends[p] \in 0..n /\ ends[p] >= p
    <2> DEFINE T == {p \in 0..m : ends[p] \in 0..n /\ ends[p] >= p}
    <2>1. 0 \in T
      BY <1>2
    <2>2. ASSUME NEW p \in 1..m, p - 1 \in T PROVE p \in T
      <3>1. PICK a \in 0..n, b \in 1..n : a = ends[p - 1] /\ b = ends[p] /\ a < b
        BY <1>3
      <3>2. a >= p - 1
        BY <2>2, <3>1
      <3>3. b >= p /\ b \in 0..n /\ p \in 0..m
        BY <3>1, <3>2
      <3>4. QED
        BY <3>1, <3>3
    <2> HIDE DEF T
    <2>3. \A p \in 0..m : p \in T
      <3>1. m \in Nat
        OBVIOUS
      <3>2. QED
        BY <2>1, <2>2, <3>1, Upward
    <2>4. QED
      BY <2>3 DEF T
  <1>5. ASSUME NEW p \in 0..m PROVE ends[p] \in Reaches(p, n)
    <2>1. CASE p = 0
      BY <1>2, <2>1 DEF Reaches
    <2>2. CASE p # 0
      <3>1. ends[p] \in 0..n /\ ends[p] >= p
        BY <1>4
      <3>2. ends[p] \in p..n
        BY <3>1
      <3>3. QED
        BY <2>2, <3>2 DEF Reaches
    <2>3. QED
      BY <2>1, <2>2
  <1>6. PICK bound : bound = [p \in 0..m |-> lines[p][ends[p]].cost]
    OBVIOUS
  <1>7. ASSUME NEW p \in 0..m PROVE bound[p] \in Int
    <2>1. p \in 0..most
      OBVIOUS
    <2>2. lines[p][ends[p]] \in CutRecord
      BY <1>5, <2>1 DEF LineTables, LineCuts
    <2>3. QED
      BY <1>6, <2>2 DEF CutRecord
  <1>8. bound[0] = 0 /\ bound[m] = lines[m][n].cost
    <2>1. lines[0][0].cost = 0
      <3>1. CutOfNothing[0].cost = 0
        BY DEF CutOfNothing
      <3>2. lines[0] = CutOfNothing
        BY DEF LineTables
      <3>3. QED
        BY <3>1, <3>2
    <2>2. QED
      BY <1>2, <1>6, <2>1
  <1>9. ASSUME NEW p \in 1..m PROVE bound[p] <= bound[p - 1] + price[ranges[p]]
    <2>1. PICK f \in 0..n, t \in 1..n : f = ends[p - 1] /\ t = ends[p] /\ f < t
      BY <1>3
    <2>2. p \in 0..m /\ p - 1 \in 0..m /\ p \in 1..most /\ p # 0
      OBVIOUS
    <2>3. f \in Reaches(p - 1, n) /\ t \in p..n
      BY <1>5, <2>1, <2>2 DEF Reaches
    <2>4. OneLineMore(lines[p][t], lines[p - 1], Reaches(p - 1, n), t, price)
      BY <2>2, <2>3, LineTableIs
    <2>5. lines[p][t].cost <= lines[p - 1][f].cost + price[<<f, t>>]
      BY <2>1, <2>3, <2>4 DEF OneLineMore
    <2>6. bound[p] = lines[p][t].cost /\ bound[p - 1] = lines[p - 1][f].cost /\ ranges[p] = <<f, t>>
      BY <1>3, <1>6, <2>1, <2>2
    <2>7. QED
      BY <2>5, <2>6
  <1>10. bound[m] <= Total(ranges, price)
    <2>1. \A p \in 1..m : price[ranges[p]] \in Int /\ bound[p] <= bound[p - 1] + price[ranges[p]]
      BY <1>3, <1>9
    <2>2. Len(ranges) \in Nat /\ Len(ranges) = m
      OBVIOUS
    <2>3. \A p \in 0..m : bound[p] \in Int
      BY <1>7
    <2>4. QED
      BY <1>8, <2>1, <2>2, <2>3, TotalAtLeast
  <1>11. m <= n
    <2>1. m \in 0..m
      OBVIOUS
    <2>2. QED
      BY <1>2, <1>4, <2>1
  <1>12. QED
    BY <1>8, <1>10, <1>11

\* breakLines breaks a page into the cheapest lines there are: no other lines that hold
\* its words once and in order, and are no more than the style allows, cost less in
\* squared slack and overflow, 4 for each line after the first included.
LinesCost(ranges, price) == Total(ranges, price) + (Len(ranges) - 1) * 4

THEOREM CheapestLines ==
    ASSUME NEW chars \in Seq(Nat), chars # <<>>, NEW perLine \in Nat, NEW most \in Nat \ {0},
           NEW ranges, Tiles(ranges, Len(chars)), Len(ranges) <= most
    PROVE  LET lines == BreakLines(chars, perLine, most)
               price == LinePrices(chars, perLine)
           IN  /\ Tiles(lines, Len(chars)) /\ Len(lines) <= most
               /\ LinesCost(lines, price) <= LinesCost(ranges, price)
  <1>1. PICK n \in Nat \ {0} : n = Len(chars)
    OBVIOUS
  <1>2. PICK price : price = LinePrices(chars, perLine)
    OBVIOUS
  <1>3. PICK found : found = BreakLines(chars, perLine, most) /\ Tiles(found, Len(chars))
    BY LinesTile
  <1>4. \A r \in Spans(Len(chars)) : price[r] \in Int
    BY <1>2, LinePricesTyped
  <1>5. PICK m \in Nat \ {0} : m = Len(ranges) /\ m <= most
    <2>1. Len(ranges) \in Nat
      BY TilesSpan
    <2>2. Len(ranges) # 0
      <3>1. ranges \in Seq(Nat \X Nat) /\ ranges # <<>>
        BY <1>1 DEF Tiles
      <3>2. QED
        BY <3>1
    <2>3. QED
      BY <2>1, <2>2
  <1>6. PICK ends : Along(ends, ranges, n)
    BY <1>1, TilesAlong
  <1>7. CASE n <= 1 \/ most <= 1
    <2>1. found = <<<<0, n>>>>
      BY <1>1, <1>3, <1>7 DEF BreakLines
    <2>2. m = 1
      <3>1. CASE most <= 1
        BY <1>5, <3>1
      <3>2. CASE m >= 2 /\ n <= 1
        <4>1. 1 \in 1..m /\ 2 \in 1..m
          BY <3>2
        <4>2. ends[1] \in 1..n /\ ends[2] \in 1..n /\ ends[2 - 1] < ends[2]
          BY <1>5, <1>6, <4>1 DEF Along
        <4>3. ends[1] = 1 /\ ends[2] = 1
          BY <3>2, <4>2
        <4>4. QED
          BY <4>2, <4>3
      <3>3. QED
        BY <1>5, <1>7, <3>1, <3>2
    <2>3. ranges = <<<<0, n>>>>
      <3>1. 1 \in 1..m
        BY <2>2
      <3>2. ranges[1] = <<ends[1 - 1], ends[1]>> /\ ends[0] = 0 /\ ends[m] = n
        BY <1>5, <1>6, <3>1 DEF Along
      <3>3. ranges[1] = <<0, n>> /\ ranges \in Seq(Nat \X Nat) /\ Len(ranges) = 1
        BY <1>5, <2>2, <3>2 DEF Tiles
      <3>4. ranges = [p \in 1..1 |-> <<0, n>>]
        <4>1. PICK r : r = ranges[1]
          OBVIOUS
        <4>2. ranges = [p \in 1..1 |-> r]
          <5>1. ranges \in Seq(Nat \X Nat) /\ Len(ranges) = 1
            BY <3>3
          <5>2. DOMAIN ranges = 1..1 /\ ranges = [p \in 1..1 |-> ranges[p]]
            BY <5>1
          <5>3. \A p \in 1..1 : p = 1
            OBVIOUS
          <5>4. QED
            BY <4>1, <5>2, <5>3
        <4>3. QED
          BY <3>3, <4>1, <4>2
      <3>5. <<<<0, n>>>> = [p \in 1..1 |-> <<0, n>>]
        OBVIOUS
      <3>6. QED
        BY <3>4, <3>5
    <2>4. Total(ranges, price) \in Int
      BY <1>4, TotalTyped
    <2>5. PICK cost \in Int : cost = LinesCost(ranges, price)
      BY <1>5, <2>4 DEF LinesCost
    <2>6. found = ranges
      BY <2>1, <2>3
    <2>7. Len(found) <= most /\ LinesCost(found, price) <= LinesCost(ranges, price)
      BY <2>5, <2>6
    <2>8. QED
      BY <1>2, <1>3, <2>7
  <1>8. CASE n > 1 /\ most > 1
    <2>1. PICK lines : /\ LineTables(lines, chars, perLine, most)
                       /\ FewestBest(found, lines, n, most)
      BY <1>1, <1>3, <1>8, LinesFound
    <2>2. PICK least : least = Min({n, most})
      OBVIOUS
    <2>3. least \in Int /\ (m <= n => m <= least)
      <3>1. Min({n, most}) \in Int /\ Min({n, most}) \in {n, most}
        <4>1. n \in Int /\ most \in Int
          OBVIOUS
        <4>2. QED
          BY <4>1, MinOf
      <3>2. QED
        BY <1>5, <2>2, <3>1
    <2>4. PICK k \in 1..least :
             /\ k \in 1..most /\ k <= n /\ found = lines[k][n].ranges
             /\ \A l \in 1..least :
                  lines[k][n].cost + (k - 1) * 4 <= lines[l][n].cost + (l - 1) * 4
      BY <2>1, <2>2 DEF FewestBest
    <2>5. m <= n /\ lines[m][n].cost <= Total(ranges, price)
      <3>1. m \in 1..most /\ Tiles(ranges, n)
        BY <1>1, <1>5
      <3>2. QED
        BY <1>1, <1>2, <1>5, <2>1, <3>1, NoLinesCheaper
    <2>6. lines[k][n].cost + (k - 1) * 4 <= lines[m][n].cost + (m - 1) * 4
      <3>1. m \in 1..least
        BY <1>5, <2>3, <2>5
      <3>2. QED
        BY <2>4, <3>1
    <2>7. Len(found) = k /\ lines[k][n].cost = Total(found, price)
      <3>1. k \in 0..most /\ n \in Reaches(k, n)
        BY <2>4 DEF Reaches
      <3>2. PricedLines(lines[k], k, n, price)
        BY <1>1, <1>2, <2>1, <3>1, LinesPriced
      <3>3. QED
        BY <2>4, <3>1, <3>2 DEF PricedLines
    <2>8. LinesCost(found, price) <= LinesCost(ranges, price)
      <3>1. PICK a \in Int, b \in Int : a = Total(found, price) /\ b = Total(ranges, price)
        BY <1>3, <1>4, <1>1, TotalTyped
      <3>2. PICK c \in Int : c = lines[m][n].cost
        <4>1. m \in 0..most /\ n \in Reaches(m, n)
          BY <1>5, <2>5 DEF Reaches
        <4>2. lines[m][n] \in CutRecord
          BY <1>1, <2>1, <4>1 DEF LineTables, LineCuts
        <4>3. QED
          BY <4>2 DEF CutRecord
      <3>3. a + (k - 1) * 4 <= c + (m - 1) * 4 /\ c <= b
        BY <2>5, <2>6, <2>7, <3>1, <3>2
      <3>4. a + (k - 1) * 4 <= b + (m - 1) * 4
        <4>1. PICK x \in Int, y \in Int : x = (k - 1) * 4 /\ y = (m - 1) * 4
          BY <1>5, <2>4
        <4>2. a + x <= c + y /\ c <= b
          BY <3>3, <4>1
        <4>3. a + x <= b + y
          BY <4>2
        <4>4. QED
          BY <4>1, <4>3
      <3>5. QED
        BY <1>5, <2>7, <3>1, <3>4 DEF LinesCost
    <2>9. Len(found) <= most
      BY <2>4, <2>7
    <2>10. QED
      BY <1>2, <1>3, <2>8, <2>9
  <1>9. QED
    BY <1>1, <1>7, <1>8

\* The pages of a document share out its words as the constraints allow, and no other
\* way that they allow costs less.
PageRanges(pages) == [p \in 1..Len(pages) |-> <<pages[p].from, pages[p].to>>]
PagedCheaply(doc) ==
    LET forced == Forced(doc.words, doc.breaks)
        forbidden == Forbidden(doc.words, doc.breaks, doc.joins)
        price == PagePrices(doc.words, doc.limits)
    IN  \A ranges \in Seq(Nat \X Nat) :
           Tiles(ranges, Len(doc.words)) /\ Allowed(ranges, doc.limits, forced, forbidden)
           => /\ Allowed(PageRanges(doc.pages), doc.limits, forced, forbidden)
              /\ Total(PageRanges(doc.pages), price) <= Total(ranges, price)

LEMMA PagesAreSegments ==
    ASSUME NEW words \in Seq(Word), NEW limits \in Limits, NEW breaks, NEW joins, NEW revision,
           NEW pages, pages = PagesOf(words, limits, breaks, joins, revision),
           NEW forced, forced = Forced(words, breaks)
    PROVE  PageRanges(pages) = SegmentWords(words, limits, forced, Forbidden(words, breaks, joins))
  <1>1. PICK ranges : ranges = SegmentWords(words, limits, forced, Forbidden(words, breaks, joins))
    OBVIOUS
  <1>2. /\ DOMAIN pages = 1..Len(ranges)
        /\ \A p \in 1..Len(ranges) : pages[p].from = ranges[p][1] /\ pages[p].to = ranges[p][2]
    BY <1>1, PagesStart
  <1>3. PICK m \in Nat : m = Len(ranges) /\ ranges \in Seq(Nat \X Nat)
    BY <1>1, SegmentsTile DEF Tiles
  <1>4. Len(pages) = m
    BY <1>2, <1>3
  <1>5. ASSUME NEW p \in 1..m PROVE PageRanges(pages)[p] = ranges[p]
    <2>1. ranges[p] \in Nat \X Nat
      BY <1>3
    <2>2. ranges[p] = <<ranges[p][1], ranges[p][2]>>
      BY <2>1
    <2>3. PageRanges(pages)[p] = <<pages[p].from, pages[p].to>>
      BY <1>4 DEF PageRanges
    <2>4. QED
      BY <1>2, <1>3, <2>2, <2>3
  <1>6. DOMAIN PageRanges(pages) = 1..m /\ PageRanges(pages) = [p \in 1..m |-> PageRanges(pages)[p]]
    BY <1>4 DEF PageRanges
  <1>7. ranges = [p \in 1..m |-> ranges[p]]
    BY <1>3
  <1>8. QED
    BY <1>1, <1>5, <1>6, <1>7

\* Whatever clients patch and generations replace, and in whatever order the two are
\* served, the project's pages are a cheapest paging of its words that obeys its
\* limits and its manual splits and joins, wherever one does (segmentation.ts); as
\* above, the terms of a cost are rounded down to 1/Unit.
THEOREM PagesStayCheapest == Spec => []PagedCheaply(project.doc)
  <1>1. ASSUME NEW doc, Current(doc) PROVE PagedCheaply(doc)
    <2>1. doc.words \in Seq(Word) /\ doc.limits \in Limits
      BY <1>1 DEF Current, Docs
    <2>2. PICK forced : forced = Forced(doc.words, doc.breaks)
      OBVIOUS
    <2>3. PICK forbidden : forbidden = Forbidden(doc.words, doc.breaks, doc.joins)
      OBVIOUS
    <2>4. PICK price : price = PagePrices(doc.words, doc.limits)
      OBVIOUS
    <2>5. PageRanges(doc.pages) = SegmentWords(doc.words, doc.limits, forced, forbidden)
      BY <1>1, <2>1, <2>2, <2>3, PagesAreSegments DEF Current
    <2>6. ASSUME NEW ranges, Tiles(ranges, Len(doc.words)),
                 Allowed(ranges, doc.limits, forced, forbidden)
          PROVE  /\ Allowed(PageRanges(doc.pages), doc.limits, forced, forbidden)
                 /\ Total(PageRanges(doc.pages), price) <= Total(ranges, price)
      BY <2>1, <2>4, <2>5, <2>6, CheapestPages
    <2>7. QED
      BY <2>2, <2>3, <2>4, <2>6 DEF PagedCheaply
  <1>2. DocInv => PagedCheaply(project.doc)
    BY <1>1 DEF DocInv, ServerDoc, Good
  <1>3. QED
    BY <1>2, DocInvariant, PTL
=============================================================================
