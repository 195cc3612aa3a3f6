-------------------------- MODULE MCCaptionEditing --------------------------
(* Instances of CaptionEditing for TLC. *)
EXTENDS CaptionEditing, TLC

Word(id, chars, start, end) == [id |-> id, chars |-> chars, start |-> start, end |-> end]
RawWord(chars, start, end, punctuation) ==
    [chars |-> chars, start |-> start, end |-> end, punctuation |-> punctuation]

\* The second word is as short as an edit of its time can make it.
MCWords == <<Word(1, 3, 0, 600), Word(2, 2, 1000, 1001), Word(3, 4, 1001, 1800)>>

\* Words out of order and too short, a comma of its own, an end past the media.
MCRaw == {<<RawWord(2, 200, 800, FALSE), RawWord(1, 800, 1000, TRUE),
            RawWord(3, 600, 600, FALSE), RawWord(2, 1800, 2800, FALSE)>>}

MCLook(word) ==
    [end |-> CASE word.id = 1 -> "clause" [] word.id % 4 = 2 -> "sentence" [] OTHER -> "none",
     quote |-> word.id = 5, starter |-> word.id = 3, weak |-> word.chars = 1,
     speaker |-> IF word.id = 3 THEN 2 ELSE word.id % 2]

\* One or two lines of five characters, two or three words.
MCLimitsOf == <<[words |-> 2, chars |-> 5, line |-> 5, lines |-> 1],
                [words |-> 3, chars |-> 10, line |-> 5, lines |-> 2]>>

MCStyles == {[lines |-> 2, colour |-> "white"]}
MCStylePatches == {[lines |-> 1, colour |-> "black"]}
MCTokens == {<<1, 2>>}
MCOtherKinds == {"delete", "insert", "resegment"}

\* The colour goes with a font.
MCReplaced == {{"colour", "font"}}

\* A generation with two edits of the style or one of any kind, and up to three
\* edits without one.
MCEffort == [kind \in {"style", "delete", "generate", "replace", "timing", "insert", "split",
                       "merge", "resegment", "preset"} |->
                CASE kind = "style" -> 3 [] kind = "delete" -> 4
                  [] kind \in {"generate", "replace"} -> 5 [] OTHER -> 6]
=============================================================================
