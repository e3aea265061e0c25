---------------------------- MODULE Detokenizer ----------------------------
(***************************************************************************)
(* IncrementalDetokenizer (cuinfer/tokenizer.py): the tokens of one        *)
(* request become text as they arrive.  Tokens are pieces of UTF-8: a      *)
(* token may end inside a character, and may even hold the end of one and  *)
(* the beginning of the next.                                              *)
(*                                                                         *)
(* Bytes are taken by class: "a" and " " are characters of one byte, "2"   *)
(* and "3" lead characters of two and three, "c" continues them.  A        *)
(* character is named by its lead, "?" is U+FFFD.  A token is its bytes; a *)
(* special token has none, as decode skips it.                             *)
(***************************************************************************)
EXTENDS Integers, Sequences, SequencesExt

CONSTANTS
    Vocabulary,      \* the tokens, each a sequence of bytes
    Prompts,         \* bound: the prompts, sequences of tokens
    PromptContext,   \* tokens of the prompt that are kept, 5 in the code
    MaxNewTokens     \* bound: tokens of one completion

ASSUME DetokenizerAssumption ==
    /\ Vocabulary \subseteq Seq({"a", " ", "2", "3", "c"})
    /\ Prompts \subseteq Seq(Vocabulary) \ {<<>>}
    /\ PromptContext \in Nat \ {0}
    /\ MaxNewTokens \in Nat

VARIABLES
    strips,        \* whether this tokenizer's decode drops a leading space
    prompt,        \* prompt_token_ids
    tokenIds,      \* self.token_ids
    prefixOffset,  \* self.prefix_offset
    readOffset,    \* self.read_offset
    accepted,      \* the tokens pushed, without the one STOP drops
    written,       \* what push returned, concatenated
    finished       \* a finish reason other than RUNNING came

vars == <<strips, prompt, tokenIds, prefixOffset, readOffset, accepted, written, finished>>

-----------------------------------------------------------------------------
(* The tokenizer's decode *)

Continuations(byte) == CASE byte = "2" -> 1 [] byte = "3" -> 2 [] OTHER -> 0

\* Byte i of s belongs to the character that an earlier byte leads.
Continues(s, i) ==
    \E j \in 1 .. i - 1 :
        /\ i - j <= Continuations(s[j])
        /\ \A k \in j + 1 .. i : s[k] = "c"

\* The character that begins at byte i, or U+FFFD for what is no character.
CharacterAt(s, i) ==
    IF /\ s[i] # "c"
       /\ \A k \in i + 1 .. i + Continuations(s[i]) : k <= Len(s) /\ s[k] = "c"
    THEN s[i] ELSE "?"

\* UTF-8 with each ill-formed part replaced, byte by byte.
Characters(s) ==
    LET upTo[n \in 0 .. Len(s)] ==
            IF n = 0 THEN <<>>
            ELSE IF Continues(s, n) THEN upTo[n - 1]
            ELSE Append(upTo[n - 1], CharacterAt(s, n))
    IN  upTo[Len(s)]

Decode(tokens) ==
    LET text == Characters(FlattenSeq(tokens))
    IN  IF strips /\ text # <<>> /\ text[1] = " " THEN Tail(text) ELSE text

-----------------------------------------------------------------------------

Init ==
    /\ strips \in BOOLEAN
    /\ prompt \in Prompts
    /\ tokenIds = SubSeq(prompt, IF Len(prompt) > PromptContext
                                 THEN Len(prompt) - PromptContext + 1 ELSE 1, Len(prompt))
    /\ prefixOffset = 0
    /\ readOffset = Len(tokenIds)
    /\ accepted = <<>> /\ written = <<>>
    /\ finished = FALSE

\* Mutant: whatever is new is returned, complete or not.
Withheld_Never(prefix, text) == Len(text) <= Len(prefix)

\* push returns nothing: there is nothing new, or its end is not complete.
Withheld(prefix, text) == Len(text) <= Len(prefix) \/ Last(text) = "?"

\* What push counts of the tokens it is given.
Counted(new, reason) == IF reason = "stop" THEN Front(new) ELSE new

Push(new, reason) ==
    LET ids == tokenIds \o Counted(new, reason)
        prefix == Decode(SubSeq(ids, prefixOffset + 1, readOffset))
        text == Decode(SubSeq(ids, prefixOffset + 1, Len(ids)))
    IN  /\ ~finished
        /\ finished' = (reason # "running")
        /\ accepted' = accepted \o Counted(new, reason)
        /\ tokenIds' = ids
        /\ IF Withheld(prefix, text)
           THEN UNCHANGED <<prefixOffset, readOffset, written>>
           ELSE /\ written' = written \o SubSeq(text, Len(prefix) + 1, Len(text))
                /\ prefixOffset' = readOffset
                /\ readOffset' = Len(ids)
        /\ UNCHANGED <<strips, prompt>>

\* The engine sends one token at a time; push takes several as well.
Next ==
    \E new \in SeqOf(Vocabulary, 2) \ {<<>>}, reason \in {"running", "stop", "length"} :
        /\ Len(accepted) + Len(new) <= MaxNewTokens
        /\ Push(new, reason)

Spec == Init /\ [][Next]_vars

-----------------------------------------------------------------------------
(* Properties *)

\* What the completion adds to the text of the whole prompt.
Completion ==
    LET text == Decode(prompt \o accepted)
    IN  SubSeq(text, Len(Decode(prompt)) + 1, Len(text))

\* The text can be told apart from the prompt's: the prompt ends with a whole
\* character, and among the tokens that are kept there is some text.
PromptIsText ==
    LET text == Decode(prompt) IN
    /\ text # <<>> /\ Last(text) # "?"
    /\ Decode(SubSeq(tokenIds, 1, Len(tokenIds) - Len(accepted))) # <<>>

\* Whatever the tokens are cut into, what a client has read is a beginning of
\* the one decode of everything, nothing lost, repeated or taken back; and it
\* is all of it as soon as the last character is complete (push).
StreamIsCompletion ==
    PromptIsText =>
        /\ IsPrefix(written, Completion)
        /\ Completion = <<>> \/ Last(Completion) = "?" \/ written = Completion
=============================================================================
