---------------------------- MODULE ManagedBlock ----------------------------
(***************************************************************************)
(* src/src/authorized_keys.rs, upsert_managed_block, with the key          *)
(* normalisation of src/src/ssh_keys.rs: what an update makes of the text  *)
(* of authorized_keys while its owner edits it too.                        *)
(*                                                                         *)
(* A text is [lines, nl]: its lines and whether it ends with a newline.  A *)
(* line is a kind and its words; "begin" and "end" are the lines that trim *)
(* to the markers.  A raw key is [words, tidy]: its words and whether it   *)
(* is laid out with single spaces and no surrounding white space.          *)
(***************************************************************************)
EXTENDS Naturals, SequencesExt

CONSTANTS
    RawKey,         \* the key texts an update may be given
    Algorithm,      \* is_supported_algorithm
    UserLine,       \* the lines the owner may write
    Edit,           \* how the owner edits: subset of {"insert", "delete",
                    \*   "append", "delete_marker"}
    MaxLines,       \* the longest text
    MaxKeys,        \* the most keys of an update
    MaxEdits        \* how often the owner edits

ASSUME BoundsAssumption == MaxLines \in Nat \ {0, 1} /\ MaxKeys \in Nat /\ MaxEdits \in Nat

VARIABLES
    text,           \* the content of authorized_keys
    mine,           \* the owner's lines that ought to be there (history)
    applied,        \* the keys of the last update (history)
    result,         \* what the last update returned, or "edited"
    edits           \* how often the owner has edited

vars == <<text, mine, applied, result, edits>>

BEGIN == <<"begin", <<>>>>
END == <<"end", <<>>>>
Blank == <<"blank", <<>>>>
KeyLine(k) == <<"key", k.words>>
OwnerLine(u) == <<"owner", <<u>>>>
\* Two texts in one line: neither marker nor key nor what the owner wrote.
Glued(l, m) == <<"glued", <<l[1]>> \o l[2] \o m[2]>>

-----------------------------------------------------------------------------
(* ssh_keys.rs                                                             *)

\* parse_public_key: at least an algorithm, which is a supported one, and
\* its data; the rest is the comment.
parses(raw) == Len(raw.words) >= 2 /\ raw.words[1] \in Algorithm

\* Variant: the algorithm is dropped with the white space before it.
normalize_public_key_bare(raw) == [words |-> Tail(raw.words), tidy |-> TRUE]

\* normalize_public_key: the words with single spaces.
normalize_public_key(raw) == [words |-> raw.words, tidy |-> TRUE]

-----------------------------------------------------------------------------
(* authorized_keys.rs                                                      *)

\* Variant: duplicates are looked for before the keys are normalised.
normalize_and_dedup_raw(keys) ==
    FoldLeft(LAMBDA out, raw : IF Contains(out, raw) THEN out ELSE Append(out, raw),
             <<>>, keys)

\* normalize_and_dedup: the first of each normalised key, in order.
normalize_and_dedup(keys) ==
    FoldLeft(LAMBDA out, raw : IF Contains(out, normalize_public_key(raw)) THEN out
                               ELSE Append(out, normalize_public_key(raw)),
             <<>>, keys)

Positions(lines, marker) == {i \in 1 .. Len(lines) : lines[i] = marker}

\* Iterator::position: the first one.
position(lines, marker) ==
    CHOOSE i \in Positions(lines, marker) :
        \A j \in Positions(lines, marker) : i <= j

\* append_managed_block
managed_block(keys) ==
    <<BEGIN>> \o [i \in 1 .. Len(keys) |-> KeyLine(keys[i])] \o <<END>>

\* output_lines.join("\n"), as lines() will read it: a last line that is
\* empty is the newline before it.
join(lines) ==
    IF lines # <<>> /\ Last(lines) = Blank
    THEN [lines |-> Front(lines), nl |-> Len(lines) > 1]
    ELSE [lines |-> lines, nl |-> FALSE]

\* Variants: the separating empty line is written again; the markers are
\* taken in either order.
replaced_separated(lines, keys) ==
    SubSeq(lines, 1, position(lines, BEGIN) - 1)
    \o <<Blank>> \o managed_block(keys)
    \o SubSeq(lines, position(lines, END) + 1, Len(lines))
replaced_unordered(lines, keys) ==
    SubSeq(lines, 1, Min({position(lines, BEGIN), position(lines, END)}) - 1)
    \o managed_block(keys)
    \o SubSeq(lines, Max({position(lines, BEGIN), position(lines, END)}) + 1, Len(lines))

\* The new text when both markers are there: everything from the first begin
\* marker to the first end marker gives way to the block.
replaced(lines, keys) ==
    SubSeq(lines, 1, position(lines, BEGIN) - 1)
    \o managed_block(keys)
    \o SubSeq(lines, position(lines, END) + 1, Len(lines))

\* The new text when there is no begin marker: the block comes last, after
\* an empty line.
appended(lines, keys) ==
    lines
    \o (IF lines = <<>> \/ Last(lines) = Blank THEN <<>> ELSE <<Blank>>)
    \o managed_block(keys)

\* Variant: one marker without the other leaves the text as it is.
upsert_managed_block_cautious(lines, keys) ==
    IF Positions(lines, BEGIN) # {}
    THEN replaced(lines, normalize_and_dedup(keys))
    ELSE IF Positions(lines, END) # {} THEN lines
    ELSE appended(lines, normalize_and_dedup(keys))

upsert_managed_block(lines, keys) ==
    IF Positions(lines, BEGIN) # {}
    THEN replaced(lines, normalize_and_dedup(keys))
    ELSE appended(lines, normalize_and_dedup(keys))

MissingManagedEnd(lines) ==
    Positions(lines, BEGIN) # {} /\ Positions(lines, END) = {}

-----------------------------------------------------------------------------
\* A text that an editor saved ends with a newline.
Saved(lines) == [lines |-> lines, nl |-> lines # <<>>]

Init ==
    /\ \E u \in BoundedSeq(UserLine, 2) :
          /\ text = Saved([i \in 1 .. Len(u) |-> OwnerLine(u[i])])
          /\ mine = Range(u)
    /\ applied = <<>>
    /\ result = "edited"
    /\ edits = 0

Keys == BoundedSeq(RawKey, MaxKeys)

\* apply_managed_block_to_file: the update succeeds.
Apply(keys) ==
    /\ \A i \in 1 .. Len(keys) : parses(keys[i])
    /\ ~MissingManagedEnd(text.lines)
    /\ LET lines == upsert_managed_block(text.lines, keys)
       IN  /\ Len(lines) <= MaxLines
           /\ text' = join(lines)
    /\ applied' = keys
    /\ result' = "ok"
    /\ UNCHANGED <<mine, edits>>

\* It fails on a key before it looks at the text, or on the markers; both
\* leave the file alone.
ApplyInvalidKey(keys) ==
    /\ \E i \in 1 .. Len(keys) : ~parses(keys[i])
    /\ result' = "InvalidPublicKey"
    /\ UNCHANGED <<text, mine, applied, edits>>

ApplyMissingEnd(keys) ==
    /\ \A i \in 1 .. Len(keys) : parses(keys[i])
    /\ MissingManagedEnd(text.lines)
    /\ result' = "MissingManagedEnd"
    /\ UNCHANGED <<text, mine, applied, edits>>

\* The positions at which the owner's editor is not inside the block.
Outside(lines) ==
    {i \in 1 .. Len(lines) + 1 :
        ~(/\ \E j \in Positions(lines, BEGIN) : j < i
          /\ \E j \in Positions(lines, END) : j >= i)}

Edited ==
    /\ edits < MaxEdits
    /\ edits' = edits + 1
    /\ result' = "edited"
    /\ UNCHANGED applied

\* The owner adds a line with an editor.
InsertLine(u) ==
    /\ "insert" \in Edit
    /\ u \notin mine
    /\ Len(text.lines) < MaxLines
    /\ \E i \in Outside(text.lines) :
          text' = Saved(InsertAt(text.lines, i, OwnerLine(u)))
    /\ mine' = mine \cup {u}
    /\ Edited

\* The lines that are not the given one, in order.
without(lines, line) ==
    FoldLeft(LAMBDA out, l : IF l = line THEN out ELSE Append(out, l), <<>>, lines)

\* The owner removes all lines u with an editor.
DeleteLine(u) ==
    /\ "delete" \in Edit
    /\ u \in mine
    /\ text' = Saved(without(text.lines, OwnerLine(u)))
    /\ mine' = mine \ {u}
    /\ Edited

\* The markers are in order: none of them, or one block.
InOrder(lines) ==
    \/ Positions(lines, BEGIN) = {} /\ Positions(lines, END) = {}
    \/ \E b, e \in 1 .. Len(lines) :
          b < e /\ Positions(lines, BEGIN) = {b} /\ Positions(lines, END) = {e}

\* The owner removes one marker but not the rest of the block: a begin marker,
\* or the end marker of the only block.
DeleteMarker(marker) ==
    /\ "delete_marker" \in Edit
    /\ Positions(text.lines, marker) # {}
    /\ marker = END => InOrder(text.lines)
    /\ text' = Saved(RemoveAt(text.lines, position(text.lines, marker)))
    /\ Edited
    /\ UNCHANGED mine

\* echo u >> authorized_keys: a text without a last newline goes on in the
\* same line.
AppendLine(u) ==
    /\ "append" \in Edit
    /\ u \notin mine
    /\ Len(text.lines) < MaxLines
    /\ text' = [lines |-> IF text.nl \/ text.lines = <<>>
                          THEN Append(text.lines, OwnerLine(u))
                          ELSE Append(Front(text.lines),
                                      Glued(Last(text.lines), OwnerLine(u))),
                nl |-> TRUE]
    /\ mine' = mine \cup {u}
    /\ Edited

Next ==
    \/ \E keys \in Keys : Apply(keys) \/ ApplyInvalidKey(keys) \/ ApplyMissingEnd(keys)
    \/ \E u \in UserLine : InsertLine(u) \/ DeleteLine(u) \/ AppendLine(u)
    \/ \E marker \in {BEGIN, END} : DeleteMarker(marker)

Spec == Init /\ [][Next]_vars

-----------------------------------------------------------------------------
(* Properties                                                              *)

Line == {BEGIN, END, Blank} \cup {KeyLine(k) : k \in RawKey}
         \cup {OwnerLine(u) : u \in UserLine}

\* The type of a line that the owner's shell may have glued to another.
IsLine(l) == l \in Line \/ l[1] = "glued"

\* The type of the state.
TypeOK ==
    /\ text = [lines |-> text.lines, nl |-> text.nl]
    /\ Len(text.lines) <= MaxLines /\ \A i \in 1 .. Len(text.lines) : IsLine(text.lines[i])
    /\ text.nl \in BOOLEAN
    /\ mine \subseteq UserLine
    /\ applied \in Keys
    /\ edits \in 0 .. MaxEdits
    /\ result \in {"edited", "ok", "InvalidPublicKey", "MissingManagedEnd"}

\* README: "user-managed lines outside this block are preserved": every line
\* the owner wrote and did not remove is a line of the file, whatever
\* updates came in between.
OwnerLinesKept == \A u \in mine : Contains(text.lines, OwnerLine(u))

\* README: "updates are idempotent (reapplying same keys does not duplicate
\* entries)": unless the owner disturbed the markers, the update of an
\* updated text with the same keys gives the same lines.
Idempotent ==
    result = "ok" /\ InOrder(text.lines) =>
        upsert_managed_block(text.lines, applied) = text.lines

\* Whichever marker the owner removed, an update that reports success has
\* put every key it was given into the file,
KeysPresent ==
    result = "ok" => \A k \in Range(applied) : Contains(text.lines, KeyLine(k))

\* and neither an update nor a failed one drops a line of the owner.
UpdateKeepsOwnerLines ==
    [][mine' = mine =>
          \A l \in Range(text.lines) : l[1] \in {"owner", "glued"} => Contains(text'.lines, l)]_vars

\* An update of a text with its markers in order leaves exactly one block,
\* which holds the keys of this update, each once, however they were laid
\* out: a block never nests, doubles or keeps keys of an earlier update.
BlockIsApplied ==
    [][edits' = edits /\ result' = "ok" /\ InOrder(text.lines) =>
          \E b, e \in 1 .. Len(text'.lines) :
              LET block == SubSeq(text'.lines, b + 1, e - 1)
              IN  /\ Positions(text'.lines, BEGIN) = {b}
                  /\ Positions(text'.lines, END) = {e}
                  /\ b < e
                  /\ IsInjective(block)
                  /\ Range(block) = {KeyLine(k) : k \in Range(applied')}]_vars
=============================================================================
