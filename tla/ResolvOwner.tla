---------------------------- MODULE ResolvOwner ----------------------------
(***************************************************************************)
(* resolvOwner of src/net/dns/direct.go: the diagnostic guess of which   *)
(* daemon wrote /etc/resolv.conf, from the comments at its top. A file is *)
(* its lines, each a sequence of tokens (a space, "#", the three daemon   *)
(* names, other words), and whether its last line ends in a newline.      *)
(* The function keeps no state; input is the file it is applied to.     *)
(***************************************************************************)
EXTENDS Naturals, Sequences, SequencesExt

CONSTANTS
    Words,      \* other text
    MaxLines,   \* bound on the lines of an enumerated file
    MaxTokens   \* bound on the tokens of an enumerated line

VARIABLE input

SP   == " "
Hash == "#"
Owners == <<"systemd-resolved", "NetworkManager", "resolvconf">>

RECURSIVE TrimLeft(_), TrimRight(_)
TrimLeft(s)  == IF s # <<>> /\ Head(s) = SP THEN TrimLeft(Tail(s)) ELSE s
TrimRight(s) == IF s # <<>> /\ Last(s) = SP THEN TrimRight(Front(s)) ELSE s
TrimSpace(s) == TrimRight(TrimLeft(s))

\* The if / else if chain on strings.Contains: the first daemon of Owners
\* the line names, or likely unchanged.
LineOwner(line, likely) ==
    LET named == {i \in 1..Len(Owners) : Owners[i] \in ToSet(line)}
    IN IF named = {} THEN likely ELSE Owners[Min(named)]

\* The lines ReadString('\n') hands to the loop: a last line without its
\* newline comes back with io.EOF and is not looked at.
ReadLines(f) ==
    IF f.terminated \/ f.lines = <<>> THEN f.lines ELSE Front(f.lines)

\* Mutant: a non-comment line is skipped like a blank one.
RECURSIVE ScanSkipsNonComment(_, _)
ScanSkipsNonComment(ls, likely) ==
    IF ls = <<>> THEN likely
    ELSE LET line == TrimSpace(Head(ls))
         IN CASE line = <<>> \/ Head(line) # Hash -> ScanSkipsNonComment(Tail(ls), likely)
              [] OTHER -> ScanSkipsNonComment(Tail(ls), LineOwner(line, likely))

\* The loop: skip blank lines, return at the first non-comment line,
\* otherwise let the line's daemon overwrite likely.
RECURSIVE Scan(_, _)
Scan(ls, likely) ==
    IF ls = <<>> THEN likely
    ELSE LET line == TrimSpace(Head(ls))
         IN CASE line = <<>>       -> Scan(Tail(ls), likely)
              [] Head(line) # Hash -> likely
              [] OTHER             -> Scan(Tail(ls), LineOwner(line, likely))

resolvOwner(f) == Scan(ReadLines(f), "")

-----------------------------------------------------------------------------
(* Inputs                                                                  *)

Tokens == {SP, Hash} \cup ToSet(Owners) \cup Words
Lines  == SeqOf(Tokens, MaxTokens)
Files  == [lines : SeqOf(Lines, MaxLines), terminated : BOOLEAN]

Init == input \in Files
Next == UNCHANGED input
Spec == Init /\ [][Next]_input

-----------------------------------------------------------------------------
(* Reference definitions and properties                                  *)

\* The leading block: the lines before the first non-blank line that is
\* not a comment.
LeadingBlock(ls) ==
    LET stops == {i \in DOMAIN ls : TrimSpace(ls[i]) # <<>>
                                    /\ Head(TrimSpace(ls[i])) # Hash}
        k == IF stops = {} THEN Len(ls) + 1 ELSE Min(stops)
    IN SubSeq(ls, 1, k - 1)

\* Indices of the leading-block lines that name a daemon.
Named(ls) ==
    LET b == LeadingBlock(ls)
    IN {i \in DOMAIN b : LineOwner(b[i], "") # ""}

\* resolvOwner answers with the daemon named by the last line of the
\* leading comment block that names one, among the lines ReadString
\* delivers: skipping blank lines and stopping at the first other line
\* are as the loop intends.
OwnerIsLastNamed ==
    LET ls == ReadLines(input)
    IN resolvOwner(input) =
         IF Named(ls) = {} THEN ""
         ELSE LineOwner(ls[Max(Named(ls))], "")

=============================================================================
