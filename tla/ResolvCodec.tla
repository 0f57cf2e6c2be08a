---------------------------- MODULE ResolvCodec ----------------------------
(***************************************************************************)
(* The resolv.conf codec of src/net/dns/direct.go: writeResolvConf and   *)
(* readResolv. A file is a sequence of lines (what bufio.Scanner splits), *)
(* a line a sequence of tokens: keywords, a space, "#", ".", and model    *)
(* values for addresses, domain labels and other words. Adjacent tokens  *)
(* are adjacent text, so <<"nameserver", i1>> is "nameserver1.2.3.4".     *)
(*                                                                         *)
(* The codec keeps no state; the variable input is the value it is       *)
(* applied to, fixed by Init, and the properties compare its results.    *)
(***************************************************************************)
EXTENDS Naturals, Sequences, SequencesExt

CONSTANTS
    IPs,          \* addresses netaddr.ParseIP accepts
    Domains,      \* single domain labels dnsname.ToFQDN accepts
    Words,        \* any other text
    ParseError,   \* model value: ParseIP or ToFQDN failed
    MaxServers, MaxDomains, MaxLine  \* bounds of the enumerated inputs

ASSUME ParseError \notin IPs \cup Domains \cup Words

VARIABLE input

SP   == " "
Hash == "#"
Dot  == "."

-----------------------------------------------------------------------------
(* writeResolvConf                                                         *)

\* A dnsname.FQDN is its labels followed by the trailing dot.
FQDN(d) == <<d, Dot>>
WithoutTrailingDot(f) == IF Last(f) = Dot THEN Front(f) ELSE f

\* Mutant: no space written between "nameserver" and the address.
writeResolvConfNoSpace(servers, domains) ==
    << <<Hash, SP, "resolv.conf(5) file generated by tailscale">>,
       <<Hash, SP, "DO NOT EDIT THIS FILE BY HAND -- CHANGES WILL BE OVERWRITTEN">>,
       <<>> >>
    \o [i \in 1..Len(servers) |-> <<"nameserver", servers[i]>>]
    \o IF domains = <<>> THEN <<>>
       ELSE << <<"search">> \o FlattenSeq([i \in 1..Len(domains) |->
                                  <<SP>> \o WithoutTrailingDot(domains[i])]) >>

writeResolvConf(servers, domains) ==
    << <<Hash, SP, "resolv.conf(5) file generated by tailscale">>,
       <<Hash, SP, "DO NOT EDIT THIS FILE BY HAND -- CHANGES WILL BE OVERWRITTEN">>,
       <<>> >>
    \o [i \in 1..Len(servers) |-> <<"nameserver", SP, servers[i]>>]
    \o IF domains = <<>> THEN <<>>
       ELSE << <<"search">> \o FlattenSeq([i \in 1..Len(domains) |->
                                  <<SP>> \o WithoutTrailingDot(domains[i])]) >>

-----------------------------------------------------------------------------
(* readResolv                                                              *)

RECURSIVE TrimLeft(_), TrimRight(_)
TrimLeft(s)  == IF s # <<>> /\ Head(s) = SP THEN TrimLeft(Tail(s)) ELSE s
TrimRight(s) == IF s # <<>> /\ Last(s) = SP THEN TrimRight(Front(s)) ELSE s
TrimSpace(s) == TrimRight(TrimLeft(s))

\* line[:strings.IndexByte(line, '#')]
CutComment(s) ==
    LET i == SelectInSeq(s, LAMBDA t : t = Hash)
    IN IF i > 0 THEN SubSeq(s, 1, i - 1) ELSE s

HasPrefix(s, keyword) == s # <<>> /\ Head(s) = keyword

ParseIP(s) == IF Len(s) = 1 /\ s[1] \in IPs THEN s[1] ELSE ParseError

\* The root name ".".
Root == <<Dot>>

\* dnsname.ToFQDN: "" and "." are the root; otherwise one name, with or
\* without its trailing dot; a space is not a valid label character.
ToFQDN(s) ==
    CASE s = <<>> \/ s = Root                          -> Root
      [] Len(s) = 1 /\ s[1] \in Domains               -> FQDN(s[1])
      [] Len(s) = 2 /\ s[1] \in Domains /\ s[2] = Dot -> s
      [] OTHER                                        -> ParseError

Entry(kind, val) == [kind |-> kind, val |-> val]
LineError == Entry("err", ParseError)

\* Mutant: the comment is not cut off.
ParseLineKeepsComment(raw) ==
    LET line == TrimSpace(raw)
        s    == Tail(line)
        v    == TrimSpace(s)
    IN CASE HasPrefix(line, "nameserver") ->
              IF Len(v) = Len(s) \/ ParseIP(v) = ParseError THEN LineError
              ELSE Entry("ns", ParseIP(v))
         [] HasPrefix(line, "search") ->
              IF Len(v) = Len(s) \/ ToFQDN(v) = ParseError THEN LineError
              ELSE Entry("search", ToFQDN(v))
         [] OTHER -> Entry("none", ParseError)

\* Mutant: the nameserver text is kept instead of the parsed address.
ParseLineRawValue(raw) ==
    LET line == CutComment(TrimSpace(raw))
        s    == Tail(line)
        v    == TrimSpace(s)
    IN CASE HasPrefix(line, "nameserver") ->
              IF Len(v) = Len(s) \/ ParseIP(v) = ParseError THEN LineError
              ELSE Entry("ns", v)
         [] HasPrefix(line, "search") ->
              IF Len(v) = Len(s) \/ ToFQDN(v) = ParseError THEN LineError
              ELSE Entry("search", ToFQDN(v))
         [] OTHER -> Entry("none", ParseError)

\* One iteration of the scanner loop: TrimSpace, cut the comment, then
\* a nameserver or search line needs a space after its keyword and one
\* parsable value; other lines are skipped.
ParseLine(raw) ==
    LET line == CutComment(TrimSpace(raw))
        s    == Tail(line)
        v    == TrimSpace(s)
    IN CASE HasPrefix(line, "nameserver") ->
              IF Len(v) = Len(s) \/ ParseIP(v) = ParseError THEN LineError
              ELSE Entry("ns", ParseIP(v))
         [] HasPrefix(line, "search") ->
              IF Len(v) = Len(s) \/ ToFQDN(v) = ParseError THEN LineError
              ELSE Entry("search", ToFQDN(v))
         [] OTHER -> Entry("none", ParseError)

OSConfig(ns, sd) == [ok |-> TRUE, ns |-> ns, sd |-> sd]
DecodeError == [ok |-> FALSE, ns |-> <<>>, sd |-> <<>>]

\* The loop returns OSConfig{} and the error at the first bad line.
ReadStep(acc, line) ==
    LET e == ParseLine(line)
    IN CASE ~acc.ok           -> acc
         [] e.kind = "err"    -> DecodeError
         [] e.kind = "ns"     -> [acc EXCEPT !.ns = Append(@, e.val)]
         [] e.kind = "search" -> [acc EXCEPT !.sd = Append(@, e.val)]
         [] OTHER             -> acc

readResolv(lines) == FoldLeft(ReadStep, OSConfig(<<>>, <<>>), lines)

-----------------------------------------------------------------------------
(* The inputs: configs to encode, and single lines to decode.            *)

Tokens == {"nameserver", "search", SP, Hash, Dot} \cup IPs \cup Domains \cup Words

ConfigInputs ==
    [kind : {"cfg"}, servers : SeqOf(IPs, MaxServers),
     domains : SeqOf({FQDN(d) : d \in Domains}, MaxDomains)]
LineInputs == [kind : {"line"}, line : SeqOf(Tokens, MaxLine)]

Init == input \in ConfigInputs \cup LineInputs
Next == UNCHANGED input
Spec == Init /\ [][Next]_input

Decoded == IF input.kind = "cfg"
             THEN readResolv(writeResolvConf(input.servers, input.domains))
             ELSE readResolv(<<input.line>>)

-----------------------------------------------------------------------------
(* Properties                                                              *)

\* readResolv yields an error, or addresses and FQDNs (the root among
\* them, for an empty search value) in sequences.
TypeOK ==
    /\ Decoded.ok \in BOOLEAN
    /\ Decoded.ns \in Seq(IPs)
    /\ Decoded.sd \in Seq({FQDN(d) : d \in Domains} \cup {Root})

\* Spec section 8: decoding an encoded config with at least one
\* nameserver gives the config back.
RoundTrip ==
    input.kind = "cfg" /\ input.servers # <<>>
      => Decoded = OSConfig(input.servers, input.domains)

\* The same, for configs with at most one search domain, where writer
\* and reader agree on the search line.
RoundTripOneSearchDomain ==
    input.kind = "cfg" /\ input.servers # <<>> /\ Len(input.domains) <= 1
      => Decoded = OSConfig(input.servers, input.domains)

\* Spec section 8: a trailing comment after a valid nameserver line is
\* ignored, with or without a space before the "#".
CommentIgnored ==
    input.kind = "line" /\ ParseLine(input.line).kind = "ns"
      => \A c \in {<<Hash>>, <<SP, Hash>>} \cup {<<Hash, w>> : w \in Words} :
            ParseLine(input.line \o c) = ParseLine(input.line)

\* Spec section 8: a line where "nameserver" is not followed by a space
\* is rejected.
KeywordNeedsSpace ==
    input.kind = "line" /\ Len(input.line) >= 2
    /\ input.line[1] = "nameserver" /\ input.line[2] # SP
      => ParseLine(input.line).kind = "err"

=============================================================================
