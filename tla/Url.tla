-------------------------------- MODULE Url --------------------------------
(***************************************************************************)
(* URL (src/net/url.cpp): a URL made of its parts has a text, and a text   *)
(* is parsed into parts, schema, host and port in turn.  Texts are         *)
(* sequences of symbols: the ones the parser tells apart, digits, and      *)
(* others, of which it only matters that they sort after '9'.              *)
(***************************************************************************)
EXTENDS Integers, SequencesExt

CONSTANTS
    Texts,    \* texts given to URL(str, e)
    Parts,    \* <<schema, host, port>> given to URL(schema, host, port)
    Digit,    \* the value of each symbol that is a digit
    Others,   \* symbols that are none of  : / [ ] - or a digit
    INT_MAX,  \* the largest int
    MaxDigits \* bound: digits of a port that is given

EOS     == "eos"
Symbols == DOMAIN Digit \cup Others \cup {":", "/", "[", "]", "-"}

(***************************************************************************)
(* The end of a text is no symbol of it.  A URL is given no port as -1.    *)
(***************************************************************************)
ASSUME UrlAssumption ==
    /\ \A d \in DOMAIN Digit : Digit[d] \in 0..9
    /\ (DOMAIN Digit \cup Others) \cap {":", "/", "[", "]", "-"} = {}
    /\ DOMAIN Digit \cap Others = {} /\ EOS \notin Symbols
    /\ Texts \subseteq Seq(Symbols)
    /\ INT_MAX \in Nat
    /\ Parts \subseteq Seq(Symbols) \X Seq(Symbols) \X (-1..INT_MAX)
    /\ MaxDigits \in Nat

VARIABLES
    str,     \* the text that is parsed
    given,   \* the parts that text was composed of, or <<>>
    pc,      \* the step of parse(), or what it returned
    p0,      \* parse()'s position: the symbols before it are done with
    m_schema, m_host, m_port, m_string,
    e        \* whether the RuntimeError holds an error

urlVars == <<str, given, pc, p0, m_schema, m_host, m_port, m_string, e>>

\* The symbol at an offset of the text; its end is a symbol too.
Sym(n) == IF n < Len(str) THEN str[n + 1] ELSE EOS

\* assign(str + from, n)
Piece(from, n) == SubSeq(str, from + 1, from + n)

(***************************************************************************)
(* Numbers: the digits of one, and the value of digits (atoi, which takes  *)
(* a sign and stops at the first symbol that is no digit).                 *)
(***************************************************************************)
Number(ds) == FoldLeft(LAMBDA v, d : 10 * v + Digit[d], 0, ds)

Decimals(n) ==
    {ds \in BoundedSeq(DOMAIN Digit, MaxDigits) :
        /\ ds # <<>> /\ Number(ds) = n
        /\ Len(ds) > 1 => Digit[ds[1]] # 0}

Decimal(n) == CHOOSE ds \in Decimals(n) : TRUE

\* A port has digits.
ASSUME PortsAssumption == \A p \in Parts : p[3] >= 0 => Decimals(p[3]) # {}

Digits(s) == SubSeq(s, 1, Max({n \in 0..Len(s) :
                                 \A i \in 1..n : s[i] \in DOMAIN Digit}))

Value(s) == IF s # <<>> /\ Head(s) = "-" THEN -Number(Digits(Tail(s)))
                                        ELSE Number(Digits(s))

Ints == -INT_MAX - 1 .. INT_MAX

\* What atoi may give: any int where the value is none (undefined behaviour).
atoi(s) == IF Value(s) \in Ints THEN {Value(s)} ELSE Ints

(***************************************************************************)
(* define_string                                                           *)
(***************************************************************************)
\* define_string that never puts a host into brackets.
NeedBrackets_Never(host) == FALSE

NeedBrackets(host) ==
    ":" \in ToSet(host) /\ Head(host) # "[" /\ Last(host) # "]"

define_string(schema, host, port) ==
    (IF schema # <<>> THEN schema \o <<":">> ELSE <<>>)
    \o (IF host # <<>> THEN <<"/", "/">> ELSE <<>>)
    \o (IF NeedBrackets(host) THEN <<"[">> \o host \o <<"]">> ELSE host)
    \o (IF port >= 0 THEN <<":">> \o Decimal(port) ELSE <<>>)

UrlInit ==
    /\ \/ given = <<>> /\ str \in Texts
       \/ /\ given \in Parts
          /\ str = define_string(given[1], given[2], given[3])
    /\ pc = "schema" /\ p0 = 0
    /\ m_schema = <<>> /\ m_host = <<>> /\ m_port = -1 /\ m_string = <<>>
    /\ e = FALSE

-----------------------------------------------------------------------------
(***************************************************************************)
(* parse(): one action per step.                                           *)
(***************************************************************************)
Refuse(reported) ==
    /\ pc' = "refused"
    /\ e' = reported
    /\ UNCHANGED <<p0, m_string>>

\* An empty schema is refused and no error is recorded.
parse_schema ==
    /\ pc = "schema"
    /\ LET colons == {n \in 0..Len(str) - 1 : Sym(n) = ":"} IN
       \/ colons = {} /\ Refuse(TRUE) /\ UNCHANGED m_schema
       \/ 0 \in colons /\ Refuse(FALSE) /\ UNCHANGED m_schema
       \/ /\ colons # {} /\ 0 \notin colons
          /\ m_schema' = Piece(0, Min(colons))
          /\ p0' = Min(colons) + 1
          /\ pc' = "host"
          /\ UNCHANGED <<m_string, e>>
    /\ UNCHANGED <<str, given, m_host, m_port>>

\* How many brackets are open before offset n; more may be closed than opened.
Depth(n) == Cardinality({i \in p0 + 2..n - 1 : Sym(i) = "["})
            - Cardinality({i \in p0 + 2..n - 1 : Sym(i) = "]"})

\* The end of a host that may not hold a colon, in brackets or not.
HostEnd_NoBrackets ==
    Min({n \in p0 + 2..Len(str) : Sym(n) \in {":", "/", EOS}})

HostEnd ==
    Min({n \in p0 + 2..Len(str) :
           Sym(n) = EOS \/ (Sym(n) \in {":", "/"} /\ Depth(n) = 0)})

\* The host with one of the slashes before it.
HostText_Slash(end) == Piece(p0 + 1, end - p0 - 1)

HostText(end) == Piece(p0 + 2, end - p0 - 2)

parse_host ==
    /\ pc = "host"
    /\ LET slashes == Sym(p0) = "/" /\ Sym(p0 + 1) = "/" IN
       \/ ~slashes /\ Refuse(TRUE) /\ UNCHANGED m_host
       \/ /\ slashes
          /\ m_host' = HostText(HostEnd)
          /\ p0' = HostEnd
          /\ pc' = IF Sym(HostEnd) = ":" THEN "port" ELSE "accept"
          /\ UNCHANGED <<m_string, e>>
    /\ UNCHANGED <<str, given, m_schema, m_port>>

(***************************************************************************)
(* The loop stops at a symbol after '9' and not at the end of the text, so *)
(* that it counts none only if the first symbol is such a one.  Where none *)
(* follows it reads on past the text (undefined behaviour): it finds one   *)
(* in what lies there, or crashes.  What it counts is of no consequence.   *)
(***************************************************************************)
After9 == Others \cup {":", "[", "]"}

RunsOn == \A n \in p0 + 1..Len(str) - 1 : Sym(n) \notin After9

parse_port ==
    /\ pc = "port"
    /\ \/ Sym(p0 + 1) \in After9 /\ Refuse(TRUE) /\ UNCHANGED m_port
       \/ /\ Sym(p0 + 1) \notin After9
          /\ m_port' \in atoi(SubSeq(str, p0 + 2, Len(str)))
          /\ pc' = "accept"
          /\ UNCHANGED <<p0, m_string, e>>
       \/ /\ RunsOn
          /\ pc' = "crashed"
          /\ UNCHANGED <<p0, m_port, m_string, e>>
    /\ UNCHANGED <<str, given, m_schema, m_host>>

\* The constructor keeps the text of a URL that was parsed.
Accept ==
    /\ pc = "accept"
    /\ m_string' = str
    /\ pc' = "accepted"
    /\ UNCHANGED <<str, given, p0, m_schema, m_host, m_port, e>>

UrlNext == parse_schema \/ parse_host \/ parse_port \/ Accept

UrlSpec == UrlInit /\ [][UrlNext]_urlVars

-----------------------------------------------------------------------------
(***************************************************************************)
(* Properties.                                                             *)
(***************************************************************************)
Plain(s) == s # <<>> /\ ToSet(s) \cap {":", "/", "[", "]"} = {}

Bracketed(s) == /\ Len(s) > 2 /\ s[1] = "[" /\ Last(s) = "]"
                /\ ToSet(Front(Tail(s))) \cap {"[", "]", "/"} = {}

\* The port of what follows the host: none, or digits that a path may follow.
PortOf(rest) ==
    IF rest # <<>> /\ rest[1] = ":" THEN Number(Digits(Tail(rest))) ELSE -1

FollowsHost(rest) ==
    \/ rest = <<>> \/ rest[1] = "/"
    \/ /\ rest[1] = ":" /\ Digits(Tail(rest)) # <<>>
       /\ LET path == SubSeq(rest, Len(Digits(Tail(rest))) + 2, Len(rest)) IN
          path = <<>> \/ path[1] = "/"

(***************************************************************************)
(* A text of the form schema://host, schema://host:port and either with a  *)
(* path behind it, its host a name or anything in brackets and its port an *)
(* int, is accepted with these parts and no error, if parse() returns.     *)
(***************************************************************************)
AcceptsUrls ==
    pc \in {"accepted", "refused"} =>
        \A i \in 0..Len(str) - 3 : \A j \in i + 3..Len(str) :
            LET host == SubSeq(str, i + 4, j)
                rest == SubSeq(str, j + 1, Len(str)) IN
            /\ Plain(Piece(0, i)) /\ Piece(i, 3) = <<":", "/", "/">>
            /\ Plain(host) \/ Bracketed(host)
            /\ FollowsHost(rest) /\ PortOf(rest) \in Ints
            => /\ pc = "accepted" /\ ~e
               /\ m_schema = Piece(0, i) /\ m_host = host
               /\ m_port = PortOf(rest)

(***************************************************************************)
(* Whatever is accepted is its schema, "://", its host and a rest that is  *)
(* empty or begins with a slash or, if there is a port, with a colon: no   *)
(* symbol of schema or host is lost or taken for another part's.           *)
(***************************************************************************)
PartsCompose ==
    pc = "accepted" =>
        LET front == m_schema \o <<":", "/", "/">> \o m_host
            rest  == SubSeq(str, Len(front) + 1, Len(str)) IN
        /\ IsPrefix(front, str) /\ ":" \notin ToSet(m_schema)
        /\ \/ m_port = -1 /\ (rest = <<>> \/ rest[1] = "/")
           \/ rest # <<>> /\ rest[1] = ":"

(***************************************************************************)
(* The text of a URL made of a schema, a host without brackets or slashes  *)
(* and a port parses, if parse() returns, into the same schema and port,   *)
(* and the same host in brackets if it has colons; made of these it has    *)
(* the same text again.                                                    *)
(***************************************************************************)
RoundTrip ==
    pc \in {"accepted", "refused"} /\ given # <<>> =>
        LET host == given[2] IN
        /\ Plain(given[1]) /\ host # <<>>
        /\ ToSet(host) \cap {"[", "]", "/"} = {}
        => /\ pc = "accepted" /\ ~e
           /\ m_schema = given[1] /\ m_port = given[3]
           /\ m_host = IF ":" \in ToSet(host) THEN <<"[">> \o host \o <<"]">>
                                              ELSE host
           /\ define_string(m_schema, m_host, m_port) = m_string

=============================================================================
