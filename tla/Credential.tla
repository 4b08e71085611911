----------------------------- MODULE Credential -----------------------------
(***************************************************************************)
(* One invocation of the helper, as git sees it: the request block git     *)
(* writes, its parsing and the dispatch in the daemon (git_credential.rs,  *)
(* the Step::Request arm of handle_connection, RepoPath::parse), and the   *)
(* response block that comes back (Response::new, encode).                 *)
(*                                                                         *)
(* Text is a sequence of tokens: one for each byte or word the code looks  *)
(* at, and ordinary words for the rest.  Lengths count tokens, so that the *)
(* limits are small.  The connection in between is Session and the mint    *)
(* is Mint; here a connection may fail and a mint returns a token or not.  *)
(* The kinds of GitCredentialError differ only in what is logged.          *)
(***************************************************************************)
EXTENDS Integers, Sequences, FiniteSets, SequencesExt

CONSTANTS
    Lines,           \* what git may write on a line; a line feed in a value makes two
    OddLines,        \* those of them a request has few of
    MaxLines,        \* bound on the lines of a request
    MaxOdd,          \* bound on its odd lines
    MaxValueBytes,
    WireReadBudget,
    ParserHardMax,
    Hosts,           \* the hosts of the configured providers
    Tokens,          \* what a provider may return as a token
    Expiries         \* and as its expiry, in seconds since the epoch

ASSUME LimitsAreNumbers == {MaxValueBytes, WireReadBudget, ParserHardMax} \subseteq Nat
ASSUME BudgetFits == WireReadBudget <= ParserHardMax

LF == "LF"
Control == {"CR", "NUL"}
Invalid == "0xff"            \* bytes that are not UTF-8
Required == {"protocol", "host", "path"}
Username == "x-access-token"
Decimal(n) == ToString(n)

\* A line is a sequence of tokens, at least one and none of them a line feed; so are
\* the digits of a number.
ASSUME LinesAreText == \A l \in Lines : l \in Seq(ToSet(l)) /\ l # <<>> /\ LF \notin ToSet(l)
ASSUME TokensAreText == \A t \in Tokens : t \in Seq(ToSet(t))
ASSUME ExpiriesAreNumbers == \A e \in Expiries : e \in Int /\ Decimal(e) # LF

VARIABLES
    action,          \* what git calls the helper for
    wrote,           \* the lines git has written
    ending,          \* what followed them
    input,           \* the request block
    at,              \* where the invocation is
    rest,            \* what the parser has not split into lines yet
    slots,           \* the fields it has found
    authtype,        \* client_supports_authtype
    minted,          \* the Response the provider has returned
    stdout,          \* what the helper has written
    exit             \* its exit code

vars == <<action, wrote, ending, input, at, rest, slots, authtype, minted, stdout, exit>>

NoResponse == [password |-> <<>>, expiry |-> -1]

Init ==
    /\ action \in {"get", "capability", "store"}
    /\ wrote = <<>> /\ ending = <<>> /\ input = <<>> /\ at = "git"
    /\ rest = <<>> /\ slots = <<>> /\ authtype = FALSE
    /\ minted = NoResponse /\ stdout = <<>> /\ exit = "none"

-----------------------------------------------------------------------------
(* git's side (external).                                                    *)

Odd(ls) == Len(SelectSeq(ls, LAMBDA l : l \in OddLines))

GitWrites(l) ==
    /\ at = "git" /\ action = "get" /\ Len(wrote) < MaxLines
    /\ Odd(Append(wrote, l)) <= MaxOdd
    /\ wrote' = Append(wrote, l)
    /\ input' = input \o l \o <<LF>>
    /\ UNCHANGED <<action, ending, at, rest, slots, authtype, minted, stdout, exit>>

\* The block ends at end-of-file or with a blank line; or it does not: it breaks off in
\* the middle of a line, or goes on after the blank line.
GitEnds(last) ==
    /\ at = "git" /\ action = "get"
    /\ ending' = last
    /\ input' = input \o last
    /\ at' = "helper"
    /\ UNCHANGED <<action, wrote, rest, slots, authtype, minted, stdout, exit>>

-----------------------------------------------------------------------------
(* The helper.                                                               *)

\* main: `capability` is answered on the spot, if git still reads it; anything but
\* `get` is ignored.
Main ==
    /\ at = "git" /\ action # "get"
    /\ \/ /\ stdout' = IF action = "capability"
                      THEN <<"version", "0", LF, "capability", "authtype", LF>> ELSE <<>>
          /\ exit' = "0"
       \/ action = "capability" /\ stdout' = <<>> /\ exit' = "1"
    /\ at' = "done"
    /\ UNCHANGED <<action, wrote, ending, input, rest, slots, authtype, minted>>

\* run and drive fail: a bad identity or key file, no connection, or a session the
\* daemon has closed.
Fails ==
    /\ at \in {"helper", "malformed_request", "denied"}
    /\ exit' = "1" /\ at' = "done"
    /\ UNCHANGED <<action, wrote, ending, input, rest, slots, authtype, minted, stdout>>

\* The daemon gets the request as the helper read it from stdin.
Delivered ==
    /\ at = "helper"
    /\ at' = "received"
    /\ UNCHANGED <<action, wrote, ending, input, rest, slots, authtype, minted, stdout, exit>>

-----------------------------------------------------------------------------
(* Request::parse.                                                           *)

\* Where the token t is in s for the first time; 0 if it is not.
Find(s, t) == SelectInSeq(s, LAMBDA x : x = t)

FirstBlank(s) ==
    SelectInSubSeq([i \in 1 .. Len(s) |-> i], 1, Len(s) - 1,
                   LAMBDA i : s[i] = LF /\ s[i + 1] = LF)

TooLarge(s) == Len(s) > WireReadBudget \/ Len(s) > ParserHardMax

\* Where the lines end, or -1 for an UnterminatedBlock or TrailingBytes.
BlockEnd(s) ==
    LET p == FirstBlank(s) IN
    IF p # 0 THEN IF p + 1 < Len(s) THEN -1 ELSE p - 1
    ELSE IF s = <<>> \/ Last(s) # LF THEN -1 ELSE Len(s) - 1

Refuse(reason) ==
    /\ at' = reason
    /\ UNCHANGED <<action, wrote, ending, input, rest, slots, authtype, minted, stdout, exit>>

Frame ==
    /\ at = "received"
    /\ IF TooLarge(input) \/ BlockEnd(input) = -1
       THEN Refuse("malformed_request")
       ELSE /\ rest' = SubSeq(input, 1, BlockEnd(input))
            /\ at' = "lines"
            /\ UNCHANGED <<action, wrote, ending, input, slots, authtype, minted, stdout, exit>>

Separator(l) == Find(l, "=")
Key(l) == SubSeq(l, 1, Separator(l) - 1)
Value(l) == SubSeq(l, Separator(l) + 1, Len(l))

\* Faulty variant: a repeated field replaces the earlier one.
LineRefusedUnlessRepeated(l) ==
    \/ \E i \in DOMAIN l : l[i] \in Control
    \/ Separator(l) = 0
    \/ Key(l) = <<>>
    \/ \E k \in Required :
          /\ Key(l) = <<k>>
          /\ \/ Len(Value(l)) > MaxValueBytes
             \/ Value(l) = <<>>
             \/ \E i \in DOMAIN Value(l) : Value(l)[i] = Invalid

LineRefused(l) ==
    \/ \E i \in DOMAIN l : l[i] \in Control
    \/ Separator(l) = 0
    \/ Key(l) = <<>>
    \/ \E k \in Required :
          /\ Key(l) = <<k>>
          /\ \/ k \in DOMAIN slots
             \/ Len(Value(l)) > MaxValueBytes
             \/ Value(l) = <<>>
             \/ \E i \in DOMAIN Value(l) : Value(l)[i] = Invalid

\* What a line that is not refused does to the fields and to the flag.
Fill(l) ==
    IF \E k \in Required : Key(l) = <<k>>
    THEN [k \in DOMAIN slots \cup {Key(l)[1]} |->
             IF <<k>> = Key(l) THEN Value(l) ELSE slots[k]]
    ELSE slots

Flag(l) ==
    IF Key(l) # <<"capability[]">> \/ Value(l) \notin {<<>>, <<"authtype">>}
    THEN authtype ELSE Value(l) = <<"authtype">>

\* One turn of the loop over the lines.
ParseLine ==
    /\ at = "lines"
    /\ LET e == Find(rest, LF)
           l == IF e = 0 THEN rest ELSE SubSeq(rest, 1, e - 1)
       IN  IF LineRefused(l)
           THEN Refuse("malformed_request")
           ELSE /\ slots' = Fill(l) /\ authtype' = Flag(l)
                /\ rest' = IF e = 0 THEN <<>> ELSE SubSeq(rest, e + 1, Len(rest))
                /\ at' = IF e = 0 THEN "fields" ELSE "lines"
                /\ UNCHANGED <<action, wrote, ending, input, minted, stdout, exit>>

StripSuffix(p) == IF p # <<>> /\ Last(p) = ".git" THEN Front(p) ELSE p

\* The end of parse: the required fields are there, and path is not just `.git`.
ParseFields ==
    /\ at = "fields"
    /\ IF DOMAIN slots = Required /\ StripSuffix(slots["path"]) # <<>>
       THEN /\ slots' = [slots EXCEPT !["path"] = StripSuffix(@)]
            /\ at' = "dispatch"
            /\ UNCHANGED <<action, wrote, ending, input, rest, authtype, minted, stdout, exit>>
       ELSE Refuse("malformed_request")

-----------------------------------------------------------------------------
(* The daemon's dispatch, and the response.                                  *)

Slash(p) == Find(p, "/")
Owner(p) == SubSeq(p, 1, Slash(p) - 1)
Repo(p) == SubSeq(p, Slash(p) + 1, Len(p))

\* RepoPath::parse: both halves are there and made of is_valid_byte's characters.
Foreign == {"/", "=", " ", Invalid}
RepoPath(p) ==
    /\ Slash(p) # 0
    /\ \A half \in {Owner(p), Repo(p)} : half # <<>> /\ ToSet(half) \cap Foreign = {}

\* Faulty variant: a line feed is let through.
ResponseNewLax(password, expiry) ==
    /\ \A i \in DOMAIN password : password[i] \notin Control
    /\ expiry >= 0

\* Response::new, with check_field.
ResponseNew(password, expiry) ==
    /\ \A i \in DOMAIN password : password[i] \notin Control \cup {LF}
    /\ expiry >= 0

\* The host is matched byte for byte; the provider mints, or fails; a token that is
\* not fit for the response is a failure too.
Dispatch ==
    /\ at = "dispatch"
    /\ \/ Refuse("denied")
       \/ /\ slots["host"] \in Hosts /\ RepoPath(slots["path"])
          /\ \E t \in Tokens, e \in Expiries :
                /\ ResponseNew(t, e)
                /\ minted' = [password |-> t, expiry |-> e]
          /\ at' = "minted"
          /\ UNCHANGED <<action, wrote, ending, input, rest, slots, authtype, stdout, exit>>

\* Response::encode.
Encode(r) ==
    (IF authtype THEN <<"capability[]", "=", "authtype", LF>> ELSE <<>>)
    \o <<"username", "=", Username, LF>>
    \o <<"password", "=">> \o r.password \o <<LF>>
    \o (IF authtype THEN <<"ephemeral", "=", "true", LF>> ELSE <<>>)
    \o <<"password_expiry_utc", "=", Decimal(r.expiry), LF, LF>>

\* The response reaches the helper, which copies it to stdout in one write; or the
\* connection is lost on the way, or the write fails, and git has read nothing.
Responds ==
    /\ at = "minted"
    /\ \/ stdout' = Encode(minted) /\ exit' = "0"
       \/ stdout' = <<>> /\ exit' = "1"
    /\ at' = "done"
    /\ UNCHANGED <<action, wrote, ending, input, rest, slots, authtype, minted>>

Next ==
    \/ \E l \in Lines : GitWrites(l)
    \/ \E last \in {<<>>, <<LF>>, <<"host">>, <<LF, "host">>} : GitEnds(last)
    \/ Main
    \/ Fails
    \/ Delivered
    \/ Frame
    \/ ParseLine
    \/ ParseFields
    \/ Dispatch
    \/ Responds

Spec == Init /\ [][Next]_vars

(***************************************************************************)
(* Properties                                                              *)
(***************************************************************************)

\* The lines of the request that have key k, and the value of the only one.
Attributes(k) == {i \in DOMAIN wrote : Separator(wrote[i]) # 0 /\ Key(wrote[i]) = <<k>>}
The(k) == Value(wrote[CHOOSE i \in Attributes(k) : TRUE])

\* What a request has to be, said of the lines as git wrote them.
WellFormed ==
    /\ ending \in {<<>>, <<LF>>} /\ Len(input) <= WireReadBudget
    /\ \A i \in DOMAIN wrote :
          /\ \E j \in 2 .. Len(wrote[i]) : wrote[i][j] = "=" /\ wrote[i][1] # "="
          /\ ToSet(wrote[i]) \cap Control = {}
    /\ \A k \in Required :
          /\ Cardinality(Attributes(k)) = 1
          /\ Len(The(k)) \in 1 .. MaxValueBytes
          /\ Invalid \notin ToSet(The(k))
    /\ The("path") # <<".git">>

Meant == [k \in Required |-> IF k = "path" THEN StripSuffix(The(k)) ELSE The(k)]

\* The last word on authtype counts, and an empty value takes earlier ones back.
Asked ==
    \E i \in Attributes("capability[]") :
        /\ Value(wrote[i]) = <<"authtype">>
        /\ \A j \in Attributes("capability[]") : j > i => Value(wrote[j]) # <<>>

\* Request::parse accepts exactly the well-formed requests, whatever the order of their
\* lines and whatever other lines are between them, and takes each field from the one
\* line that git wrote for it.
ParsedAsWritten ==
    /\ at = "malformed_request" => ~WellFormed
    /\ at \in {"dispatch", "minted"} => WellFormed /\ slots = Meant /\ authtype = Asked

\* The values of the lines of s that have key k, as git's credential_read sees them.
LineAt(s, i, j) ==
    /\ i = 1 \/ s[i - 1] = LF
    /\ s[j] = LF /\ \A m \in i .. j - 1 : s[m] # LF

Read(s, k) ==
    {SubSeq(s, p[1] + 2, p[2] - 1) :
        p \in {p \in (1 .. Len(s)) \X (1 .. Len(s)) :
                 /\ LineAt(s, p[1], p[2])
                 /\ p[1] + 1 < p[2] /\ s[p[1]] = k /\ s[p[1] + 1] = "="}}

\* git gets either nothing and a failure, or, for a well-formed request for a host the
\* daemon has a provider for, the token that was minted, whole, with its expiry, and
\* marked as not to be stored exactly if git has asked for that.  That the mint was for
\* the path git wrote is ParsedAsWritten's part.
ResponseAsMeant ==
    at = "done" /\ action = "get" =>
        \/ exit = "1" /\ stdout = <<>>
        \/ /\ exit = "0"
           /\ WellFormed /\ The("host") \in Hosts
           /\ Read(stdout, "username") = {<<Username>>}
           /\ Read(stdout, "password") = {minted.password}
           /\ Read(stdout, "password_expiry_utc") = {<<Decimal(minted.expiry)>>}
           /\ Read(stdout, "ephemeral") = IF Asked THEN {<<"true">>} ELSE {}
           /\ Read(stdout, "capability[]") = IF Asked THEN {<<"authtype">>} ELSE {}
           /\ FirstBlank(stdout) = Len(stdout) - 1
=============================================================================
