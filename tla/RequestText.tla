----------------------------- MODULE RequestText ------------------------------
(***************************************************************************)
(* The JSON of the gateway's requests: what SocketRequest::fromJson makes   *)
(* of a text, and the texts that a request may be written as.               *)
(*                                                                         *)
(* A text is a sequence of tokens: the punctuation of JSON, a stretch of    *)
(* white space, a quoted string, a bare word.  Strings hold names, numbers  *)
(* and ids, nothing that would have to be escaped.                          *)
(***************************************************************************)
EXTENDS Integers, Sequences

CONSTANTS
    Numerals,    \* the words std::stoul can read
    Texts,       \* what else clients write, as a command or as the value of a parameter
    ParamNames,  \* the parameters there are
    KeyLists     \* the sequences of parameters that a request may have

(* A parameter is written once and is not named like a member of a request. *)
ASSUME TextsAssumption ==
    /\ {"request_id", "command"} \cap ParamNames = {}
    /\ KeyLists \subseteq Seq(ParamNames)
    /\ \A keys \in KeyLists : \A i, j \in DOMAIN keys : keys[i] = keys[j] => i = j

(* The names toCommandType knows                                            *)
Commands ==
    {"PING", "GET_AGENT_STATUS", "GET_AGENT_STATUS_BY_INDEX", "GET_ACTIVE_SESSIONS", "GET_CASE_LIST",
     "GET_CASE_BY_ID", "GET_HOTSPOT_DATA", "GET_PRIORITY_CASES", "GET_OFFICER_WORKLOAD"}

Word(t)   == [kind |-> "word", text |-> t]
String(t) == [kind |-> "string", text |-> t]
Mark(k)   == [kind |-> k, text |-> k]

Kind(s, p) == IF p \in DOMAIN s THEN s[p].kind ELSE "end"

(* The first position from p on whose kind is (not) among the given ones.   *)
FirstOf(s, p, kinds) ==
    CHOOSE q \in p .. Len(s) + 1 :
        /\ q = Len(s) + 1 \/ Kind(s, q) \in kinds
        /\ \A i \in p .. q - 1 : Kind(s, i) \notin kinds

SkipWs_None(s, p) == p
SkipWs(s, p) == FirstOf(s, p, {"open", "close", "comma", "colon", "string", "word"})

-----------------------------------------------------------------------------
(* parsePrimitive, and what a number, a name or anything else it returns is *)
(* worth: only a single token can be a number or a name.                    *)
Value(s, p, q) == IF q = p + 1 THEN s[p].text ELSE "?"

ValueEnd(s, p) == IF Kind(s, p) = "string" THEN p + 1 ELSE FirstOf(s, p, {"comma", "close", "space"})

(* One turn of the loop of parseObject up to the value: "key" : value       *)
Member(s, p) ==
    LET key   == SkipWs(s, p)
        colon == SkipWs(s, key + 1)
        value == SkipWs(s, colon + 1)
    IN  IF Kind(s, key) = "string" /\ Kind(s, colon) = "colon"
        THEN [ok |-> TRUE, key |-> s[key].text,
              value |-> Value(s, value, ValueEnd(s, value)), end |-> ValueEnd(s, value)]
        ELSE [ok |-> FALSE]

Thrown == [ok |-> FALSE]

(* The loop: it goes on after a comma and ends at a closing brace.          *)
Members(s) ==
    LET from[p \in 1 .. Len(s) + 1] ==
            LET m    == Member(s, p)
                next == SkipWs(s, m.end)
            IN  IF ~m.ok
                THEN Thrown
                ELSE CASE Kind(s, next) = "comma" ->
                            LET rest == from[SkipWs(s, next + 1)]
                            IN  IF rest.ok THEN [ok |-> TRUE, list |-> <<m>> \o rest.list] ELSE Thrown
                       [] Kind(s, next) = "close" -> [ok |-> TRUE, list |-> <<m>>]
                       [] OTHER -> Thrown
    IN  from

(* parseObject, called at position p                                        *)
Object(s, p) ==
    LET brace == SkipWs(s, p)
        first == SkipWs(s, brace + 1)
    IN  IF Kind(s, brace) # "open"
        THEN Thrown
        ELSE IF Kind(s, first) = "close" THEN [ok |-> TRUE, list |-> << >>] ELSE Members(s)[first]

(* The map it returns: of two members with one key the later one counts.    *)
Keys(object) == {object.list[i].key : i \in DOMAIN object.list}
Lookup(object, key) ==
    LET last == CHOOSE i \in DOMAIN object.list :
                    /\ object.list[i].key = key
                    /\ \A j \in i + 1 .. Len(object.list) : object.list[j].key # key
    IN  object.list[last].value
AsMap(object) == [key \in Keys(object) |-> Lookup(object, key)]

-----------------------------------------------------------------------------
(* The parameters are looked for in the text, behind the first "params".    *)
ParamsObject(s) ==
    LET named == {p \in DOMAIN s : s[p] = String("params")}
        colon == FirstOf(s, CHOOSE p \in named : \A q \in named : p <= q, {"colon"})
        start == SkipWs(s, colon + 1)
    IN  IF named # {} /\ Kind(s, start) = "open" THEN Object(s, start) ELSE [ok |-> TRUE, list |-> << >>]

Nothing == [x \in {} |-> ""]
Malformed(id) == [ok |-> FALSE, id |-> id, command |-> "UNKNOWN", params |-> Nothing]

(* SocketRequest::fromJson.  What it had set when something was thrown      *)
(* stays set; of that, the answer uses the request id.                      *)
FromJson(s) ==
    LET top     == Object(s, 1)
        params  == ParamsObject(s)
        id      == IF "request_id" \in Keys(top) THEN Lookup(top, "request_id") ELSE "0"
        command == IF "command" \in Keys(top) THEN Lookup(top, "command") ELSE "UNKNOWN"
    IN  IF ~top.ok \/ id \notin Numerals
        THEN Malformed("0")
        ELSE IF ~params.ok
        THEN Malformed(id)
        ELSE [ok |-> TRUE, id |-> id, params |-> AsMap(params),
              command |-> IF command \in Commands THEN command ELSE "UNKNOWN"]

-----------------------------------------------------------------------------
(* What the protocol says a request is, and how it may be written: its      *)
(* members in any order, with or without a space after colons and commas,   *)
(* and with or without one inside the braces.                               *)

Style(gap, pad) == [gap |-> gap, pad |-> pad]

Space(wanted) == IF wanted THEN <<Mark("space")>> ELSE << >>

(* The first n of the members that are given as texts: m1, m2, ...           *)
Joined(members, style) ==
    LET join[n \in 0 .. Len(members)] ==
            IF n = 0 THEN << >>
            ELSE join[n - 1] \o (IF n = 1 THEN << >> ELSE <<Mark("comma")>> \o Space(style.gap)) \o members[n]
    IN  join

(* { m1, m2, ... }                                                          *)
Braces(members, style) ==
    <<Mark("open")>> \o Space(style.pad) \o Joined(members, style)[Len(members)] \o Space(style.pad) \o <<Mark("close")>>

Pair(key, value, style) == <<String(key), Mark("colon")>> \o Space(style.gap) \o value

(* keys: the parameters in the order in which they are written              *)
MemberText(request, name, keys, style) ==
    CASE name = "request_id" -> Pair(name, <<Word(request.id)>>, style)
      [] name = "command" -> Pair(name, <<String(request.command)>>, style)
      [] name = "params" ->
            Pair(name, Braces([i \in DOMAIN keys |-> Pair(keys[i], <<String(request.params[keys[i]])>>, style)], style), style)

Text(request, order, keys, style) ==
    Braces([i \in DOMAIN order |-> MemberText(request, order[i], keys, style)], style)

-----------------------------------------------------------------------------
Request(id, command, params) == [ok |-> TRUE, id |-> id, command |-> command, params |-> params]

(* A name that is not a command's is as good as any other.                  *)
Named(command) == IF command \in Commands THEN command ELSE "UNKNOWN"

Orders  == {<<"request_id", "command">>, <<"command", "request_id">>}
Styles  == {Style(gap, pad) : gap, pad \in BOOLEAN}
Compact == Style(FALSE, FALSE)

NamesIn(keys) == {keys[i] : i \in DOMAIN keys}

(* A request without parameters is understood with its members in either    *)
(* order and white space wherever JSON allows it.                           *)
PlainTextsUnderstood ==
    \A id \in Numerals, command \in (Commands \cup Texts) \ {"params"}, order \in Orders, style \in Styles :
        FromJson(Text(Request(id, command, Nothing), order, << >>, style)) = Request(id, Named(command), Nothing)

(* One with parameters, written last, is when there is no white space at     *)
(* all, although its parameters but the first are taken for members of the   *)
(* request as well; with white space anywhere it is refused and its id lost.  *)
OnlyCompactParameters ==
    \A id \in Numerals, command \in (Commands \cup Texts) \ {"params"}, order \in Orders, style \in Styles :
        \A keys \in KeyLists : \A params \in [NamesIn(keys) -> Texts] :
            FromJson(Text(Request(id, command, params), Append(order, "params"), keys, style)) =
                IF keys = << >> \/ style = Compact
                THEN Request(id, Named(command), params)
                ELSE Malformed("0")
=============================================================================
