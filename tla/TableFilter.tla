----------------------------- MODULE TableFilter -----------------------------
(***************************************************************************)
(* The includes and excludes of a configuration: their terms are parsed to *)
(* literals or regular expressions, and tables are tested against them,    *)
(* with a cache of the answers.  The same filter selects hypertables,      *)
(* PostgreSQL tables (not accepted by default) and the tables of an event  *)
(* filter (accepted by default).  A name is a sequence of ASCII            *)
(* characters.                                                             *)
(***************************************************************************)
EXTENDS Integers, Sequences, SequencesExt, TLC

CONSTANTS Terms,      \* terms of a configuration, as <<schema token, table token>>
          TableNames, \* tables, as <<schema name, table name>>
          Keywords,   \* reserved keywords, in lower case
          MaxLength   \* longest identifier

VARIABLES config,      \* [excludes, includes, acceptedByDefault], with lists of terms
          filter,      \* [status, excludes, includes], with the parsed terms
          filterCache, \* answers by canonical name
          answer       \* the table tested last and the answer

vars == <<config, filter, filterCache, answer>>

Wildcards == {"*", "?", "+"}
Lower(c) == IF c = "A" THEN "a" ELSE c
ToLower(token) == [i \in DOMAIN token |-> Lower(token[i])]
IsLetter(c) == c \in {"a", "A", "b"}
IsNumber(c) == c = "1"

-----------------------------------------------------------------------------
(* Parsing.  A parsed token is a list of literals, wildcards and escaped   *)
(* wildcards; a literal match takes an escape with its backslash.          *)
Literal(c) == [kind |-> "literal", char |-> c]
Wildcard(c) == [kind |-> "wildcard", char |-> c]
Escaped(c) == [kind |-> "escaped", char |-> c]
Failed(why) == [status |-> why, parts |-> <<>>]

(* A faulty variant: plus is written as the asterisk. *)
PlusAsAsterisk(c) == Wildcard(IF c = "+" THEN "*" ELSE c)

(* The expressions .*? and .{1} and .+? *)
AsExpression(c) == Wildcard(c)

parseToken(raw) ==
  LET isQuoted == raw[1] = "\"" /\ Last(raw) = "\""
      token == IF isQuoted THEN raw ELSE ToLower(raw)
      first == IF isQuoted THEN 2 ELSE 1
      last == IF isQuoted THEN Len(token) - 1 ELSE Len(token)
      \* what is written for the character at i, and the next position
      Written(i) ==
        LET c == token[i] next == token[i + 1]
        IN IF c = "\\" /\ isQuoted
             THEN IF next \in Wildcards THEN [parts |-> <<Escaped(next)>>, to |-> i + 2] ELSE [parts |-> <<>>, to |-> i + 1]
           ELSE IF c = "\"" /\ isQuoted
             THEN IF i < Len(token) THEN [parts |-> <<Literal(c), Literal(c)>>, to |-> IF next = "\"" THEN i + 2 ELSE i + 1]
                  ELSE [parts |-> <<>>, to |-> i + 1]
           ELSE [parts |-> <<IF c \in Wildcards THEN AsExpression(c) ELSE Literal(c)>>, to |-> i + 1]
      parsed[i \in 1..Len(token) + 2] ==
        IF i > last THEN <<>> ELSE Written(i).parts \o parsed[Written(i).to]
      isRegex == \E p \in ToSet(parsed[first]) : p.kind = "wildcard"
      Legal(c) == isQuoted \/ IsLetter(c) \/ IsNumber(c) \/ c = "_" \/ c \in Wildcards
  IN IF raw = <<>> THEN Failed("panic")
     ELSE IF \/ Len(token) > MaxLength /\ (~isQuoted \/ Len(token) > MaxLength + 2)
             \/ ~isQuoted /\ ~(IsLetter(token[1]) \/ token[1] = "_" \/ token[1] \in Wildcards)
             \/ \E i \in first..Len(token) : ~Legal(token[i])
             \/ ~isQuoted /\ ~isRegex /\ token \in Keywords
       THEN Failed("error")
     \* MustCompile: an open group or class, for there is nothing to close one
     ELSE IF isRegex /\ \E p \in ToSet(parsed[first]) : p \in {Literal("("), Literal("[")}
       THEN Failed("uncompilable")
     ELSE [status |-> IF isRegex THEN "regex" ELSE "literal", parts |-> parsed[first]]

parseFilter(term) == <<parseToken(term[1]), parseToken(term[2])>>

(* The first token that fails ends the parsing; both are compiled at the   *)
(* end.                                                                    *)
Outcome(pattern) ==
  LET failed == SelectSeq(pattern, LAMBDA p : p.status \in {"error", "panic"})
  IN IF failed # <<>> THEN failed[1].status ELSE "panic"
Accepted(pattern) == \A k \in 1..2 : pattern[k].status \in {"regex", "literal"}

(* NewTableFilter: the excludes are parsed first, and the first term that  *)
(* fails ends it.                                                          *)
NewTableFilter ==
  /\ filter.status = "new"
  /\ LET terms == config.excludes \o config.includes
         bad == SelectSeq([i \in DOMAIN terms |-> parseFilter(terms[i])], LAMBDA p : ~Accepted(p))
         Patterns(list) == [i \in DOMAIN list |-> parseFilter(list[i])]
     IN IF bad = <<>> THEN filter' = [status |-> "ready", excludes |-> Patterns(config.excludes), includes |-> Patterns(config.includes)]
        ELSE filter' = [filter EXCEPT !.status = Outcome(bad[1])]
  /\ UNCHANGED <<config, filterCache, answer>>

-----------------------------------------------------------------------------
(* Matching.                                                              *)
AsText(parts) == FlattenSeq([i \in DOMAIN parts |-> IF parts[i].kind = "escaped" THEN <<"\\", parts[i].char>> ELSE <<parts[i].char>>])

(* The characters of a quoted name are written as they are, so that some   *)
(* of them are operators of the expression.  Can an alternative of it,     *)
(* part by part from i on, take the characters from some j on?             *)
MatchString(parts, name) ==
  LET expression == <<Literal("^")>> \o parts \o <<Literal("$")>>
      bars == {i \in DOMAIN expression : expression[i] = Literal("|")}
      takes[i \in 1..Len(expression) + 1, j \in 1..Len(name) + 1] ==
        IF i > Len(expression) \/ i \in bars THEN TRUE
        ELSE LET p == expression[i]
             IN IF p = Literal("^") THEN j = 1 /\ takes[i + 1, j]
                ELSE IF p = Literal("$") THEN j > Len(name) /\ takes[i + 1, j]
                ELSE IF p.kind # "wildcard" THEN j <= Len(name) /\ p.char = name[j] /\ takes[i + 1, j + 1]
                ELSE \E n \in (IF p.char = "*" THEN 0 ELSE 1)..(IF p.char = "?" THEN 1 ELSE Len(name)) :
                       j + n <= Len(name) + 1 /\ takes[i + 1, j + n]
  IN \E i \in {1} \cup {b + 1 : b \in bars}, j \in 1..Len(name) + 1 : takes[i, j]

Matches(pattern, table) ==
  \A k \in 1..2 : IF pattern[k].status = "regex" THEN MatchString(pattern[k].parts, table[k])
                  ELSE AsText(pattern[k].parts) = table[k]

Enabled ==
  /\ filter.status = "ready"
  /\ \E t \in TableNames :
       LET decision == ~(\E p \in ToSet(filter.excludes) : Matches(p, t))
                       /\ (config.acceptedByDefault \/ \E p \in ToSet(filter.includes) : Matches(p, t))
           v == IF t \in DOMAIN filterCache THEN filterCache[t] ELSE decision
       IN answer' = <<t, v>> /\ filterCache' = (t :> v) @@ filterCache
  /\ UNCHANGED <<config, filter>>

(* A filter of one exclude and one include at most. *)
Init ==
  /\ config \in [excludes : {<<>>} \cup {<<t>> : t \in Terms}, includes : {<<>>} \cup {<<t>> : t \in Terms},
                 acceptedByDefault : BOOLEAN]
  /\ filter = [status |-> "new", excludes |-> <<>>, includes |-> <<>>] /\ filterCache = <<>> /\ answer = <<>>

Next == NewTableFilter \/ Enabled
Spec == Init /\ [][Next]_vars

-----------------------------------------------------------------------------
(* What a token stands for by the documentation: the name is cut into      *)
(* pieces, one for each character, that of * of any length, that of + not  *)
(* empty, that of ? of one character; an unquoted name is folded to lower  *)
(* case.                                                                   *)
Describes(raw, name) ==
  LET isQuoted == raw[1] = "\""
      token == IF isQuoted THEN SubSeq(raw, 2, Len(raw) - 1) ELSE ToLower(raw)
      n == Len(token)
  IN \E cut \in [0..n -> 0..Len(name)] :
       /\ cut[0] = 0 /\ cut[n] = Len(name)
       /\ \A k \in 1..n :
            LET length == cut[k] - cut[k - 1]
            IN /\ length >= 0
               /\ token[k] = "+" => length > 0
               /\ token[k] \notin {"*", "+"} => length = 1
               /\ token[k] \notin Wildcards => name[cut[k]] = token[k]

(* Names with a quote or a backslash in them are written in a form of its  *)
(* own.  The operators of regular expressions are not escaped in a quoted  *)
(* name, which shows if it has a wildcard, too.                            *)
Plain(raw) ==
  LET inner == ToSet(IF raw[1] = "\"" THEN SubSeq(raw, 2, Len(raw) - 1) ELSE raw)
  IN {"\"", "\\"} \cap inner = {} /\ ({"|", "^", "$"} \cap inner = {} \/ Wildcards \cap inner = {})

(***************************************************************************)
(* A table is selected exactly if no exclude describes it, and an include  *)
(* does or there are no includes in a filter that accepts by default,      *)
(* whatever was tested and cached before (Enabled).  Two cases are left    *)
(* out: terms that are not plain, and tables that no include of a filter   *)
(* accepting by default describes, because its includes are not heeded.    *)
(***************************************************************************)
SelectsAsDescribed ==
  answer # <<>> /\ (\A t \in ToSet(config.excludes \o config.includes) : Plain(t[1]) /\ Plain(t[2])) =>
    LET Described(list) == \E t \in ToSet(list) : \A k \in 1..2 : Describes(t[k], answer[1][k])
        unheeded == config.acceptedByDefault /\ config.includes # <<>>
        selected == ~Described(config.excludes)
                    /\ (Described(config.includes) \/ (config.acceptedByDefault /\ config.includes = <<>>))
    IN /\ selected => answer[2]
       /\ answer[2] => selected \/ (unheeded /\ ~Described(config.excludes))
=============================================================================
