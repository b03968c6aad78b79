----------------------------- MODULE ShellParse -----------------------------
(***************************************************************************)
(* The parser of the shell (user/sh.c): a recursive descent over the line, *)
(* character by character, that makes a tree of commands.  A character is  *)
(* a symbol, a blank or a letter of a word; a word is the pair <<q, eq>>   *)
(* of the positions that gettoken() returns.  A parse is a pair of a tree  *)
(* and the position after it; Err is the shell's panic().                  *)
(***************************************************************************)
EXTENDS Integers, Sequences, FiniteSets, FiniteSetsExt

CONSTANTS MAXARGS,      \* arguments of a command, and the null after them
          MaxLine       \* bound on the length of a line

Symbols == {"<", "|", ">", "&", ";", "(", ")"}
Blank == " "
Letter == "a"
Lines == UNION {[1 .. n -> Symbols \cup {Blank, Letter}] : n \in 0 .. MaxLine}
Err == [at |-> 0, cmd |-> <<"error">>]
Chr(l, i) == IF i <= Len(l) THEN l[i] ELSE "nul"

-----------------------------------------------------------------------------
(* Blanks are skipped; words end at a blank or a symbol.                   *)
RECURSIVE SkipBlanks(_, _), SkipWord(_, _)
SkipBlanks(l, i) == IF Chr(l, i) = Blank THEN SkipBlanks(l, i + 1) ELSE i
SkipWord(l, i) == IF Chr(l, i) = Letter THEN SkipWord(l, i + 1) ELSE i

Token(l, tok, q, eq) == [tok |-> tok, q |-> q, eq |-> eq, at |-> SkipBlanks(l, eq)]
TokenEnd(l, q, c) == CASE c = "nul" -> q [] c \in Symbols -> q + 1 [] OTHER -> SkipWord(l, q)
\* bug: ">>" is two tokens
TokenSplit(l, q, c) == Token(l, c, q, TokenEnd(l, q, c))
TokenAt(l, q, c) == IF c = ">" /\ Chr(l, q + 1) = ">" THEN Token(l, "+", q, q + 2)
                    ELSE Token(l, c, q, TokenEnd(l, q, c))
(* gettoken(): [tok, q, eq] and the position after trailing blanks.        *)
FromBlank(l, q) == TokenAt(l, q, Chr(l, q))
GetToken(l, i) == FromBlank(l, SkipBlanks(l, i))

Peek(l, i, toks) == Chr(l, SkipBlanks(l, i)) \in toks

Parsed(cmd, nxt) == [cmd |-> cmd, at |-> nxt]
Then(r, F(_)) == IF r = Err THEN Err ELSE F(r)       \* panic() ends the parse

(* parseredirs(): file and mode are wrapped around the command.            *)
RECURSIVE ParseRedirs(_, _, _), RedirTo(_, _, _)
ParseRedirs(l, cmd, i) ==
  IF ~Peek(l, i, {"<", ">"}) THEN Parsed(cmd, i)
  ELSE RedirTo(l, cmd, GetToken(l, i))
WithFile(l, cmd, t, f) ==
  IF f.tok # Letter THEN Err ELSE ParseRedirs(l, <<"redir", t.tok, <<f.q, f.eq>>, cmd>>, f.at)
RedirTo(l, cmd, t) == WithFile(l, cmd, t, GetToken(l, t.at))

(* Redirections come around the command that words are still added to: the *)
(* tree carries them, `argv' is filled in at the end.                      *)
RECURSIVE Fill(_, _)
Fill(cmd, argv) == IF cmd[1] = "redir" THEN <<"redir", cmd[2], cmd[3], Fill(cmd[4], argv)>>
                   ELSE <<"exec", argv>>

RECURSIVE ParseWords(_, _, _, _)
AddWord(l, cmd, argv, t) ==
  CASE t.tok = "nul" -> Parsed(Fill(cmd, argv), t.at)
    [] t.tok = Letter /\ Len(argv) + 1 < MAXARGS ->
         Then(ParseRedirs(l, cmd, t.at),
              LAMBDA r : ParseWords(l, r.cmd, Append(argv, <<t.q, t.eq>>), r.at))
    [] OTHER -> Err
ParseWords(l, cmd, argv, i) ==
  IF Peek(l, i, {"|", ")", "&", ";"}) THEN Parsed(Fill(cmd, argv), i)
  ELSE AddWord(l, cmd, argv, GetToken(l, i))

RECURSIVE ParseLine(_, _), ParsePipe(_, _), ParseBlock(_, _), ParseBacks(_, _, _)
ParseExec(l, i) ==
  IF Peek(l, i, {"("}) THEN ParseBlock(l, i)
  ELSE Then(ParseRedirs(l, <<"exec", <<>>>>, i), LAMBDA r : ParseWords(l, r.cmd, <<>>, r.at))

ParseBlock(l, i) ==
  Then(ParseLine(l, GetToken(l, i).at), LAMBDA r :
    IF Peek(l, r.at, {")"}) THEN ParseRedirs(l, r.cmd, GetToken(l, r.at).at) ELSE Err)

Joined(kind, left, r) == Parsed(<<kind, left, r.cmd>>, r.at)
ParsePipe(l, i) ==
  Then(ParseExec(l, i), LAMBDA r :
    IF ~Peek(l, r.at, {"|"}) THEN r
    ELSE Then(ParsePipe(l, GetToken(l, r.at).at), LAMBDA right : Joined("pipe", r.cmd, right)))

ParseBacks(l, cmd, i) ==
  IF Peek(l, i, {"&"}) THEN ParseBacks(l, <<"back", cmd>>, GetToken(l, i).at) ELSE Parsed(cmd, i)

ParseLine(l, i) ==
  Then(Then(ParsePipe(l, i), LAMBDA p : ParseBacks(l, p.cmd, p.at)), LAMBDA r :
    IF ~Peek(l, r.at, {";"}) THEN r
    ELSE Then(ParseLine(l, GetToken(l, r.at).at), LAMBDA right : Joined("list", r.cmd, right)))

ParseCmd(l) ==
  Then(ParseLine(l, 1), LAMBDA r : IF SkipBlanks(l, r.at) = Len(l) + 1 THEN r ELSE Err).cmd

(* nulterminate(): where it writes a zero.                                 *)
RECURSIVE ZerosLeft(_)
ZerosLeft(cmd) ==       \* bug: the right side of "|" and ";" is forgotten
  CASE cmd[1] = "exec" -> {cmd[2][k][2] : k \in DOMAIN cmd[2]}
    [] cmd[1] = "redir" -> ZerosLeft(cmd[4]) \cup {cmd[3][2]}
    [] OTHER -> ZerosLeft(cmd[2])
RECURSIVE Zeros(_)
Zeros(cmd) ==
  CASE cmd[1] = "exec" -> {cmd[2][k][2] : k \in DOMAIN cmd[2]}
    [] cmd[1] = "redir" -> Zeros(cmd[4]) \cup {cmd[3][2]}
    [] cmd[1] = "back" -> Zeros(cmd[2])
    [] OTHER -> Zeros(cmd[2]) \cup Zeros(cmd[3])
-----------------------------------------------------------------------------
(* The grammar, by splitting the tokens instead: a line at its first ";",  *)
(* a pipeline at its first "|", both outside parentheses; "&" may only end *)
(* a pipeline; redirections stand anywhere between words, or after ")".    *)
Sorted(S) == [k \in 1 .. Cardinality(S) |-> CHOOSE i \in S : Cardinality({j \in S : j < i}) = k - 1]
TokenStarts(l) ==
  {i \in DOMAIN l : /\ l[i] # Blank
                    /\ l[i] = Letter => i = 1 \/ l[i - 1] # Letter
                    /\ l[i] = ">" => Cardinality({k \in 1 .. i - 1 : \A x \in k .. i - 1 : l[x] = ">"}) % 2 = 0}
Spelled(l, i) ==        \* the token that starts at i
  CASE l[i] = Letter -> [tok |-> Letter, w |-> <<i, Max({k \in i .. Len(l) : \A x \in i .. k : l[x] = Letter}) + 1>>]
    [] l[i] = ">" /\ Chr(l, i + 1) = ">" -> [tok |-> "+", w |-> <<i, i + 2>>]
    [] OTHER -> [tok |-> l[i], w |-> <<i, i + 1>>]
TokensOf(l) == LET at == Sorted(TokenStarts(l)) IN [k \in DOMAIN at |-> Spelled(l, at[k])]

Depth(w, i) == Cardinality({k \in 1 .. i - 1 : w[k].tok = "("}) - Cardinality({k \in 1 .. i : w[k].tok = ")"})
Tops(w, c) == {i \in DOMAIN w : w[i].tok = c /\ Depth(w, i) = 0}
Before(w, i) == SubSeq(w, 1, i - 1)
After(w, i) == SubSeq(w, i + 1, Len(w))
Wrong == <<"error">>

RECURSIVE Line(_), Pipeline(_), Simple(_), Wrapped(_, _)
Wrapped(cmd, w) ==      \* redirections and nothing else
  IF w = <<>> THEN cmd
  ELSE IF Len(w) = 1 \/ w[1].tok \notin {"<", ">", "+"} \/ w[2].tok # Letter THEN Wrong
  ELSE Wrapped(<<"redir", w[1].tok, w[2].w, cmd>>, After(w, 2))

OrWrong(r, F(_)) == IF r = Wrong THEN Wrong ELSE F(r)
Both(kind, left, right) == IF Wrong \in {left, right} THEN Wrong ELSE <<kind, left, right>>
Kept(w, S) == LET at == Sorted(S) IN [k \in DOMAIN at |-> w[at[k]]]
Block(w, close) ==
  IF close = {} THEN Wrong
  ELSE OrWrong(Line(SubSeq(w, 2, Min(close) - 1)), LAMBDA body : Wrapped(body, After(w, Min(close))))
Words(words, redirs) ==
  IF Len(words) >= MAXARGS \/ \E k \in DOMAIN words : words[k].tok # Letter THEN Wrong
  ELSE Wrapped(<<"exec", [k \in DOMAIN words |-> words[k].w]>>, redirs)
Redirs(w) == {i \in DOMAIN w : \E k \in {i - 1, i} \cap DOMAIN w : w[k].tok \in {"<", ">", "+"}}
Simple(w) ==
  IF w # <<>> /\ w[1].tok = "(" THEN Block(w, {i \in Tops(w, ")") : i > 1})
  ELSE Words(Kept(w, DOMAIN w \ Redirs(w)), Kept(w, Redirs(w)))

PipedAt(w, bars) ==
  IF bars = {} THEN Simple(w)
  ELSE Both("pipe", Simple(Before(w, Min(bars))), Pipeline(After(w, Min(bars))))
Pipeline(w) == PipedAt(w, Tops(w, "|"))

RECURSIVE Backs(_)
Backs(w) ==
  IF w # <<>> /\ w[Len(w)].tok = "&"
  THEN OrWrong(Backs(Before(w, Len(w))), LAMBDA r : <<"back", r>>)
  ELSE Pipeline(w)

ListedAt(w, semis) ==
  IF semis = {} THEN Backs(w)
  ELSE Both("list", Backs(Before(w, Min(semis))), Line(After(w, Min(semis))))
Line(w) == ListedAt(w, Tops(w, ";"))
-----------------------------------------------------------------------------
(* The shell reads a line and parses it.                                   *)
VARIABLES line,         \* what was typed
          tree          \* what parsecmd() makes of it; <<>> before
parseVars == <<line, tree>>

ParseInit == line \in Lines /\ tree = <<>>
Parse == tree = <<>> /\ tree' = ParseCmd(line) /\ UNCHANGED line
ParseDone == tree # <<>> /\ UNCHANGED parseVars
ParseNext == Parse \/ ParseDone
ParseSpec == ParseInit /\ [][ParseNext]_parseVars

(* parsecmd() accepts exactly the lines of the grammar, and its tree is    *)
(* the one that the precedence of "|", "&" and ";" gives.                  *)
ParsesGrammar == tree # <<>> => tree = Line(TokensOf(line))

(* After nulterminate() every word is a string that ends where it ended in *)
(* the line: no zero falls into another word.                              *)
RECURSIVE WordsOf(_)
WordsOf(cmd) ==
  CASE cmd[1] = "exec" -> {cmd[2][k] : k \in DOMAIN cmd[2]}
    [] cmd[1] = "redir" -> WordsOf(cmd[4]) \cup {cmd[3]}
    [] cmd[1] = "back" -> WordsOf(cmd[2])
    [] OTHER -> WordsOf(cmd[2]) \cup WordsOf(cmd[3])
WordsTerminated ==
  tree # <<>> /\ tree # Wrong =>
    \A w \in WordsOf(tree) : Zeros(tree) \cap (w[1] .. w[2]) = {w[2]}

(* The parser's result: the tree of the grammar, with its words in the     *)
(* line cut at the right places (sh.c:328-492).                            *)
ParsedRight == ParsesGrammar /\ WordsTerminated
=============================================================================
