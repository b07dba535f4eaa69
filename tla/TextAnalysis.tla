---------------------------- MODULE TextAnalysis ----------------------------
(***************************************************************************)
(* From a text to its tokens (src/src/text: analyzer, tokenize, normalize, *)
(* stopwords, stem_cache, inline_token).  Documents are analyzed in bulk   *)
(* through a stem cache that each worker keeps from one to the next; a     *)
(* query is analyzed without one.                                          *)
(*                                                                         *)
(* A text is a sequence of characters, of which these stand for all.       *)
(***************************************************************************)
EXTENDS Integers, Sequences, FiniteSetsExt, SequencesExt

(* What Unicode says of a character (external): letter, ASCII, the small   *)
(* one, the one without accent, the bytes it takes.                        *)
Unicode ==
  [a      |-> [alnum |-> TRUE,  ascii |-> TRUE,  lower |-> "a", bare |-> "a", bytes |-> 1],
   A      |-> [alnum |-> TRUE,  ascii |-> TRUE,  lower |-> "a", bare |-> "A", bytes |-> 1],
   e      |-> [alnum |-> TRUE,  ascii |-> TRUE,  lower |-> "e", bare |-> "e", bytes |-> 1],
   s      |-> [alnum |-> TRUE,  ascii |-> TRUE,  lower |-> "s", bare |-> "s", bytes |-> 1],
   eAcute |-> [alnum |-> TRUE,  ascii |-> FALSE, lower |-> "eAcute", bare |-> "e", bytes |-> 2],
   EAcute |-> [alnum |-> TRUE,  ascii |-> FALSE, lower |-> "eAcute", bare |-> "E", bytes |-> 2],
   E      |-> [alnum |-> TRUE,  ascii |-> TRUE,  lower |-> "e", bare |-> "E", bytes |-> 1],
   quote  |-> [alnum |-> FALSE, ascii |-> TRUE,  lower |-> "quote", bare |-> "quote", bytes |-> 1],
   curly  |-> [alnum |-> FALSE, ascii |-> FALSE, lower |-> "curly", bare |-> "curly", bytes |-> 3],
   acute  |-> [alnum |-> FALSE, ascii |-> FALSE, lower |-> "acute", bare |-> "acute", bytes |-> 2],
   space  |-> [alnum |-> FALSE, ascii |-> TRUE,  lower |-> "space", bare |-> "space", bytes |-> 1]]
ByteLen(t) == FoldLeft(LAMBDA n, c : n + Unicode[c].bytes, 0, t)

(* nfc and nfkc compose a letter and the accent behind it (external).      *)
Composed(t) ==
  LET take(out, c) ==
        IF c = "acute" /\ out # <<>> /\ Last(out) \in {"e", "E"}
        THEN Front(out) \o <<IF Last(out) = "e" THEN "eAcute" ELSE "EAcute">>
        ELSE Append(out, c) IN
  FoldLeft(take, <<>>, t)
Normalize(a, t) == IF a.normalization = "None" THEN t ELSE Composed(t)

(* The longest stretches of characters that are In.                        *)
Stretches(t, In(_)) ==
  LET starts == SelectSeq([i \in DOMAIN t |-> i],
                          LAMBDA i : In(t[i]) /\ (i = 1 \/ ~In(t[i - 1])))
      end(i) == Max({j \in i..Len(t) : \A k \in i..j : In(t[k])}) IN
  [n \in DOMAIN starts |-> SubSeq(t, starts[n], end(starts[n]))]

(* tokenize_ascii_alphanumeric and tokenize_whitespace.                    *)
Tokenize(a, t) ==
  IF a.tokenizer = "UnicodeWords" THEN Stretches(t, LAMBDA c : Unicode[c].alnum)
  ELSE Stretches(t, LAMBDA c : c # "space")

CaseFold(t) == [i \in DOMAIN t |-> Unicode[t[i]].lower]
(* accent_fold also drops a combining mark that stands alone.              *)
AccentFold(t) ==
  LET kept == SelectSeq(t, LAMBDA c : c # "acute") IN
  [i \in DOMAIN kept |-> Unicode[kept[i]].bare]

(* strip_english_possessive.                                               *)
StripPossessive(t) ==
  IF Len(t) >= 2 /\ Last(t) = "s" /\ t[Len(t) - 1] \in {"quote", "curly"}
  THEN SubSeq(t, 1, Len(t) - 2) ELSE t

(* A token that is ASCII and has no capital is not folded.                 *)
AsciiLowercase(t) ==
  t # <<>> /\ \A i \in DOMAIN t : Unicode[t[i]].ascii /\ Unicode[t[i]].lower = t[i]
FoldSlow(a, t) ==
  LET cased == IF a.caseFold THEN CaseFold(t) ELSE t IN
  IF a.accentFold THEN AccentFold(cased) ELSE cased
Folded(a, t) ==
  LET f == IF AsciiLowercase(t) THEN t ELSE FoldSlow(a, t) IN
  IF a.possessive THEN StripPossessive(f) ELSE f

(* stopwords::resolve, with a list of two.                                 *)
Stopwords == {<<"a">>, <<"a", "s">>}
Dropped(a, f) == f = <<>> \/ (a.stopwords /\ f \in Stopwords)

(* The length filter counts characters; 0 is no bound.                     *)
LengthOk(a, t) ==
  /\ a.min # 0 => Len(t) >= a.min
  /\ a.max # 0 => Len(t) <= a.max

(* Stemmer::stem (external): it may shorten a token, or lengthen it.       *)
Stem(t) ==
  IF Len(t) > 1 /\ Last(t) = "s" THEN Front(t)
  ELSE IF Len(t) > 1 /\ Last(t) = "a" THEN Append(t, "e")
  ELSE t

(* run_token_loop.                                                         *)
RunTokenLoop(a, raw) ==
  LET final(f) == IF a.stems THEN Stem(f) ELSE f
      emit(out, t) ==
        LET f == Folded(a, t) IN
        IF Dropped(a, f) \/ ~LengthOk(a, final(f)) THEN out
        ELSE Append(out, final(f)) IN
  FoldLeft(emit, <<>>, raw)

(* analyze.                                                                *)
Analyze(a, text) == RunTokenLoop(a, Tokenize(a, Normalize(a, text)))

-----------------------------------------------------------------------------
(* StemCache.                                                              *)

InlineCap == 3     \* INLINE_TOKEN_CAP, 31 bytes
Ways == 2          \* WAYS, 4
Sets == 2          \* N_SETS, 2048
FitsInline(t) == ByteLen(t) <= InlineCap

NoSlot == [key |-> <<>>, val |-> <<>>]
NewCache == [slots |-> [s \in 0 .. Sets - 1 |-> [w \in 0 .. Ways - 1 |-> NoSlot]],
             lookups |-> 0]

(* FxHasher (external), masked to a set.                                   *)
SetOf(t) == Len(t) % Sets

(* Mutant of Probe: the first key as long as the token is taken for it.    *)
ProbeByLength(cache, t) ==
  {w \in 0 .. Ways - 1 : Len(cache.slots[SetOf(t)][w].key) = Len(t)}

(* The ways of its set that hold the token.                                *)
Probe(cache, t) ==
  {w \in 0 .. Ways - 1 : cache.slots[SetOf(t)][w].key = t}

(* stem_into: [cache, out].  What is too long, before or after, is not     *)
(* kept; the victim is the lookup count modulo the ways.                   *)
StemInto(a, cache, t) ==
  LET counted == [cache EXCEPT !.lookups = @ + 1]
      hit == Probe(cache, t) IN
  IF ~a.stems THEN [cache |-> counted, out |-> t]
  ELSE IF ~FitsInline(t) THEN [cache |-> counted, out |-> Stem(t)]
  ELSE IF hit # {}
  THEN [cache |-> counted, out |-> cache.slots[SetOf(t)][Min(hit)].val]
  ELSE IF ~FitsInline(Stem(t)) THEN [cache |-> counted, out |-> Stem(t)]
  ELSE [cache |-> [counted EXCEPT !.slots[SetOf(t)][counted.lookups % Ways] =
                     [key |-> t, val |-> Stem(t)]],
        out |-> Stem(t)]

(* run_token_loop_cached.                                                  *)
RunTokenLoopCached(a, raw, cache) ==
  LET with(acc, r) ==
        [cache |-> r.cache, out |-> IF LengthOk(a, r.out) THEN Append(acc.out, r.out)
                                    ELSE acc.out]
      emit(acc, t) ==
        LET f == Folded(a, t) IN
        IF Dropped(a, f) THEN acc ELSE with(acc, StemInto(a, acc.cache, f)) IN
  FoldLeft(emit, [cache |-> cache, out |-> <<>>], raw)

(* analyze_with_cache.                                                     *)
AnalyzeWithCache(a, text, cache) ==
  RunTokenLoopCached(a, Tokenize(a, Normalize(a, text)), cache)

-----------------------------------------------------------------------------
(* The analyzers of the store (analyzer_desc) and one with length bounds.  *)
Analyzers ==
  {[normalization |-> "Nfkc", tokenizer |-> "UnicodeWords", caseFold |-> TRUE,
    accentFold |-> TRUE, possessive |-> TRUE, stopwords |-> TRUE, stems |-> TRUE,
    min |-> 0, max |-> 0],
   [normalization |-> "None", tokenizer |-> "Whitespace", caseFold |-> FALSE,
    accentFold |-> FALSE, possessive |-> FALSE, stopwords |-> FALSE,
    stems |-> FALSE, min |-> 0, max |-> 0],
   [normalization |-> "Nfc", tokenizer |-> "Whitespace", caseFold |-> TRUE,
    accentFold |-> TRUE, possessive |-> TRUE, stopwords |-> TRUE, stems |-> TRUE,
    min |-> 2, max |-> 3]}

Texts ==
  {<<"a", "s", "space", "A", "a">>, <<"E", "acute", "s", "quote", "s">>,
   <<"e", "s", "space", "s", "s">>, <<"A", "e", "s", "s", "a">>,
   <<"EAcute", "curly", "s", "space", "e", "a", "space", "e", "e", "s">>}

(* Whatever a worker has analyzed before, the cache gives a document the   *)
(* tokens that a query of the same text gets (analyze_with_cache,          *)
(* analyze); and the shortcut for tokens that need no folding changes      *)
(* nothing.                                                                *)
AnalysisAgrees ==
  \A a \in Analyzers :
    /\ \A t1, t2, t3 \in Texts :
         \A c1 \in {AnalyzeWithCache(a, t1, NewCache).cache} :
         \A c2 \in {AnalyzeWithCache(a, t2, c1).cache} :
           AnalyzeWithCache(a, t3, c2).out = Analyze(a, t3)
    /\ \A t \in Texts : \A raw \in {Tokenize(a, Normalize(a, t))} :
         \A i \in DOMAIN raw :
           AsciiLowercase(raw[i]) => FoldSlow(a, raw[i]) = raw[i]
=============================================================================
