------------------------------ MODULE Masking -------------------------------
(***************************************************************************)
(* What is shown of a run that has secrets: the redaction of the Masker    *)
(* (tmx-core/src/mask.rs) and the projection of a context that             *)
(* `tmx inspect`, `context show` and `secrets list` print                  *)
(* (tmx-cli/src/commands/inspect.rs).                                      *)
(*                                                                         *)
(* Texts are ASCII strings, so a byte is a character.                      *)
(***************************************************************************)
EXTENDS SecretBook

Placeholder == "[REDACTED]"

\* Mutant of Precedes: the shorter one is tried first.
ShorterFirst(s, t) == Len(s) <= Len(t)

Precedes(s, t) == Len(s) >= Len(t)

\* The orders in which the long ones may be tried: the sort is not stable, so
\* that of two of one length is open.
ScanOrders(masker) ==
  {order \in SetToSeqs(masker.substring) :
     \A i, j \in DOMAIN order : i < j => Precedes(order[i], order[j])}

-----------------------------------------------------------------------------
(* Redaction *)

RECURSIVE Replaced(_, _)

\* `str::replace` by the placeholder: from the left, what is found is past.
Replaced(text, secret) ==
  IF Len(text) < Len(secret) THEN text
  ELSE IF SubSeq(text, 1, Len(secret)) = secret
  THEN Placeholder \o Replaced(SubSeq(text, Len(secret) + 1, Len(text)), secret)
  ELSE SubSeq(text, 1, 1) \o Replaced(SubSeq(text, 2, Len(text)), secret)

ScrubText(masker, order, text) ==
  IF text \in masker.exact THEN Placeholder ELSE FoldLeft(Replaced, text, order)

\* How a number prints.
Rendered(v) ==
  IF v = MinusZero THEN "-0.0"
  ELSE IF v[3] = "float" THEN ToString(v[2]) \o ".0"
  ELSE ToString(v[2])

RECURSIVE ScrubValue(_, _, _)

\* Keys stay as they are; a number that shows a secret becomes a text.
ScrubValue(masker, order, v) ==
  CASE IsStr(v) -> Str(ScrubText(masker, order, v[2]))
    [] IsNum(v) ->
         LET shown == ScrubText(masker, order, Rendered(v))
         IN  IF shown = Rendered(v) THEN v ELSE Str(shown)
    [] IsArr(v) -> Arr([i \in DOMAIN v[2] |-> ScrubValue(masker, order, v[2][i])])
    [] IsObj(v) -> Obj([k \in DOMAIN v[2] |-> ScrubValue(masker, order, v[2][k])])
    [] OTHER -> v

\* The final state is masked again by a masker that knows nothing, for the sink
\* takes nothing else.
PrintedState(v) == ScrubValue(NoSecrets, <<>>, v)

\* An event carries the output of a task, the message of an error (a text), or
\* names and numbers that no secret reaches.
RedactEvent(masker, order, event) ==
  IF event.kind \in {"task.finish", "task.error"}
  THEN [event EXCEPT !.carries = ScrubValue(masker, order, @)]
  ELSE event

-----------------------------------------------------------------------------
(* Projections *)

Field(key, v) == Obj(key :> v)

SourceKind(source) ==
  IF "env" \in DOMAIN source THEN "env"
  ELSE IF "file" \in DOMAIN source THEN "file"
  ELSE IF "provider" \in DOMAIN source THEN "provider"
  ELSE "unknown"

KindOf(def) == IF def[1] = "literal" THEN "literal" ELSE SourceKind(def[2])

\* A literal shows the placeholder, a source where it is read.
MaskedSecret(def) ==
  IF def[1] = "literal"
  THEN Obj(("kind" :> Str("literal")) @@ ("value" :> Str(Placeholder)))
  ELSE Obj(("kind" :> Str(KindOf(def))) @@ [part \in DOMAIN def[2] |-> Str(def[2][part])])

SecretsNeeded(defs) ==
  {[name |-> name, source |-> KindOf(defs[name]), value |-> Placeholder] : name \in DOMAIN defs}

ContextProjection(env, defs) ==
  Obj(("env" :> Obj([k \in DOMAIN env |-> Str(env[k])]))
      @@ ("secrets" :> Obj([name \in DOMAIN defs |-> MaskedSecret(defs[name])])))

\* The literals alone are known before a run.
LiteralMasker(defs) ==
  FoldSet(LAMBDA def, masker : Register(masker, def[2]), NoSecrets,
          {defs[name] : name \in {n \in DOMAIN defs : defs[n][1] = "literal"}})

Project(env, defs, order) == ScrubValue(LiteralMasker(defs), order, ContextProjection(env, defs))

-----------------------------------------------------------------------------
(* What masking promises *)

\* Where the long secrets stand in a text.
Occurrences(masker, text) ==
  {o \in [at : 1..Len(text), secret : masker.substring] :
     /\ o.at + Len(o.secret) - 1 <= Len(text)
     /\ SubSeq(text, o.at, o.at + Len(o.secret) - 1) = o.secret}

Overlap(o, p) == o.at < p.at + Len(p.secret) /\ p.at < o.at + Len(o.secret)

\* Disjoint occurrences, such that each other one yields to one of them that
\* is at least as long.
Cuts(masker, text) ==
  LET all == Occurrences(masker, text)
  IN  {D \in SUBSET all :
         /\ \A o, p \in D : o # p => ~Overlap(o, p)
         /\ \A o \in all \ D : \E d \in D : Overlap(o, d) /\ Len(d.secret) >= Len(o.secret)}

\* The text with each occurrence of D as one placeholder.
Cut(text, D) ==
  LET shown(i) ==
        IF \E d \in D : d.at = i THEN Placeholder
        ELSE IF \E d \in D : d.at < i /\ i < d.at + Len(d.secret) THEN ""
        ELSE SubSeq(text, i, i)
  IN  FoldLeft(LAMBDA s, i : s \o shown(i), "", [i \in 1..Len(text) |-> i])

\* Whatever the order of equals, the longest secrets of a text go whole, and
\* nothing goes that belongs to none.
TextMasked(masker, text) ==
  \A order \in ScanOrders(masker) :
    LET shown == ScrubText(masker, order, text)
    IN  IF text \in masker.exact THEN shown = Placeholder
        ELSE \E D \in Cuts(masker, text) : shown = Cut(text, D)

RECURSIVE Leaves(_)

\* The texts of a value's scalars.
Leaves(v) ==
  CASE IsStr(v) -> {v[2]}
    [] IsNum(v) -> {Rendered(v)}
    [] IsArr(v) \/ IsObj(v) -> UNION {Leaves(v[2][k]) : k \in DOMAIN v[2]}
    [] OTHER -> {}

Hides(masker, v) ==
  \A text \in Leaves(v) :
    text \notin masker.exact /\ \A s \in masker.substring : ~HasSubstring(text, s)

\* A masked value shows no secret, masking it again changes nothing, and
\* neither does masking without secrets.
ValueMasked(masker, v) ==
  /\ PrintedState(v) = v
  /\ \A order, again \in ScanOrders(masker) :
       LET shown == ScrubValue(masker, order, v)
       IN  Hides(masker, shown) /\ ScrubValue(masker, again, shown) = shown

\* An event shows no secret where it carries one, and keeps the rest.
EventMasked(masker, event) ==
  \A order \in ScanOrders(masker) :
    LET shown == RedactEvent(masker, order, event)
    IN  /\ [shown EXCEPT !.carries = event.carries] = event
        /\ event.kind \in {"task.finish", "task.error"} => Hides(masker, shown.carries)

\* A projection shows no literal, wherever the environment repeats it.
ProjectionMasked(env, defs) ==
  /\ \A order \in ScanOrders(LiteralMasker(defs)) :
       Hides(LiteralMasker(defs), Project(env, defs, order))
  /\ Cardinality(SecretsNeeded(defs)) = Cardinality(DOMAIN defs)
=============================================================================
