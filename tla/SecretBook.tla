----------------------------- MODULE SecretBook -----------------------------
(***************************************************************************)
(* Where a secret is read (tmx-adapters/src/secret.rs), and how the ones a *)
(* task asks for reach the registry of the Masker (runner.rs,              *)
(* resolve_secrets, and tmx-core/src/mask.rs, register and assert_ready).  *)
(*                                                                         *)
(* Texts are ASCII strings, so a byte is a character.                      *)
(***************************************************************************)
EXTENDS JsonValues, SequencesExt

CONSTANTS
  MaskScanLenMin,  \* MASK_SCAN_LEN_MIN_BYTES
  SecretFileMax    \* SECRET_FILE_MAX_BYTES

ASSUME MaskBounds == MaskScanLenMin \in Nat \ {0} /\ SecretFileMax \in Nat \ {0}

-----------------------------------------------------------------------------
(* Sources *)

Found(text) == <<"value", text>>
Denied(code) == <<"error", code>>

RejectEmpty(text) == IF text = Blank THEN Denied("secret_value_empty") ELSE Found(text)

ReadEnv(host, var) ==
  IF var \in DOMAIN host.env THEN RejectEmpty(host.env[var]) ELSE Denied("secret_not_found")

EndsIn(text, c) == text # Blank /\ SubSeq(text, Len(text), Len(text)) = c
Shortened(text) == SubSeq(text, 1, Len(text) - 1)

\* One trailing newline goes, with the return before it.
StripNewline(text) ==
  IF ~EndsIn(text, "\n") THEN text
  ELSE IF EndsIn(Shortened(text), "\r") THEN Shortened(Shortened(text))
  ELSE Shortened(text)

\* A file is [text, utf8]; one that is not there cannot be opened.
ReadFile(host, path) ==
  IF path \notin DOMAIN host.files THEN Denied("secret_file_unreadable")
  ELSE LET file == host.files[path]
       IN  IF Len(file.text) > SecretFileMax THEN Denied("secret_file_too_large")
           ELSE IF ~file.utf8 THEN Denied("secret_file_not_utf8")
           ELSE RejectEmpty(StripNewline(file.text))

\* host.providers: what the registered backends answer, none in the build.
ResolveProvider(host, provider) ==
  IF provider \notin DOMAIN host.providers THEN Denied("secret_provider_unavailable")
  ELSE LET answer == host.providers[provider]
       IN  IF answer[1] = "error" THEN answer ELSE RejectEmpty(answer[2])

\* A source is a function on those of env, file and provider that it names.
ResolveSource(host, source) ==
  IF "env" \in DOMAIN source THEN ReadEnv(host, source.env)
  ELSE IF "file" \in DOMAIN source THEN ReadFile(host, source.file)
  ELSE IF "provider" \in DOMAIN source THEN ResolveProvider(host, source.provider)
  ELSE Denied("secret_source_empty")

-----------------------------------------------------------------------------
(* The registry *)

NoSecrets == [substring |-> {}, exact |-> {}]

\* `register`: an empty text is skipped, a short one matches as a whole only.
Register(masker, secret) ==
  IF secret = Blank THEN masker
  ELSE IF Len(secret) >= MaskScanLenMin
  THEN [masker EXCEPT !.substring = @ \cup {secret}]
  ELSE [masker EXCEPT !.exact = @ \cup {secret}]

Knows(masker, secret) == secret \in masker.substring \cup masker.exact

\* A literal stands for itself, a source for what it names.
ValueOf(host, def) == IF def[1] = "literal" THEN Found(def[2]) ELSE ResolveSource(host, def[2])

\* One requested name; book is [masker, resolved, refusal].
RequestOne(host, defs, book, name) ==
  IF book.refusal # Blank THEN book
  ELSE IF name \notin DOMAIN defs THEN [book EXCEPT !.refusal = "unknown_secret"]
  ELSE LET value == ValueOf(host, defs[name])
       IN  IF value[1] = "error" THEN [book EXCEPT !.refusal = value[2]]
           ELSE IF value[2] = Blank THEN [book EXCEPT !.refusal = "secret_value_empty"]
           ELSE [book EXCEPT !.masker = Register(@, value[2]),
                             !.resolved = Append(@, value[2])]

NewBook == [masker |-> NoSecrets, resolved |-> <<>>, refusal |-> Blank]

\* `resolve_secrets` of the names one task requests.
Requested(host, defs, book, names) ==
  FoldLeft(LAMBDA b, name : RequestOne(host, defs, b, name), [book EXCEPT !.refusal = Blank], names)

\* The masker an element's sub-flow starts with.
SubMasker(resolved) == FoldLeft(Register, NoSecrets, resolved)

\* `assert_ready`: every event is emitted behind this assertion.
Ready(masker, resolved) == \A i \in DOMAIN resolved : Knows(masker, resolved[i])

-----------------------------------------------------------------------------
(* What the book promises *)

\* Nothing is resolved that cannot be masked, whatever was refused: no event
\* trips the assertion, an element's sub-flow starts with what its run knows,
\* and a task that is not refused has every secret from where it is defined.
BookIsReady(host, defs, tasks) ==
  LET before == FoldLeft(LAMBDA b, names : Requested(host, defs, b, names), NewBook, Front(tasks))
      after == Requested(host, defs, before, Last(tasks))
      added == SubSeq(after.resolved, Len(before.resolved) + 1, Len(after.resolved))
  IN  /\ Ready(after.masker, after.resolved)
      /\ SubMasker(after.resolved) = after.masker
      /\ before.masker.substring \subseteq after.masker.substring
      /\ \A i \in DOMAIN added :
           added[i] # Blank /\ ValueOf(host, defs[Last(tasks)[i]]) = Found(added[i])
      /\ (after.refusal = Blank) = (Len(added) = Len(Last(tasks)))

=============================================================================
