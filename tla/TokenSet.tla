------------------------------ MODULE TokenSet ------------------------------
(* The access tokens of a source with one for each bank a user has connected:
   those the configuration declares and those requests add and remove.  A
   request reads the stored set, changes its copy and writes it back, and
   nothing keeps two requests apart.  teller and plaid hold the same code. *)
EXTENDS Naturals, Sequences, FiniteSets, SequencesExt

CONSTANTS
  Tokens,     \* access tokens
  Config,     \* the sequence of tokens the configuration declares
  Editors,    \* requests that connect or disconnect a bank
  MaxEdits    \* bound on those requests

VARIABLES
  vault,    \* the tokens in the secret store
  editor,   \* each request: where it is, the token and the tokens it read
  edits,    \* requests begun
  asked,    \* the tokens that the answered requests should have left connected
  mixed     \* two requests were under way at once
editVars == <<vault, editor, edits, asked, mixed>>

None == "none"

\* The numbers of a set, the smallest first; what a sequence has at some of its places.
InOrder(S) == [n \in 1 .. Cardinality(S) |-> CHOOSE i \in S : Cardinality({j \in S : j <= i}) = n]
AtPlaces(s, places) == [n \in DOMAIN InOrder(places) |-> s[InOrder(places)[n]]]

\* dedupeTokens: the first of equal tokens stays in place.
DedupeTokens(s) == AtPlaces(s, {i \in DOMAIN s : \A j \in 1 .. i - 1 : s[j] # s[i]})

\* resolveTokens: the configured ones first.
ResolveTokens == DedupeTokens(Config \o vault)

IdleEditor == [pc |-> "idle", token |-> None, read |-> << >>]

ReadTokens(e, pc, t) ==
  /\ editor[e].pc = "idle" /\ edits < MaxEdits
  /\ editor' = [editor EXCEPT ![e] = [pc |-> pc, token |-> t, read |-> vault]]
  /\ edits' = edits + 1
  /\ mixed' = (mixed \/ \E f \in Editors : editor[f].pc # "idle")
  /\ UNCHANGED <<vault, asked>>

\* SetCredential up to its read; a read that fails ends it.
SetCredential(e, t) == ReadTokens(e, "add", t)

\* RemoveCredential finds the token among the stored ones or fails.
RemoveCredential(e, t) == t \in ToSet(vault) /\ ReadTokens(e, "remove", t)

\* A removal that empties the store.
WriteTokensOver(e) ==
  LET t == editor[e].token
  IN  /\ editor[e].pc # "idle"
      /\ vault' = IF editor[e].pc = "add" THEN <<t>> ELSE << >>
      /\ asked' = IF editor[e].pc = "add" THEN asked \cup {t} ELSE asked \ {t}
      /\ editor' = [editor EXCEPT ![e] = IdleEditor]
      /\ UNCHANGED <<edits, mixed>>

\* setStoredTokens over what was read.
WriteTokens(e) ==
  LET t == editor[e].token  read == editor[e].read
  IN  /\ editor[e].pc # "idle"
      /\ vault' = IF editor[e].pc = "add" THEN DedupeTokens(Append(read, t))
                  ELSE AtPlaces(read, {i \in DOMAIN read : read[i] # t})
      /\ asked' = IF editor[e].pc = "add" THEN asked \cup {t} ELSE asked \ {t}
      /\ editor' = [editor EXCEPT ![e] = IdleEditor]
      /\ UNCHANGED <<edits, mixed>>

\* The store cannot be written: the request fails.
WriteFails(e) ==
  /\ editor[e].pc # "idle" /\ editor' = [editor EXCEPT ![e] = IdleEditor]
  /\ UNCHANGED <<vault, edits, asked, mixed>>

\* The listing: every token once, removable unless the configuration has it.
ListCredentials == [t \in ToSet(ResolveTokens) |-> t \notin ToSet(Config)]

CredentialConfigured == ResolveTokens # << >>


TokensInit == vault = << >> /\ editor = [e \in Editors |-> IdleEditor] /\ edits = 0 /\ asked = {} /\ mixed = FALSE

TokensNext == \E e \in Editors : \/ \E t \in Tokens : SetCredential(e, t) \/ RemoveCredential(e, t)
                                 \/ WriteTokens(e) \/ WriteFails(e)

-----------------------------------------------------------------------------
TokensTypeOK == vault \in Seq(Tokens) /\ \A e \in Editors : editor[e].pc \in {"idle", "add", "remove"}

\* Requests that do not overlap connect and disconnect exactly the banks they name, and
\* the listing shows each connected bank once, with what may be removed.
TokensAsAsked ==
  ~mixed /\ (\A e \in Editors : editor[e].pc = "idle") =>
    /\ ToSet(vault) = asked /\ IsInjective(ResolveTokens)
    /\ \A t \in DOMAIN ListCredentials : ListCredentials[t] => t \in asked

=============================================================================
