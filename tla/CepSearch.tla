------------------------------ MODULE CepSearch ------------------------------
(***************************************************************************)
(* The widget that searches a CEP by address inside the form of a new      *)
(* quote, and the API's call of ViaCEP behind it.  Its button waits for    *)
(* the search before, the key Enter does not: searches may overlap, and    *)
(* their answers come in any order.                                        *)
(***************************************************************************)
EXTENDS Sequences, Naturals

CONSTANTS
  Addresses,   \* state, city and street, all of them filled in
  MaxSearches  \* bound

Partial == "partial"  \* fields that are empty or too short

ASSUME CepAssumption == Partial \notin Addresses /\ MaxSearches \in Nat

VARIABLES
  isOpen,
  fields,       \* what uf, city and street hold
  searches,     \* the calls of handleSearch
  results,      \* state `results`: the search that set it, 0 for []
  searchError,  \* state `error`: the search that set it, 0 for null
  message,      \* and whether it says that nothing was found
  isSearching,
  zipCode,      \* the search whose address was put into the form, 0 for none
  overlapped    \* history: handleSearch was called before the last one ended

widget == <<isOpen, fields, results, searchError, message, isSearching>>
cepVars == <<widget, searches, zipCode, overlapped>>

Calls == 1..Len(searches)
\* What fetchJson comes to: addresses, [], an object that tells of an error, or
\* a rejection.
ViaCepSays == {"addresses", "no address", "an object", "nothing"}

\* A search: the address asked for, what ViaCEP said and what the API answered.
Search ==
  [address : Addresses \cup {Partial}, viacep : ViaCepSays \cup {"not asked"},
   answer : {"awaited", "addresses", "no address", "failure", "taken"}]

CepInit ==
  /\ isOpen = FALSE /\ fields = Partial
  /\ searches = << >>
  /\ results = 0 /\ searchError = 0 /\ message = "none" /\ isSearching = FALSE
  /\ zipCode = 0
  /\ overlapped = FALSE
-----------------------------------------------------------------------------
(* The widget *)

\* What it holds stays while it is closed.
Toggles ==
  /\ isOpen' = ~isOpen
  /\ UNCHANGED <<fields, searches, results, searchError, message, isSearching, zipCode, overlapped>>

Types(a) ==
  /\ isOpen
  /\ fields' = a
  /\ UNCHANGED <<isOpen, searches, results, searchError, message, isSearching, zipCode, overlapped>>

Sends ==
  /\ Len(searches) < MaxSearches
  /\ searches' = Append(searches, [address |-> fields, viacep |-> "not asked", answer |-> "awaited"])
  /\ overlapped' = (overlapped \/ \E i \in Calls : searches[i].answer # "taken")
  /\ isSearching' = TRUE

\* Mutant: the results of the search before stay.
HandleSearchKeepsResults ==
  /\ Sends
  /\ searchError' = 0 /\ message' = "none"
  /\ UNCHANGED <<isOpen, fields, results, zipCode>>

HandleSearch ==
  /\ Sends
  /\ results' = 0 /\ searchError' = 0 /\ message' = "none"
  /\ UNCHANGED <<isOpen, fields, zipCode>>

Clicks == isOpen /\ ~isSearching /\ fields # Partial /\ HandleSearch

PressesEnter == isOpen /\ HandleSearch

Answer(i, a) == searches' = [searches EXCEPT ![i].answer = a]

ShowsResults(i) ==
  /\ searches[i].answer \in {"addresses", "no address"}
  /\ Answer(i, "taken")
  /\ results' = IF searches[i].answer = "addresses" THEN i ELSE 0
  /\ IF searches[i].answer = "addresses"
     THEN UNCHANGED <<searchError, message>>
     ELSE searchError' = i /\ message' = "not found"
  /\ isSearching' = FALSE
  /\ UNCHANGED <<isOpen, fields, zipCode, overlapped>>

ShowsSearchError(i) ==
  /\ searches[i].answer = "failure"
  /\ Answer(i, "taken")
  /\ searchError' = i /\ message' = "failure"
  /\ isSearching' = FALSE
  /\ UNCHANGED <<isOpen, fields, results, zipCode, overlapped>>

\* A click on an address.
Selects ==
  /\ isOpen /\ results # 0
  /\ zipCode' = results
  /\ isOpen' = FALSE
  /\ UNCHANGED <<fields, searches, results, searchError, message, isSearching, overlapped>>
-----------------------------------------------------------------------------
(* The API *)

\* searchByAddress: what is not a list is an empty one, a rejection is a 502.
SearchByAddress(v) ==
  CASE v = "nothing" -> "failure" [] v = "an object" -> "no address" [] OTHER -> v

AsksViaCep(i) ==
  /\ searches[i].answer = "awaited" /\ searches[i].address # Partial
  /\ \E v \in ViaCepSays :
       searches' = [searches EXCEPT ![i] = [@ EXCEPT !.viacep = v, !.answer = SearchByAddress(v)]]
  /\ UNCHANGED <<widget, zipCode, overlapped>>

\* SearchCepDto refuses the fields, or the call fails on its way.
SearchFails(i) ==
  /\ searches[i].answer = "awaited"
  /\ Answer(i, "failure")
  /\ UNCHANGED <<widget, zipCode, overlapped>>

Ends(i) == AsksViaCep(i) \/ SearchFails(i) \/ ShowsResults(i) \/ ShowsSearchError(i)

CepNext ==
  \/ Toggles \/ Clicks \/ PressesEnter \/ Selects
  \/ \E a \in Addresses \cup {Partial} : Types(a)
  \/ \E i \in Calls : Ends(i)

\* A call is answered or fails.
CepFairness == WF_cepVars(\E i \in Calls : Ends(i))

CepSpec == CepInit /\ [][CepNext]_cepVars /\ CepFairness
-----------------------------------------------------------------------------
CepTypeOK ==
  /\ isOpen \in BOOLEAN /\ isSearching \in BOOLEAN /\ overlapped \in BOOLEAN
  /\ fields \in Addresses \cup {Partial}
  /\ Len(searches) <= MaxSearches /\ \A i \in Calls : searches[i] \in Search
  /\ {results, searchError, zipCode} \subseteq {0} \cup Calls
  /\ message \in {"none", "not found", "failure"} /\ (message = "none" <=> searchError = 0)

\* Unless Enter made searches overlap, what the widget shows is of the last
\* search: no address beside an error, none of an earlier search, though the
\* fields are edited and the widget is closed and opened in between.  And
\* "Nenhum CEP encontrado" is always what ViaCEP said, in one of its two ways,
\* never how a failure of the integration or the network looks to the user.
ShowsLastSearch ==
  /\ message = "not found" => searches[searchError].viacep \in {"no address", "an object"}
  /\ ~overlapped =>
       /\ results # 0 => results = Len(searches) /\ searchError = 0
       /\ searchError # 0 => searchError = Len(searches)
       /\ isSearching <=> \E i \in Calls : searches[i].answer # "taken"
=============================================================================
