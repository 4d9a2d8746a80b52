-------------------------------- MODULE Pages --------------------------------
(***************************************************************************)
(* The pages of the web application in the browser, each with its handlers *)
(* in the API as far as they answer it: the new quote and its numbers, the *)
(* search of a CEP, the lists, the dashboard's chart and the forms.  They  *)
(* share no component state and no request, so steps of different pages    *)
(* commute and a behaviour shows one page at work.                         *)
(***************************************************************************)
EXTENDS QuotePage, QuoteNumbers, CepSearch, ListPages, MetricsChart, Forms

VARIABLE pageAtWork

PageNames == {"quote", "numbers", "cep", "list", "chart", "form"}

\* The variables of the other pages.
OthersOf(p) ==
  /\ p # "quote" => UNCHANGED quotePageVars
  /\ p # "numbers" => UNCHANGED numbersVars
  /\ p # "cep" => UNCHANGED cepVars
  /\ p # "list" => UNCHANGED listVars
  /\ p # "chart" => UNCHANGED chartVars
  /\ p # "form" => UNCHANGED formsVars

pagesVars == <<pageAtWork, quotePageVars, numbersVars, cepVars, listVars, chartVars, formsVars>>

PagesInit ==
  /\ pageAtWork \in PageNames
  /\ QuotePageInit /\ NumbersInit /\ CepInit /\ ListInit /\ ChartInit /\ FormsInit

PagesNext ==
  /\ UNCHANGED pageAtWork /\ OthersOf(pageAtWork)
  /\ \/ pageAtWork = "quote" /\ QuotePageNext
     \/ pageAtWork = "numbers" /\ NumbersNext
     \/ pageAtWork = "cep" /\ CepNext
     \/ pageAtWork = "list" /\ ListNext
     \/ pageAtWork = "chart" /\ ChartNext
     \/ pageAtWork = "form" /\ FormsNext

\* Of a page that is not at work no fair step is enabled.
PagesSpec ==
  /\ PagesInit /\ [][PagesNext]_pagesVars
  /\ QuotePageFairness /\ CepFairness /\ ListFairness /\ FormsFairness
-----------------------------------------------------------------------------
PagesTypeOK ==
  /\ pageAtWork \in PageNames
  /\ QuotePageTypeOK /\ NumbersTypeOK /\ CepTypeOK /\ ListTypeOK /\ ChartTypeOK /\ FormsTypeOK

\* A list says "Carregando...", the search of a CEP "Buscando...", or a form is
\* on the page with its button disabled.
Spins(t) ==
  \/ TabRendered(t) \in {"loading", "nothing"}
  \/ isSearching
  \/ isSubmitting /\ formAt # "left"

\* Nothing spins for ever: a page that loads ends as a list, an error or at
\* /login, however tokens change meanwhile, a search ends, overlapping ones
\* included, and a form that submits can be used again or is left.
PagesSettle == \A t \in Tabs : Spins(t) ~> ~Spins(t)
=============================================================================
