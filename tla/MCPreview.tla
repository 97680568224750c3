------------------------------ MODULE MCPreview ------------------------------
(* Small instances of Preview for TLC: an entry for each kind of template, *)
(* with more items than a page shows, prices with commas, descriptions     *)
(* with slashes, and items of which only the name is known; lists as texts *)
(* and as lists, whose items may have commas.                              *)
EXTENDS Preview

MCNumbers == {"55", "000won", "38"}

Wine(name, type, price, desc) ==
    [name |-> name, type |-> type, price |-> price, desc |-> desc]

Item(name, desc) == Wine(name, <<>>, <<>>, desc)

Wines ==
    [template |-> "wine", name |-> <<"Cellar">>, more |-> <<>>, as |-> "text",
     list |-> << Wine(<<"Chianti">>, <<"red">>, <<"55", ",", "000won">>, <<"steak", "/", "cheese">>),
                 Item(<<"Rose">>, <<>>),
                 Wine(<<"Soave">>, <<"white">>, <<"38", ",", "000won">>, <<>>),
                 Wine(<<"Cava">>, <<"white">>, <<"38">>, <<"dry">>),
                 Item(<<"Port">>, <<>>) >>]

(* The wines of a shop that has not told their prices but of one. *)
OneWine ==
    [template |-> "wine", name |-> <<"Cellar">>, more |-> <<>>, as |-> "text",
     list |-> << Wine(<<"Chianti">>, <<"red">>, <<"55", ",", "000won">>, <<"steak">>) >>]

Taxes ==
    [template |-> "tax", name |-> <<"Seoul">>, more |-> <<>>, as |-> "text",
     list |-> << Item(<<"audit">>, <<"firms", "/", "persons">>), Item(<<"VAT">>, <<>>),
                 Item(<<"38">>, <<"form">>), Item(<<"payroll">>, <<>>) >>]

Career ==
    [template |-> "career", name |-> <<"Kim">>, as |-> "text",
     list |-> << Item(<<"shop">>, <<"web">>), Item(<<"app">>, <<>>), Item(<<"game">>, <<>>) >>,
     more |-> << Item(<<"course">>, <<"AWS">>), Item(<<"talk">>, <<>>) >>]

General ==
    [template |-> "general", name |-> <<"Clinic">>, more |-> <<>>, as |-> "list",
     list |-> [i \in 1..5 |-> Item(<<"lifting", ",", "care">>, <<>>)]]

(* A wine named by its year. *)
DigitWines == [OneWine EXCEPT !.list = Append(@, Item(<<"38", "Brut">>, <<>>))]

MCEntries == {Wines, Taxes, Career, General, DigitWines}

(* Of the prices of its wines, a shop may have told but one. *)
MCWines == {OneWine, DigitWines}
=============================================================================
