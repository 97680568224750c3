------------------------------ MODULE RenderSpec ------------------------------
(***************************************************************************)
(* From a contract to the page's specification: _build_render_spec of      *)
(* app/api/v1/sites.py and the parsers of the texts in which the chat      *)
(* agent hands over lists.  A text is a sequence of words, separators      *)
(* being words of their own; all that is known of a word is whether it     *)
(* begins with a digit.  Sentences around the words are left out.          *)
(* A slot for a list has a text or a list of texts.                        *)
(***************************************************************************)
EXTENDS Naturals, Sequences, SequencesExt

CONSTANT Numbers    \* the words that begin with a digit

-----------------------------------------------------------------------------
UpTo(n, s) == SubSeq(s, 1, IF Len(s) < n THEN Len(s) ELSE n)

(* str.split *)
Split(text, sep) ==
    LET Add(parts, word) == IF word = sep THEN Append(parts, <<>>)
                            ELSE [parts EXCEPT ![Len(parts)] = Append(@, word)]
    IN  FoldLeft(Add, << <<>> >>, text)

NonEmpty(parts) == SelectSeq(parts, LAMBDA part : part # <<>>)

AsText(text) == [kind |-> "text", text |-> text, parts |-> <<>>]
AsList(texts) == [kind |-> "list", text |-> <<>>, parts |-> texts]

(* _to_list: the parts between commas, or those of a list, empty ones      *)
(* dropped.                                                                *)
ToList(slot) ==
    NonEmpty(IF slot.kind = "list" THEN slot.parts ELSE Split(slot.text, ","))

(* _parse_service_items: "name/description, name". *)
ParseServiceItems(slot) ==
    LET Item(part) ==
            LET cut == SelectInSeq(part, LAMBDA word : word = "/")
                name == IF cut = 0 THEN part ELSE SubSeq(part, 1, cut - 1)
                desc == IF cut = 0 THEN <<>> ELSE SubSeq(part, cut + 1, Len(part))
            IN  [name |-> name, desc |-> desc, price |-> <<>>]
        parts == ToList(slot)
    IN  [i \in DOMAIN parts |-> Item(parts[i])]

(* Mutant: every comma ends an entry. *)
JoinPricesNever(parts) == parts

(* Prices have commas: a part that begins with a digit goes on with the    *)
(* entry before it.                                                        *)
JoinPrices(parts) ==
    LET Add(entries, part) ==
            IF /\ entries # <<>> /\ Last(entries) # <<>>
               /\ part # <<>> /\ Head(part) \in Numbers
            THEN [entries EXCEPT ![Len(entries)] = @ \o <<",">> \o part]
            ELSE Append(entries, part)
    IN  FoldLeft(Add, <<>>, parts)

(* _parse_wine_lineup: "name/type/price/description, name", descriptions   *)
(* that contain a slash included.                                          *)
ParseWineLineup(text) ==
    LET Wine(entry) ==
            LET p == Split(entry, "/")
                full == Len(p) >= 3
                rest == Len(p[1]) + Len(p[2]) + Len(p[3]) + 4
            IN  [name |-> p[1],
                 type |-> IF full THEN p[2] ELSE <<>>,
                 price |-> IF full THEN p[3] ELSE <<>>,
                 desc |-> IF Len(p) > 3 THEN SubSeq(entry, rest, Len(entry)) ELSE <<>>]
        named == SelectSeq(NonEmpty(JoinPrices(Split(text, ","))),
                           LAMBDA entry : Len(Split(entry, "/")) >= 3 \/ Head(entry) # "/")
    IN  [i \in DOMAIN named |-> Wine(named[i])]

-----------------------------------------------------------------------------
(* _get_template_category, for one template of each way to build a page:   *)
(* 10-wine-market, 13-tax-accounting, 17-career-notebook, landing_general. *)
Category == [wine |-> "store", tax |-> "landing", career |-> "blog", general |-> "landing"]

Labelled(type, desc) == IF desc = <<>> THEN type ELSE type \o <<"|">> \o desc

WineItem(wine) ==
    [name |-> wine.name, desc |-> Labelled(wine.type, wine.desc), price |-> wine.price]

Page(template, h1, subheadline, price, items) ==
    [category |-> Category[template], h1 |-> h1, subheadline |-> subheadline,
     price |-> price, items |-> items]

(* The template decides which slots are read, how they are parsed, how     *)
(* many items are shown and what the headline is.                          *)
BuildRenderSpec(contract) ==
    LET slots == contract.slots
        template == contract.template
        wines == ParseWineLineup(slots.wine_lineup)
        notes == UpTo(2, ParseServiceItems(slots.portfolio_projects))
                    \o UpTo(1, ParseServiceItems(slots.learning_activities))
        core == ToList(slots.core_services)
    IN
    CASE template = "wine" ->
            Page(template, IF wines = <<>> THEN slots.business_name ELSE wines[1].name,
                 IF wines = <<>> THEN <<>> ELSE wines[1].desc,
                 IF wines = <<>> THEN <<>> ELSE wines[1].price,
                 [i \in 1..Len(UpTo(4, wines)) |-> WineItem(wines[i])])
      [] template = "tax" ->
            Page(template, slots.business_region, <<>>, <<>>,
                 UpTo(3, ParseServiceItems(slots.tax_services)))
      [] template = "career" ->
            Page(template, IF slots.author_info = <<>> THEN slots.business_name ELSE slots.author_info,
                 <<>>, <<>>,
                 IF notes # <<>> \/ slots.author_info = <<>> THEN notes
                 ELSE <<[name |-> slots.author_info, desc |-> <<>>, price |-> <<>>]>>)
      [] OTHER ->
            Page(template, slots.business_name, <<>>, <<>>,
                 [i \in 1..Len(UpTo(4, core)) |->
                    [name |-> core[i], desc |-> <<>>, price |-> <<>>]])
=============================================================================
