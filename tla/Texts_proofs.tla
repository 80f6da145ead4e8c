---------------------------- MODULE Texts_proofs ----------------------------
(***************************************************************************)
(* Proofs about two of the places that take text apart: MirrorConfig, for  *)
(* every number of lines and all urls and branches, and OutputStream, for  *)
(* all values, bytes and sizes.                                            *)
(***************************************************************************)
EXTENDS OutputStream, MirrorConfig, SequenceTheorems, WellFoundedInduction, TLAPS

LEMMA FunctionIsSeq ==
  ASSUME NEW S, NEW n \in Nat, NEW f \in [1..n -> S]
  PROVE  f \in Seq(S) /\ Len(f) = n
  <1>1. f \in Seq(S)
    BY SeqDef
  <1> QED
    BY <1>1

(***************************************************************************)
(* MirrorConfig.                                                           *)
(***************************************************************************)

\* A url is among the complete mirrors; a mirror is being read.
DeclaredUrl(name) == \E k \in DOMAIN declared : declared[k].url = name
Current == section = "mirrors" /\ item # None

\* What awk has printed for mirror i is what YAML makes of it.
Agrees(i) ==
  /\ awk.printed[i].url = Plain(declared[i].url)
  /\ awk.printed[i].branches = Written(declared[i].branches)

\* Where in the file the reader is, and what follows from that alone.
Reading ==
  /\ section = "none" => seen = {} /\ item = None
  /\ section # "none" => section \in seen
  /\ "mirrors" \in seen => awk.inMirrors
  /\ "mirrors" \notin seen \/ (section = "mirrors" /\ item = None) =>
       declared = << >> /\ (~pasted => awk.url = None /\ awk.printed = << >>)
  /\ followed => "mirrors" \in seen /\ section # "mirrors"
  /\ ~leading /\ Current => item.url # None

\* The urls awk has, printed or not, are those of mirrors.
UrlsOfMirrors ==
  ~pasted =>
    /\ \A i \in DOMAIN awk.printed : DeclaredUrl(awk.printed[i].url.name)
    /\ awk.url # None =>
         DeclaredUrl(awk.url.name) \/ (Current /\ item.url = awk.url.name)

\* awk keeps up: it is one mirror behind, which is the current one or, when a
\* list follows the mirrors, the last.
KeepsUp ==
  ~eof /\ ~quoted /\ ~leading /\ ~pasted =>
    /\ \A i \in DOMAIN awk.printed : Agrees(i)
    /\ Current =>
         /\ Len(awk.printed) = Len(declared)
         /\ awk.url = Plain(item.url) /\ awk.branches = Written(item.branches)
    /\ "mirrors" \in seen /\ section # "mirrors" =>
         /\ Len(declared) = Len(awk.printed) + 1
         /\ awk.url = Plain(declared[Len(declared)].url)
         /\ IF followed THEN awk.branches # << >>
            ELSE awk.branches = Written(declared[Len(declared)].branches)

YamlInv ==
  YamlTypeOK /\ Reading /\ UrlsOfMirrors /\ KeepsUp /\ MirrorsAsDeclared

Mirrors == [url : Urls, branches : Seq(Branches)]
Filters == Seq(Scalar(Branches \cup {None}))
Pairs == [url : Scalar(Urls), branches : Filters]

------------------------------------------------------------------------------
LEMMA NoneIsNothing ==
  /\ \A u \in Scalar(Urls) : u # None
  /\ \A url \in Urls : url # None /\ Plain(url) # None
  /\ \A it \in Items : it # None
  <1>1. \A u \in Scalar(Urls) : u # None
    BY MirrorNames
  <1>2. \A url \in Urls : url # None /\ Plain(url) \in Scalar(Urls)
    BY MirrorNames DEF Scalar, Plain
  <1>3. \A it \in Items : it # None
    BY MirrorNames
  <1> QED
    BY <1>1, <1>2, <1>3

LEMMA WrittenType ==
  ASSUME NEW names \in Seq(Branches)
  PROVE  Written(names) \in Filters /\ Len(Written(names)) = Len(names)
  <1>1. names \in [1..Len(names) -> Branches] /\ Len(names) \in Nat
    OBVIOUS
  <1>2. Written(names) \in [1..Len(names) -> Scalar(Branches \cup {None})]
    BY <1>1 DEF Written, Plain, Scalar
  <1> QED
    BY <1>1, <1>2, FunctionIsSeq DEF Filters

\* Appending a name to a list appends it to what awk has to print.
LEMMA WrittenProperties ==
  /\ Written(<< >>) = << >>
  /\ \A names \in Seq(Branches) :
       /\ Written(names) \in Filters
       /\ Written(names) = << >> <=> names = << >>
       /\ \A b \in Branches : Written(Append(names, b)) = Append(Written(names), Plain(b))
  <1>1. Written(<< >>) = << >>
    BY DEF Written
  <1>2. ASSUME NEW names \in Seq(Branches)
        PROVE  /\ Written(names) \in Filters
               /\ Written(names) = << >> <=> names = << >>
    <2>1. Written(names) \in Filters /\ Len(Written(names)) = Len(names)
      BY WrittenType
    <2> QED
      BY <2>1 DEF Filters
  <1>3. ASSUME NEW names \in Seq(Branches), NEW b \in Branches
        PROVE  Written(Append(names, b)) = Append(Written(names), Plain(b))
    <2>1. Append(names, b) \in Seq(Branches) /\ Len(Append(names, b)) = Len(names) + 1
      OBVIOUS
    <2>2. Written(names) \in Filters /\ Len(Written(names)) = Len(names)
      BY WrittenType
    <2>3. Plain(b) \in Scalar(Branches \cup {None})
      BY DEF Plain, Scalar
    <2>4. /\ Written(Append(names, b)) \in Filters
          /\ Len(Written(Append(names, b))) = Len(names) + 1
      BY <2>1, WrittenType
    <2>5. /\ Append(Written(names), Plain(b)) \in Filters
          /\ Len(Append(Written(names), Plain(b))) = Len(names) + 1
      BY <2>2, <2>3 DEF Filters
    <2>6. \A i \in 1..Len(names) + 1 :
            Written(Append(names, b))[i] = Append(Written(names), Plain(b))[i]
      <3> TAKE i \in 1..Len(names) + 1
      <3>1. Written(Append(names, b))[i] = Plain(Append(names, b)[i])
        BY <2>1 DEF Written
      <3>2. CASE i = Len(names) + 1
        BY <3>1, <3>2, <2>2, <2>3 DEF Filters
      <3>3. CASE i # Len(names) + 1
        <4>1. i \in 1..Len(names)
          BY <3>3
        <4>2. Append(names, b)[i] = names[i] /\ Written(names)[i] = Plain(names[i])
          BY <4>1 DEF Written
        <4>3. Append(Written(names), Plain(b))[i] = Written(names)[i]
          BY <4>1, <2>2, <2>3 DEF Filters
        <4> QED
          BY <3>1, <4>2, <4>3
      <3> QED
        BY <3>2, <3>3
    <2> QED
      BY <2>4, <2>5, <2>6, SeqEqual DEF Filters
  <1> QED
    BY <1>1, <1>2, <1>3

\* What a filter in flow style lists.
LEMMA ListsProperties ==
  \A bs \in Lists :
    /\ bs \in Filters /\ bs # << >>
    /\ Names(bs) \in Seq(Branches) /\ Names(bs) # << >>
    /\ (\A i \in DOMAIN bs : ~bs[i].quotes) => Written(Names(bs)) = bs
  <1> SUFFICES ASSUME NEW bs \in Lists
               PROVE  /\ bs \in Filters /\ bs # << >>
                      /\ Names(bs) \in Seq(Branches) /\ Names(bs) # << >>
                      /\ (\A i \in DOMAIN bs : ~bs[i].quotes) => Written(Names(bs)) = bs
    OBVIOUS
  <1>1. PICK n \in 0..2 : bs \in [1..n -> Scalar(Branches)]
    BY DEF Lists, BoundedSeq, SeqOf
  <1>2. bs \in Seq(Scalar(Branches)) /\ Len(bs) = n /\ bs # << >>
    BY <1>1 DEF Lists
  <1>3. bs \in Filters
    <2>1. Scalar(Branches) \subseteq Scalar(Branches \cup {None})
      BY DEF Scalar
    <2> QED
      BY <1>2, <2>1, SeqMonotonic DEF Filters
  <1>4. Names(bs) \in Seq(Branches) /\ Names(bs) # << >>
    <2>1. \A i \in 1..n : bs[i].name \in Branches
      BY <1>1 DEF Scalar
    <2>2. DOMAIN bs = 1..n
      BY <1>1
    <2>3. Names(bs) \in [1..n -> Branches]
      BY <2>1, <2>2 DEF Names
    <2>4. Names(bs) \in Seq(Branches) /\ Len(Names(bs)) = n
      BY <2>3, FunctionIsSeq
    <2> QED
      BY <1>2, <2>4
  <1>5. ASSUME \A i \in DOMAIN bs : ~bs[i].quotes
        PROVE  Written(Names(bs)) = bs
    <2>1. \A i \in DOMAIN bs : bs[i] = Plain(bs[i].name)
      <3> TAKE i \in DOMAIN bs
      <3>1. bs[i] \in [name : Branches, quotes : BOOLEAN] /\ bs[i].quotes = FALSE
        BY <1>1, <1>5 DEF Scalar
      <3> QED
        BY <3>1 DEF Plain
    <2>2. Written(Names(bs)) = [i \in DOMAIN bs |-> Plain(bs[i].name)]
      BY DEF Written, Names
    <2> QED
      BY <1>1, <2>1, <2>2
  <1> QED
    BY <1>2, <1>3, <1>4, <1>5

\* The rules of the awk program, by the fields they set.
LEMMA AwkRules ==
  ASSUME YamlTypeOK
  PROVE  /\ AwkMirrors =>
              /\ awk'.inMirrors /\ awk'.url = awk.url
              /\ awk'.branches = awk.branches /\ awk'.printed = awk.printed
         /\ \A u \in Scalar(Urls) : AwkUrl(u) =>
              IF awk.inMirrors
                THEN /\ awk'.inMirrors /\ awk'.url = u
                     /\ awk'.branches = << >> /\ awk'.printed = Printed(awk)
                ELSE awk' = awk
         /\ \A bs : AwkBranches(bs) =>
              IF awk.inMirrors
                THEN /\ awk'.inMirrors /\ awk'.url = awk.url
                     /\ awk'.branches = bs /\ awk'.printed = awk.printed
                ELSE awk' = awk
         /\ \A b : AwkItem(b) =>
              IF awk.inMirrors
                THEN /\ awk'.inMirrors /\ awk'.url = awk.url
                     /\ awk'.branches = Append(awk.branches, b)
                     /\ awk'.printed = awk.printed
                ELSE awk' = awk
         /\ AwkEnd =>
              /\ awk'.inMirrors = awk.inMirrors /\ awk'.url = None
              /\ awk'.branches = awk.branches /\ awk'.printed = Printed(awk)
  BY DEF YamlTypeOK, AwkMirrors, AwkUrl, AwkBranches, AwkItem, AwkEnd

AwkStates == [inMirrors : BOOLEAN, url : Scalar(Urls) \cup {None},
              branches : Filters, printed : Seq(Pairs)]

\* What is printed when there is a url, and that all remains what it was.
LEMMA PrintedProperties ==
  ASSUME YamlTypeOK
  PROVE  /\ Printed(awk) \in Seq(Pairs)
         /\ awk.url = None => Printed(awk) = awk.printed
         /\ awk.url # None =>
              /\ Len(Printed(awk)) = Len(awk.printed) + 1
              /\ \A i \in 1..Len(awk.printed) : Printed(awk)[i] = awk.printed[i]
              /\ Printed(awk)[Len(awk.printed) + 1]
                   = [url |-> awk.url, branches |-> awk.branches]
  <1>1. awk.printed \in Seq(Pairs)
    BY DEF YamlTypeOK, Pairs, Filters
  <1>2. CASE awk.url = None
    BY <1>1, <1>2 DEF Printed
  <1>3. CASE awk.url # None
    <2>1. [url |-> awk.url, branches |-> awk.branches] \in Pairs
      BY <1>3 DEF YamlTypeOK, Pairs, Filters
    <2>2. Printed(awk) = Append(awk.printed, [url |-> awk.url, branches |-> awk.branches])
      BY <1>3 DEF Printed
    <2> QED
      BY <1>1, <1>3, <2>1, <2>2, AppendProperties
  <1> QED
    BY <1>2, <1>3

LEMMA AwkTypes ==
  ASSUME YamlTypeOK
  PROVE  /\ awk \in AwkStates
         /\ AwkMirrors => awk' \in AwkStates
         /\ \A u \in Scalar(Urls) : AwkUrl(u) => awk' \in AwkStates
         /\ \A bs \in Filters : AwkBranches(bs) => awk' \in AwkStates
         /\ \A b \in Scalar(Branches \cup {None}) : AwkItem(b) => awk' \in AwkStates
         /\ AwkEnd => awk' \in AwkStates
  <1>1. awk \in AwkStates
    BY DEF YamlTypeOK, AwkStates, Pairs, Filters
  <1>2. Printed(awk) \in Seq(Pairs)
    BY PrintedProperties
  <1>3. \A b \in Scalar(Branches \cup {None}) : Append(awk.branches, b) \in Filters
    BY <1>1 DEF AwkStates, Filters
  <1>4. << >> \in Filters
    BY DEF Filters
  <1> QED
    BY <1>1, <1>2, <1>3, <1>4
       DEF AwkStates, AwkMirrors, AwkUrl, AwkBranches, AwkItem, AwkEnd

\* The end of an item.
LEMMA ItemEnds ==
  ASSUME YamlTypeOK
  PROVE  /\ item # None /\ section # "mirrors" => WithItem = declared
         /\ Current /\ ItemIsComplete =>
              /\ WithItem \in Seq(Mirrors) /\ Len(WithItem) = Len(declared) + 1
              /\ \A k \in 1..Len(declared) : WithItem[k] = declared[k]
              /\ WithItem[Len(declared) + 1] = [url |-> item.url, branches |-> item.branches]
  <1>1. declared \in Seq(Mirrors)
    BY DEF YamlTypeOK, Mirrors
  <1>2. CASE Current /\ ItemIsComplete
    <2>1. [url |-> item.url, branches |-> item.branches] \in Mirrors
      BY <1>2 DEF YamlTypeOK, Mirrors, Items, Current, ItemIsComplete
    <2>2. WithItem = Append(declared, [url |-> item.url, branches |-> item.branches])
      BY <1>2 DEF WithItem, Current
    <2> QED
      BY <1>1, <1>2, <2>1, <2>2, AppendProperties DEF Current
  <1> QED
    BY <1>2 DEF WithItem

Closes == declared' = IF item = None THEN declared ELSE WithItem

\* Where an item may end, the declared mirrors grow by the current one.
LEMMA Closed ==
  ASSUME YamlTypeOK, item = None \/ ItemIsComplete, Closes
  PROVE  /\ declared' \in Seq(Mirrors)
         /\ ~Current => declared' = declared
         /\ Current =>
              /\ Len(declared') = Len(declared) + 1
              /\ \A k \in 1..Len(declared) : declared'[k] = declared[k]
              /\ declared'[Len(declared) + 1] = [url |-> item.url, branches |-> item.branches]
         /\ \A name : DeclaredUrl(name) => DeclaredUrl(name)'
         /\ \A url : Current /\ url = item.url => DeclaredUrl(url)'
  <1>1. declared \in Seq(Mirrors)
    BY DEF YamlTypeOK, Mirrors
  <1>2. CASE Current
    <2>1. ItemIsComplete /\ declared' = WithItem
      BY <1>2 DEF Current, Closes
    <2>2. /\ declared' \in Seq(Mirrors) /\ Len(declared') = Len(declared) + 1
          /\ \A k \in 1..Len(declared) : declared'[k] = declared[k]
          /\ declared'[Len(declared) + 1] = [url |-> item.url, branches |-> item.branches]
      BY <1>2, <2>1, ItemEnds
    <2>3. DOMAIN declared = 1..Len(declared) /\ DOMAIN declared' = 1..Len(declared')
          /\ Len(declared) \in Nat
      BY <1>1, <2>2
    <2>4. ASSUME NEW name, DeclaredUrl(name) PROVE DeclaredUrl(name)'
      BY <2>2, <2>3, <2>4 DEF DeclaredUrl
    <2>5. ASSUME NEW url, url = item.url PROVE DeclaredUrl(url)'
      <3>1. Len(declared) + 1 \in DOMAIN declared' /\ declared'[Len(declared) + 1].url = url
        BY <2>2, <2>3, <2>5
      <3> QED
        BY <3>1 DEF DeclaredUrl
    <2> QED
      BY <1>2, <2>2, <2>4, <2>5
  <1>3. CASE ~Current
    <2>1. declared' = declared
      BY <1>3, ItemEnds DEF Current, Closes
    <2> QED
      BY <1>1, <1>3, <2>1 DEF DeclaredUrl
  <1> QED
    BY <1>2, <1>3

\* A line that begins a section.
LEMMA BeginSectionStep ==
  ASSUME YamlInv, NEW s \in Sections, BeginSection(s)
  PROVE  YamlInv'
  <1>1. /\ YamlTypeOK /\ Reading /\ UrlsOfMirrors /\ KeepsUp
        /\ ~eof /\ lines' = lines + 1 /\ s \notin seen
        /\ section' = s /\ seen' = seen \cup {s} /\ item' = None /\ Closes
        /\ UNCHANGED <<eof, quoted, leading, pasted, followed>>
    BY DEF YamlInv, BeginSection, Line, Closes
  <1>2. item = None \/ ItemIsComplete
    BY <1>1 DEF BeginSection, Reading
  <1>3. /\ awk'.url = awk.url /\ awk'.branches = awk.branches
        /\ awk'.printed = awk.printed
        /\ awk'.inMirrors = (awk.inMirrors \/ s = "mirrors")
        /\ awk' \in AwkStates
    BY <1>1, AwkRules, AwkTypes DEF BeginSection, AwkStates
  <1>4. section = "mirrors" => Current
    BY <1>1 DEF Current, BeginSection, ItemIsComplete, Reading
  <1>5. YamlTypeOK'
    BY <1>1, <1>2, <1>3, Closed DEF YamlTypeOK, AwkStates, Pairs, Filters, Mirrors
  <1>6. Reading'
    <2>1. "mirrors" \in seen' => awk'.inMirrors
      BY <1>1, <1>3 DEF Reading
    <2>2. ASSUME "mirrors" \notin seen' \/ s = "mirrors"
          PROVE  declared' = << >> /\ (~pasted' => awk'.url = None /\ awk'.printed = << >>)
      <3>1. "mirrors" \notin seen /\ ~Current
        BY <1>1, <2>2 DEF Reading, Current
      <3> QED
        BY <1>1, <1>2, <1>3, <3>1, Closed DEF Reading
    <2>3. followed' => "mirrors" \in seen' /\ section' # "mirrors"
      BY <1>1 DEF Reading
    <2>4. section' \in Sections /\ section' # "none" /\ section' \in seen'
      BY <1>1 DEF Sections
    <2> QED
      BY <1>1, <2>1, <2>2, <2>3, <2>4 DEF Reading, Current
  <1>7. UrlsOfMirrors'
    BY <1>1, <1>2, <1>3, Closed DEF UrlsOfMirrors, Current
  <1>8. KeepsUp'
    <2> SUFFICES ASSUME ~quoted, ~leading, ~pasted PROVE KeepsUp'
      BY <1>1 DEF KeepsUp
    <2>1. CASE Current
      <3>1. /\ \A i \in DOMAIN awk.printed : Agrees(i)
            /\ Len(awk.printed) = Len(declared)
            /\ awk.url = Plain(item.url) /\ awk.branches = Written(item.branches)
            /\ ~followed /\ section = "mirrors" /\ "mirrors" \in seen /\ s # "mirrors"
        BY <1>1, <2>1 DEF KeepsUp, Reading, Current
      <3>2. DOMAIN awk.printed = 1..Len(declared) /\ Len(declared) \in Nat
        BY <1>1, <3>1 DEF YamlTypeOK
      <3>3. \A i \in DOMAIN awk'.printed : Agrees(i)'
        BY <1>1, <1>2, <1>3, <2>1, <3>1, <3>2, Closed DEF Agrees
      <3>4. /\ Len(declared') = Len(awk'.printed) + 1
            /\ awk'.url = Plain(declared'[Len(declared')].url)
            /\ awk'.branches = Written(declared'[Len(declared')].branches)
        BY <1>1, <1>2, <1>3, <2>1, <3>1, <3>2, Closed
      <3> QED
        BY <1>1, <3>1, <3>3, <3>4 DEF KeepsUp, Current
    <2>2. CASE ~Current
      BY <1>1, <1>2, <1>3, <1>4, <2>2, Closed
         DEF KeepsUp, Reading, Current, Agrees, YamlTypeOK
    <2> QED
      BY <2>1, <2>2
  <1> QED
    BY <1>1, <1>5, <1>6, <1>7, <1>8 DEF YamlInv, MirrorsAsDeclared

\* What awk prints where a mirror is complete is a declared url.
LEMMA PrintsDeclared ==
  ASSUME YamlTypeOK, UrlsOfMirrors, ~pasted, item = None \/ ItemIsComplete, Closes,
         awk'.printed = Printed(awk)
  PROVE  (\A i \in DOMAIN awk.printed : DeclaredUrl(awk.printed[i].url.name))'
  <1>1. PICK urls : \A name : name \in urls <=> DeclaredUrl(name)'
    <2>1. \A name : name \in {declared'[k].url : k \in DOMAIN declared'} <=> DeclaredUrl(name)'
      BY DEF DeclaredUrl
    <2> QED
      BY <2>1
  <1>2. PICK printed : printed = awk'.printed
    OBVIOUS
  <1>3. awk.printed \in Seq(Pairs) /\ printed \in Seq(Pairs)
    BY <1>2, AwkTypes, PrintedProperties DEF AwkStates
  <1>4. \A i \in DOMAIN awk.printed : awk.printed[i].url.name \in urls
    BY <1>1, Closed DEF UrlsOfMirrors
  <1>5. \A i \in DOMAIN printed : printed[i].url.name \in urls
    <2>1. CASE awk.url = None
      BY <1>2, <1>4, <2>1, PrintedProperties
    <2>2. CASE awk.url # None
      <3>1. /\ Len(printed) = Len(awk.printed) + 1 /\ Len(awk.printed) \in Nat
            /\ \A i \in 1..Len(awk.printed) : printed[i] = awk.printed[i]
            /\ printed[Len(awk.printed) + 1].url = awk.url
        BY <1>2, <1>3, <2>2, PrintedProperties
      <3>2. awk.url.name \in urls
        BY <1>1, <2>2, Closed DEF UrlsOfMirrors
      <3> TAKE i \in DOMAIN printed
      <3>3. i \in 1..Len(awk.printed) \/ i = Len(awk.printed) + 1
        BY <1>3, <3>1
      <3>4. CASE i \in 1..Len(awk.printed)
        BY <1>3, <1>4, <3>1, <3>4
      <3> QED
        BY <3>1, <3>2, <3>3, <3>4
    <2> QED
      BY <2>1, <2>2
  <1> QED
    BY <1>1, <1>2, <1>5

\* The same for the pairs of a mirror and its filter, which agree.
LEMMA PrintsAgreeing ==
  ASSUME YamlTypeOK, Reading, KeepsUp, ~eof, ~quoted, ~leading, ~pasted,
         section = "none" \/ (section = "mirrors" /\ item = None) \/ ItemIsComplete, Closes,
         awk'.printed = Printed(awk)
  PROVE  /\ Len(awk'.printed) = Len(declared')
         /\ \A i \in 1..Len(declared') :
              /\ awk'.printed[i].url = Plain(declared'[i].url)
              /\ i < Len(declared') \/ ~followed =>
                   awk'.printed[i].branches = Written(declared'[i].branches)
              /\ i = Len(declared') /\ followed => awk'.printed[i].branches # << >>
         /\ Len(declared') \in Nat
  <1>1. PICK printed, mirrors : printed = awk'.printed /\ mirrors = declared'
    OBVIOUS
  <1>2. /\ awk.printed \in Seq(Pairs) /\ printed \in Seq(Pairs)
        /\ item = None \/ ItemIsComplete
        /\ declared \in Seq(Mirrors) /\ mirrors \in Seq(Mirrors)
    BY <1>1, AwkTypes, PrintedProperties, Closed DEF AwkStates, Reading, YamlTypeOK, Mirrors
  <1>3. CASE Current
    <2>1. /\ \A i \in DOMAIN awk.printed : Agrees(i)
          /\ Len(awk.printed) = Len(declared)
          /\ awk.url = Plain(item.url) /\ awk.branches = Written(item.branches)
          /\ ~followed
      BY <1>3 DEF KeepsUp, Reading, Current
    <2>2. awk.url # None
      BY <1>2, <1>3, <2>1, NoneIsNothing
         DEF Current, ItemIsComplete, YamlTypeOK, Items
    <2>3. /\ Len(printed) = Len(awk.printed) + 1 /\ Len(awk.printed) \in Nat
          /\ \A i \in 1..Len(awk.printed) : printed[i] = awk.printed[i]
          /\ printed[Len(awk.printed) + 1] = [url |-> awk.url, branches |-> awk.branches]
      BY <1>1, <1>2, <2>2, PrintedProperties
    <2>4. /\ Len(mirrors) = Len(declared) + 1
          /\ \A i \in 1..Len(declared) : mirrors[i] = declared[i]
          /\ mirrors[Len(declared) + 1] = [url |-> item.url, branches |-> item.branches]
      BY <1>1, <1>2, <1>3, Closed
    <2>5. ASSUME NEW i \in 1..Len(mirrors)
          PROVE  /\ printed[i].url = Plain(mirrors[i].url)
                 /\ printed[i].branches = Written(mirrors[i].branches)
      <3>1. CASE i = Len(declared) + 1
        BY <2>1, <2>3, <2>4, <3>1
      <3>2. CASE i # Len(declared) + 1
        <4>1. i \in 1..Len(declared) /\ i \in DOMAIN awk.printed
          BY <1>2, <2>1, <2>3, <2>4, <3>2
        <4> QED
          BY <2>1, <2>3, <2>4, <4>1 DEF Agrees
      <3> QED
        BY <3>1, <3>2
    <2> QED
      BY <1>1, <2>1, <2>3, <2>4, <2>5
  <1>4. CASE ~Current /\ "mirrors" \in seen /\ section # "mirrors"
    <2>1. /\ \A i \in DOMAIN awk.printed : Agrees(i)
          /\ Len(declared) = Len(awk.printed) + 1
          /\ awk.url = Plain(declared[Len(declared)].url)
          /\ IF followed THEN awk.branches # << >>
             ELSE awk.branches = Written(declared[Len(declared)].branches)
          /\ mirrors = declared
      BY <1>1, <1>2, <1>4, Closed DEF KeepsUp
    <2>2. Len(awk.printed) \in Nat /\ declared[Len(declared)] \in Mirrors
      BY <1>2, <2>1
    <2>3. awk.url # None
      BY <2>1, <2>2, NoneIsNothing DEF Mirrors
    <2>4. /\ Len(printed) = Len(declared)
          /\ \A i \in 1..Len(awk.printed) : printed[i] = awk.printed[i]
          /\ printed[Len(declared)] = [url |-> awk.url, branches |-> awk.branches]
      BY <1>1, <2>1, <2>3, PrintedProperties
    <2>5. ASSUME NEW i \in 1..Len(declared)
          PROVE  /\ printed[i].url = Plain(declared[i].url)
                 /\ i < Len(declared) \/ ~followed =>
                      printed[i].branches = Written(declared[i].branches)
                 /\ i = Len(declared) /\ followed => printed[i].branches # << >>
      <3>1. CASE i = Len(declared)
        BY <2>1, <2>4, <3>1
      <3>2. CASE i # Len(declared)
        <4>1. i \in 1..Len(awk.printed) /\ i \in DOMAIN awk.printed
          BY <1>2, <2>1, <2>2, <3>2
        <4> QED
          BY <2>1, <2>4, <3>2, <4>1 DEF Agrees
      <3> QED
        BY <3>1, <3>2
    <2> QED
      BY <1>1, <2>1, <2>2, <2>4, <2>5
  <1>5. CASE ~Current /\ ("mirrors" \notin seen \/ section = "mirrors")
    <2>1. declared = << >> /\ awk.url = None /\ awk.printed = << >>
      BY <1>5 DEF Reading, Current
    <2>2. printed = << >> /\ mirrors = << >>
      BY <1>1, <1>2, <1>5, <2>1, PrintedProperties, Closed
    <2> QED
      BY <1>1, <2>2
  <1> QED
    BY <1>3, <1>4, <1>5

\* "- url: u" of a mirror.
LEMMA MirrorUrlStep ==
  ASSUME YamlInv, NEW u \in Scalar(Urls), MirrorUrl(u)
  PROVE  YamlInv'
  <1>1. /\ YamlTypeOK /\ Reading /\ UrlsOfMirrors /\ KeepsUp
        /\ ~eof /\ lines' = lines + 1 /\ section = "mirrors" /\ "mirrors" \in seen
        /\ item = None \/ ItemIsComplete
        /\ item' = [url |-> u.name, branches |-> << >>, block |-> FALSE]
        /\ quoted' = (quoted \/ u.quotes) /\ Closes
        /\ UNCHANGED <<section, seen, eof, leading, pasted, followed>>
    BY DEF YamlInv, MirrorUrl, Line, Closes, Reading
  <1>2. /\ awk'.inMirrors /\ awk'.url = u
        /\ awk'.branches = << >> /\ awk'.printed = Printed(awk)
        /\ awk' \in AwkStates
    BY <1>1, AwkRules, AwkTypes DEF MirrorUrl, Reading
  <1>3. /\ u.name \in Urls /\ u.quotes \in BOOLEAN
        /\ item' \in Items /\ item' # None /\ item'.url = u.name /\ item'.branches = << >>
        /\ u.quotes = FALSE => u = Plain(u.name)
    <2>1. u \in [name : Urls, quotes : BOOLEAN]
      BY DEF Scalar
    <2>2. item' \in Items
      BY <1>1, <2>1 DEF Items
    <2> QED
      BY <1>1, <2>1, <2>2, NoneIsNothing DEF Plain
  <1>4. quoted' \in BOOLEAN
    BY <1>1, <1>3
  <1>5. YamlTypeOK'
    BY <1>1, <1>2, <1>3, <1>4, Closed, SMTT(30) DEF YamlTypeOK, AwkStates, Pairs, Filters, Mirrors
  <1>6. Reading'
    BY <1>1, <1>2, <1>3, MirrorNames DEF Reading, Current
  <1>7. UrlsOfMirrors'
    <2> SUFFICES ASSUME ~pasted PROVE UrlsOfMirrors'
      BY <1>1 DEF UrlsOfMirrors
    <2>1. (\A i \in DOMAIN awk.printed : DeclaredUrl(awk.printed[i].url.name))'
      BY <1>1, <1>2, PrintsDeclared
    <2> QED
      BY <1>1, <1>2, <1>3, <2>1 DEF UrlsOfMirrors, Current
  <1>8. KeepsUp'
    <2> SUFFICES ASSUME ~quoted', ~leading, ~pasted PROVE KeepsUp'
      BY <1>1 DEF KeepsUp
    <2>1. ~quoted /\ u.quotes = FALSE /\ ~followed
      BY <1>1, <1>3 DEF Reading
    <2>2. /\ Len(awk'.printed) = Len(declared') /\ Len(declared') \in Nat
          /\ \A i \in 1..Len(declared') :
               /\ awk'.printed[i].url = Plain(declared'[i].url)
               /\ awk'.printed[i].branches = Written(declared'[i].branches)
      BY <1>1, <1>2, <2>1, PrintsAgreeing
    <2>3. DOMAIN awk'.printed = 1..Len(declared')
      BY <1>2, <2>2 DEF AwkStates
    <2>4. \A i \in DOMAIN awk'.printed : Agrees(i)'
      BY <2>2, <2>3 DEF Agrees
    <2>5. awk'.url = Plain(item'.url) /\ awk'.branches = Written(item'.branches)
      BY <1>2, <1>3, <2>1, WrittenProperties
    <2> QED
      BY <1>1, <2>2, <2>4, <2>5 DEF KeepsUp, Current
  <1> QED
    BY <1>1, <1>5, <1>6, <1>7, <1>8 DEF YamlInv, MirrorsAsDeclared

\* "- branches: [...]" of a mirror, of which awk sees an item only.
LEMMA MirrorBranchesFirstStep ==
  ASSUME YamlInv, NEW bs \in Lists, MirrorBranchesFirst(bs)
  PROVE  YamlInv'
  <1>1. /\ YamlTypeOK /\ Reading /\ UrlsOfMirrors
        /\ ~eof /\ lines' = lines + 1 /\ section = "mirrors" /\ "mirrors" \in seen
        /\ item = None \/ ItemIsComplete
        /\ item' = [url |-> None, branches |-> Names(bs), block |-> FALSE]
        /\ leading' = TRUE /\ Closes
        /\ UNCHANGED <<section, seen, eof, quoted, pasted, followed>>
    BY DEF YamlInv, MirrorBranchesFirst, Line, Closes, Reading
  <1>2. /\ awk'.inMirrors /\ awk'.url = awk.url /\ awk'.printed = awk.printed
        /\ awk' \in AwkStates
    <2>1. Key \in Scalar(Branches \cup {None})
      BY DEF Key, Plain, Scalar
    <2> QED
      BY <1>1, <2>1, AwkRules, AwkTypes DEF MirrorBranchesFirst, Reading
  <1>3. item' \in Items /\ item' # None
    BY <1>1, ListsProperties, NoneIsNothing DEF Items
  <1>4. YamlTypeOK'
    BY <1>1, <1>2, <1>3, Closed DEF YamlTypeOK, AwkStates, Pairs, Filters, Mirrors
  <1>5. Reading'
    BY <1>1, <1>2, <1>3 DEF Reading, Current
  <1>6. UrlsOfMirrors'
    BY <1>1, <1>2, Closed DEF UrlsOfMirrors, Current
  <1> QED
    BY <1>1, <1>4, <1>5, <1>6 DEF YamlInv, KeepsUp, MirrorsAsDeclared

\* The url of such a mirror, which awk does not see.
LEMMA MirrorUrlNextStep ==
  ASSUME YamlInv, NEW u \in Scalar(Urls), MirrorUrlNext(u)
  PROVE  YamlInv'
  <1>1. /\ YamlTypeOK /\ Reading /\ UrlsOfMirrors
        /\ ~eof /\ lines' = lines + 1 /\ Current /\ item.url = None
        /\ item' = [item EXCEPT !.url = u.name]
        /\ UNCHANGED <<section, seen, declared, awk, eof, quoted, leading, pasted, followed>>
    BY DEF YamlInv, MirrorUrlNext, Line, Current
  <1>2. leading
    BY <1>1 DEF Reading
  <1>3. item' \in Items /\ item' # None
    BY <1>1, NoneIsNothing DEF YamlTypeOK, Items, Scalar, Current
  <1>4. YamlTypeOK' /\ Reading'
    BY <1>1, <1>2, <1>3 DEF YamlTypeOK, Reading, Current
  <1>5. UrlsOfMirrors'
    <2>1. awk.url # None => awk.url.name \in Urls
      BY <1>1 DEF YamlTypeOK, Scalar
    <2>2. awk.url # None => awk.url.name # None
      BY <2>1, NoneIsNothing
    <2> QED
      BY <1>1, <2>2 DEF UrlsOfMirrors, DeclaredUrl
  <1> QED
    BY <1>1, <1>2, <1>4, <1>5 DEF YamlInv, KeepsUp, MirrorsAsDeclared

\* "branches: [...]", "branches:" and "- b" of the current mirror.
LEMMA FilterStep ==
  ASSUME YamlInv, Current, ~eof, lines' = lines + 1,
         UNCHANGED <<section, seen, declared, eof, leading, pasted, followed>>,
         item' \in Items, item'.url = item.url,
         quoted' \in BOOLEAN, quoted => quoted',
         awk' \in AwkStates, awk'.inMirrors, awk'.url = awk.url,
         awk'.printed = awk.printed,
         ~quoted' /\ awk.branches = Written(item.branches) =>
           awk'.branches = Written(item'.branches)
  PROVE  YamlInv'
  <1>1. YamlTypeOK /\ Reading /\ UrlsOfMirrors /\ KeepsUp
    BY DEF YamlInv
  <1>2. item' # None /\ Current'
    BY NoneIsNothing DEF Current
  <1>3. YamlTypeOK'
    BY <1>1 DEF YamlTypeOK, AwkStates, Pairs, Filters
  <1>4. Reading'
    BY <1>1, <1>2 DEF Reading, Current
  <1>5. UrlsOfMirrors'
    BY <1>1, <1>2 DEF UrlsOfMirrors, DeclaredUrl
  <1>6. KeepsUp'
    BY <1>1, <1>2 DEF KeepsUp, Agrees, Current
  <1> QED
    BY <1>3, <1>4, <1>5, <1>6 DEF YamlInv, MirrorsAsDeclared

\* A line of a build or a task: it is not printed before the end, but may change
\* what is.
LEMMA OutsideStep ==
  ASSUME YamlInv, section \in {"build", "tasks"}, ~eof, lines' = lines + 1,
         UNCHANGED <<section, seen, declared, eof, quoted, leading>>,
         item' \in Items \cup {None},
         pasted' \in BOOLEAN, pasted => pasted',
         awk' \in AwkStates, awk.inMirrors => awk'.inMirrors,
         ~pasted' => awk'.url = awk.url /\ awk'.printed = awk.printed,
         \/ followed' = followed /\ (~pasted' => awk'.branches = awk.branches)
         \/ Follows /\ (awk.inMirrors => awk'.branches # << >>)
  PROVE  YamlInv'
  <1>1. YamlTypeOK /\ Reading /\ UrlsOfMirrors /\ KeepsUp
    BY DEF YamlInv
  <1>2. followed' \in BOOLEAN /\ (followed' => "mirrors" \in seen)
    BY <1>1 DEF Follows, Reading, YamlTypeOK
  <1>3. YamlTypeOK'
    BY <1>1, <1>2 DEF YamlTypeOK, AwkStates, Pairs, Filters
  <1>4. Reading'
    BY <1>1, <1>2 DEF Reading, Current
  <1>5. UrlsOfMirrors'
    BY <1>1 DEF UrlsOfMirrors, DeclaredUrl, Current
  <1>6. KeepsUp'
    <2> SUFFICES ASSUME ~quoted, ~leading, ~pasted' PROVE KeepsUp'
      BY DEF KeepsUp
    <2>1. ~pasted /\ awk'.url = awk.url /\ awk'.printed = awk.printed
      OBVIOUS
    <2>2. (\A i \in DOMAIN awk.printed : Agrees(i))'
      BY <1>1, <2>1 DEF KeepsUp, Agrees
    <2>3. ASSUME "mirrors" \in seen
          PROVE  IF followed' THEN awk'.branches # << >>
                 ELSE awk'.branches = Written(declared[Len(declared)].branches)
      <3>1. /\ awk.inMirrors
            /\ IF followed THEN awk.branches # << >>
               ELSE awk.branches = Written(declared[Len(declared)].branches)
        BY <1>1, <2>1, <2>3 DEF KeepsUp, Reading
      <3>2. CASE followed' = followed /\ awk'.branches = awk.branches
        BY <3>1, <3>2
      <3>3. CASE Follows /\ awk'.branches # << >>
        BY <2>3, <3>3 DEF Follows
      <3> QED
        BY <3>1, <3>2, <3>3
    <2> QED
      BY <1>1, <2>1, <2>2, <2>3 DEF KeepsUp, Current
  <1> QED
    BY <1>3, <1>4, <1>5, <1>6 DEF YamlInv, MirrorsAsDeclared

LEMMA BranchesFlowStep ==
  ASSUME YamlInv, NEW bs \in Lists, BranchesFlow(bs)
  PROVE  YamlInv'
  <1>1. /\ YamlTypeOK /\ Reading /\ ~eof /\ lines' = lines + 1 /\ item \in Items
        /\ item' = [item EXCEPT !.branches = Names(bs)]
        /\ AwkBranches(bs)
        /\ UNCHANGED <<section, seen, declared, eof, leading, pasted>>
    BY DEF YamlInv, BranchesFlow, Line, YamlTypeOK
  <1>2. /\ bs \in Filters /\ bs # << >> /\ Names(bs) \in Seq(Branches)
        /\ (\A i \in DOMAIN bs : ~bs[i].quotes) => Written(Names(bs)) = bs
    BY ListsProperties
  <1>3. item' \in Items /\ item'.url = item.url /\ item'.branches = Names(bs)
    BY <1>1, <1>2 DEF Items
  <1>4. /\ awk' \in AwkStates /\ awk'.inMirrors = awk.inMirrors /\ awk'.url = awk.url
        /\ awk'.printed = awk.printed /\ (awk.inMirrors => awk'.branches = bs)
    BY <1>1, <1>2, AwkRules, AwkTypes DEF AwkStates
  <1>5. CASE section = "mirrors"
    <2>1. Current /\ awk.inMirrors
      BY <1>1, <1>5 DEF BranchesFlow, Current, Reading
    <2>2. PICK q \in BOOLEAN : q <=> \E i \in DOMAIN bs : bs[i].quotes
      OBVIOUS
    <2>3. /\ quoted' = (quoted \/ \E i \in DOMAIN bs : bs[i].quotes)
          /\ followed' = followed
      BY <1>5 DEF BranchesFlow
    <2>4. quoted' \in BOOLEAN /\ (quoted => quoted')
      BY <1>1, <2>3 DEF YamlTypeOK
    <2> QED
      BY <1>1, <1>2, <1>3, <1>4, <2>1, <2>3, <2>4, FilterStep
  <1>6. CASE section # "mirrors"
    <2>1. section \in {"build", "tasks"} /\ Follows /\ quoted' = quoted
      BY <1>6 DEF BranchesFlow
    <2>2. pasted' \in BOOLEAN
      BY <1>1 DEF YamlTypeOK
    <2> QED
      BY <1>1, <1>2, <1>3, <1>4, <2>1, <2>2, OutsideStep
  <1> QED
    BY <1>5, <1>6

LEMMA BranchesBlockStep ==
  ASSUME YamlInv, BranchesBlock
  PROVE  YamlInv'
  <1>1. /\ YamlTypeOK /\ Reading /\ ~eof /\ lines' = lines + 1 /\ item \in Items
        /\ item' = [item EXCEPT !.block = TRUE]
        /\ UNCHANGED <<section, seen, declared, awk, eof, quoted, leading, pasted, followed>>
    BY DEF YamlInv, BranchesBlock, Line, YamlTypeOK
  <1>2. item' \in Items /\ item'.url = item.url /\ item'.branches = item.branches
    BY <1>1 DEF Items
  <1>3. /\ awk' \in AwkStates /\ quoted' \in BOOLEAN /\ pasted' \in BOOLEAN
    BY <1>1, AwkTypes DEF YamlTypeOK
  <1>4. CASE section = "mirrors"
    <2>1. Current /\ awk.inMirrors
      BY <1>1, <1>4 DEF BranchesBlock, Current, Reading
    <2> QED
      BY <1>1, <1>2, <1>3, <2>1, FilterStep
  <1>5. CASE section # "mirrors"
    <2>1. section \in {"build", "tasks"}
      BY <1>5 DEF BranchesBlock
    <2> QED
      BY <1>1, <1>2, <1>3, <2>1, OutsideStep
  <1> QED
    BY <1>4, <1>5

LEMMA BranchesItemStep ==
  ASSUME YamlInv, NEW b \in Scalar(Branches), BranchesItem(b)
  PROVE  YamlInv'
  <1>1. /\ YamlTypeOK /\ Reading /\ ~eof /\ lines' = lines + 1
        /\ item # None /\ item \in Items
        /\ item' = [item EXCEPT !.branches = Append(@, b.name)]
        /\ AwkItem(b)
        /\ UNCHANGED <<section, seen, declared, eof, leading, pasted>>
    BY DEF YamlInv, BranchesItem, Line, YamlTypeOK
  <1>2. b.name \in Branches /\ b.quotes \in BOOLEAN /\ b \in Scalar(Branches \cup {None})
        /\ (b.quotes = FALSE => b = Plain(b.name))
    <2>1. b \in [name : Branches, quotes : BOOLEAN]
      BY DEF Scalar
    <2> QED
      BY <2>1 DEF Scalar, Plain
  <1>3. /\ item' \in Items /\ item'.url = item.url
        /\ item'.branches = Append(item.branches, b.name) /\ item.branches \in Seq(Branches)
    <2>1. item.branches \in Seq(Branches)
      BY <1>1 DEF Items
    <2>2. Append(item.branches, b.name) \in Seq(Branches)
      BY <1>2, <2>1, AppendProperties
    <2> QED
      BY <1>1, <2>1, <2>2 DEF Items
  <1>4. /\ awk' \in AwkStates /\ awk'.inMirrors = awk.inMirrors /\ awk'.url = awk.url
        /\ awk'.printed = awk.printed
        /\ awk.inMirrors => awk'.branches = Append(awk.branches, b)
        /\ awk.branches \in Filters
    BY <1>1, <1>2, AwkRules, AwkTypes DEF AwkStates
  <1>5. CASE section = "mirrors"
    <2>1. Current /\ awk.inMirrors
      BY <1>1, <1>5 DEF Current, Reading
    <2>2. quoted' = (quoted \/ b.quotes) /\ followed' = followed
      BY <1>5 DEF BranchesItem
    <2>3. quoted' \in BOOLEAN /\ (quoted => quoted')
      BY <1>1, <1>2, <2>2 DEF YamlTypeOK
    <2>4. ~quoted' /\ awk.branches = Written(item.branches) =>
            awk'.branches = Written(item'.branches)
      BY <1>2, <1>3, <1>4, <2>1, <2>2, WrittenProperties
    <2> QED
      BY <1>1, <1>3, <1>4, <2>1, <2>2, <2>3, <2>4, FilterStep
  <1>6. CASE section # "mirrors"
    <2>1. Follows /\ quoted' = quoted
      BY <1>6 DEF BranchesItem
    <2>2. pasted' \in BOOLEAN /\ section \in {"build", "tasks"}
      BY <1>1, <1>6 DEF YamlTypeOK, Reading, Sections
    <2>3. awk.inMirrors => awk'.branches # << >>
      BY <1>2, <1>4, AppendProperties DEF Filters
    <2> QED
      BY <1>1, <1>3, <1>4, <2>1, <2>2, <2>3, OutsideStep
  <1> QED
    BY <1>5, <1>6

LEMMA OtherItemStep ==
  ASSUME YamlInv, OtherItem
  PROVE  YamlInv'
  <1>1. /\ YamlTypeOK /\ ~eof /\ lines' = lines + 1 /\ section \in {"build", "tasks"}
        /\ item' = [url |-> None, branches |-> << >>, block |-> FALSE]
        /\ AwkItem(Key) /\ Follows
        /\ UNCHANGED <<section, seen, declared, eof, quoted, leading, pasted>>
    BY DEF YamlInv, OtherItem, Line
  <1>2. Key \in Scalar(Branches \cup {None})
    BY DEF Key, Plain, Scalar
  <1>3. item' \in Items /\ pasted' \in BOOLEAN
    BY <1>1 DEF Items, YamlTypeOK
  <1>4. /\ awk' \in AwkStates /\ awk'.inMirrors = awk.inMirrors /\ awk'.url = awk.url
        /\ awk'.printed = awk.printed
        /\ awk.inMirrors => awk'.branches = Append(awk.branches, Key)
        /\ awk.branches \in Filters
    BY <1>1, <1>2, AwkRules, AwkTypes DEF AwkStates
  <1>5. awk.inMirrors => awk'.branches # << >>
    BY <1>2, <1>4, AppendProperties DEF Filters
  <1> QED
    BY <1>1, <1>3, <1>4, <1>5, OutsideStep

LEMMA ScriptLineStep ==
  ASSUME YamlInv, ScriptLine
  PROVE  YamlInv'
  <1>1. /\ YamlTypeOK /\ ~eof /\ lines' = lines + 1 /\ section \in {"build", "tasks"}
        /\ item \in Items \cup {None} /\ awk \in AwkStates /\ pasted \in BOOLEAN
        /\ UNCHANGED <<section, seen, item, declared, eof, quoted, leading>>
    BY AwkTypes DEF YamlInv, ScriptLine, Line, YamlTypeOK
  <1>2. CASE AwkMirrors /\ UNCHANGED <<pasted, followed>>
    BY <1>1, <1>2, AwkRules, AwkTypes, OutsideStep
  <1>3. ASSUME NEW u \in Scalar(Urls), AwkUrl(u), pasted' = (pasted \/ awk.inMirrors),
               UNCHANGED followed
        PROVE  YamlInv'
    <2>1. /\ awk' \in AwkStates /\ (awk.inMirrors => awk'.inMirrors)
          /\ ~awk.inMirrors => awk' = awk
      BY <1>1, <1>3, AwkRules, AwkTypes
    <2>2. pasted' \in BOOLEAN /\ (pasted => pasted') /\ (~pasted' => awk' = awk)
      BY <1>1, <1>3, <2>1 DEF AwkStates
    <2> QED
      BY <1>1, <1>3, <2>1, <2>2, OutsideStep
  <1>4. ASSUME NEW b \in Scalar(Branches), AwkItem(b) \/ AwkBranches(<<b>>), Follows,
               UNCHANGED pasted
        PROVE  YamlInv'
    <2>1. b \in Scalar(Branches \cup {None})
      BY DEF Scalar
    <2>2. <<b>> \in Filters /\ <<b>> # << >>
      BY <2>1 DEF Filters
    <2>3. Append(awk.branches, b) # << >>
      BY <1>1, <2>1, AppendProperties DEF Filters, AwkStates
    <2>4. /\ awk' \in AwkStates /\ awk'.inMirrors = awk.inMirrors /\ awk'.url = awk.url
          /\ awk'.printed = awk.printed /\ (awk.inMirrors => awk'.branches # << >>)
      BY <1>1, <1>4, <2>1, <2>2, <2>3, AwkRules, AwkTypes DEF AwkStates
    <2> QED
      BY <1>1, <1>4, <2>4, OutsideStep
  <1> QED
    BY <1>2, <1>3, <1>4 DEF ScriptLine

LEMMA EndOfFileStep ==
  ASSUME YamlInv, EndOfFile
  PROVE  YamlInv'
  <1>1. /\ YamlTypeOK /\ Reading /\ UrlsOfMirrors /\ KeepsUp
        /\ ~eof /\ eof' = TRUE /\ Closes /\ AwkEnd
        /\ section = "none" \/ ItemIsComplete
        /\ UNCHANGED <<section, seen, item, lines, quoted, leading, pasted, followed>>
    BY DEF YamlInv, EndOfFile, Closes
  <1>2. item = None \/ ItemIsComplete
    BY <1>1 DEF Reading
  <1>3. /\ awk' \in AwkStates /\ awk'.inMirrors = awk.inMirrors /\ awk'.url = None
        /\ awk'.printed = Printed(awk)
    BY <1>1, AwkRules, AwkTypes
  <1>4. YamlTypeOK'
    BY <1>1, <1>2, <1>3, Closed DEF YamlTypeOK, AwkStates, Pairs, Filters, Mirrors
  <1>5. Reading'
    <2>1. ASSUME "mirrors" \notin seen \/ (section = "mirrors" /\ item = None)
          PROVE  declared' = << >> /\ (~pasted => awk'.printed = << >>)
      <3>1. ~Current /\ declared = << >> /\ (~pasted => awk.url = None /\ awk.printed = << >>)
        BY <1>1, <2>1 DEF Reading, Current
      <3> QED
        BY <1>1, <1>2, <1>3, <3>1, Closed, PrintedProperties
    <2> QED
      BY <1>1, <1>3, <2>1 DEF Reading, Current
  <1>6. UrlsOfMirrors'
    <2> SUFFICES ASSUME ~pasted PROVE UrlsOfMirrors'
      BY <1>1 DEF UrlsOfMirrors
    <2>1. (\A i \in DOMAIN awk.printed : DeclaredUrl(awk.printed[i].url.name))'
      BY <1>1, <1>2, <1>3, PrintsDeclared
    <2> QED
      BY <1>3, <2>1 DEF UrlsOfMirrors
  <1>7. MirrorsAsDeclared'
    <2> SUFFICES ASSUME ~quoted, ~leading, ~pasted PROVE MirrorsAsDeclared'
      BY <1>1 DEF MirrorsAsDeclared
    <2>1. /\ Len(awk'.printed) = Len(declared') /\ Len(declared') \in Nat
          /\ \A i \in 1..Len(declared') :
               /\ awk'.printed[i].url = Plain(declared'[i].url)
               /\ i < Len(declared') \/ ~followed =>
                    awk'.printed[i].branches = Written(declared'[i].branches)
               /\ i = Len(declared') /\ followed => awk'.printed[i].branches # << >>
      BY <1>1, <1>3, PrintsAgreeing
    <2> QED
      BY <1>1, <2>1, WrittenProperties DEF MirrorsAsDeclared, Unfiltered
  <1> QED
    BY <1>1, <1>4, <1>5, <1>6, <1>7 DEF YamlInv, KeepsUp

LEMMA YamlInitially == YamlInit => YamlInv
  <1> SUFFICES ASSUME YamlInit PROVE YamlInv
    OBVIOUS
  <1>1. YamlTypeOK
    <2>1. awk \in [inMirrors : BOOLEAN, url : Scalar(Urls) \cup {None},
                   branches : Filters, printed : Seq(Pairs)]
      BY DEF YamlInit, Filters
    <2>2. section \in Sections \cup {"none"} /\ seen \subseteq Sections /\ lines \in Nat
      BY DEF YamlInit
    <2>3. item \in Items \cup {None} /\ declared \in Seq([url : Urls, branches : Seq(Branches)])
      BY DEF YamlInit
    <2>4. {eof, quoted, leading, pasted, followed} \subseteq BOOLEAN
      BY DEF YamlInit
    <2> QED
      BY <2>1, <2>2, <2>3, <2>4 DEF YamlTypeOK, Pairs, Filters
  <1>2. Reading /\ UrlsOfMirrors /\ KeepsUp /\ MirrorsAsDeclared
    BY DEF YamlInit, Reading, UrlsOfMirrors, KeepsUp, MirrorsAsDeclared, Current
  <1> QED
    BY <1>1, <1>2 DEF YamlInv

\* YamlInv is inductive.
THEOREM YamlInductive == YamlSpec => []YamlInv
  <1>1. ASSUME YamlInv, [YamlNext]_yamlvars PROVE YamlInv'
    <2>1. CASE UNCHANGED yamlvars
      BY <1>1, <2>1 DEF yamlvars, YamlInv, YamlTypeOK, Reading, UrlsOfMirrors, KeepsUp,
         MirrorsAsDeclared, Current, DeclaredUrl, Agrees
    <2>2. CASE YamlNext
      BY <1>1, <2>2, BeginSectionStep, MirrorUrlStep, MirrorUrlNextStep,
         MirrorBranchesFirstStep, BranchesFlowStep, OtherItemStep, BranchesBlockStep,
         ScriptLineStep, EndOfFileStep, BranchesItemStep DEF YamlNext
    <2> QED
      BY <1>1, <2>1, <2>2
  <1> QED
    BY <1>1, YamlInitially, PTL DEF YamlSpec

(***************************************************************************)
(* However long the file: what awk prints are the mirrors YAML declares,   *)
(* with the exceptions MirrorsAsDeclared names (mirror-sync.sh 81-105).    *)
(***************************************************************************)
THEOREM MirrorsAreDeclared == YamlSpec => []MirrorsAsDeclared
  <1>1. YamlInv => MirrorsAsDeclared
    BY DEF YamlInv
  <1> QED
    BY <1>1, YamlInductive, PTL

(***************************************************************************)
(* No push goes to a url that is not declared, except from the text of a   *)
(* script, whatever else awk misreads (mirror-sync.sh 81-105).             *)
(***************************************************************************)
THEOREM UrlsAreDeclared == YamlSpec => []OnlyDeclaredUrls
  <1>1. YamlInv => OnlyDeclaredUrls
    BY DEF YamlInv, UrlsOfMirrors, DeclaredUrl, OnlyDeclaredUrls
  <1> QED
    BY <1>1, YamlInductive, PTL

\* Type correctness.
THEOREM YamlTypeCorrect == YamlSpec => []YamlTypeOK
  <1>1. YamlInv => YamlTypeOK
    BY DEF YamlInv
  <1> QED
    BY <1>1, YamlInductive, PTL

------------------------------------------------------------------------------
(***************************************************************************)
(* OutputStream.                                                           *)
(***************************************************************************)

\* Every set of numbers has a least one: the library knows that < is well-founded.
LEMMA LeastNumber ==
  ASSUME NEW S, S \subseteq Nat, S # {}
  PROVE  Min(S) \in S /\ \A n \in S : Min(S) <= n
  <1> DEFINE R == {ss \in Nat \X Nat : ss[1] < ss[2]}
  <1>1. OpToRel(<, Nat) = R
    BY DEF OpToRel
  <1>2. IsWellFoundedOn(R, Nat)
    BY <1>1, NatLessThanWellFounded
  <1>3. \A x, y \in Nat : <<y, x>> \in R <=> y < x
    OBVIOUS
  <1>4. PICK m \in S : \A n \in S : ~ (<<n, m>> \in R)
    <2> HIDE DEF R
    <2> QED
      BY <1>2, WFMin
  <1>5. \A n \in S : m <= n
    <2> TAKE n \in S
    <2>1. n \in Nat /\ m \in Nat
      OBVIOUS
    <2>2. ~ (n < m)
      BY <1>3, <1>4, <2>1
    <2> QED
      BY <2>1, <2>2
  <1> QED
    BY <1>5 DEF Min

LEMMA MaxOfTwo ==
  ASSUME NEW n \in Int
  PROVE  Max({0, n}) = IF n > 0 THEN n ELSE 0
  <1>1. CASE n > 0
    <2>1. n \in {0, n} /\ \A y \in {0, n} : n >= y
      BY <1>1
    <2>2. \A x \in {0, n} : (\A y \in {0, n} : x >= y) => x = n
      BY <1>1
    <2> QED
      BY <1>1, <2>1, <2>2 DEF Max
  <1>2. CASE ~ (n > 0)
    <2>1. 0 \in {0, n} /\ \A y \in {0, n} : 0 >= y
      BY <1>2
    <2>2. \A x \in {0, n} : (\A y \in {0, n} : x >= y) => x = 0
      BY <1>2
    <2> QED
      BY <1>2, <2>1, <2>2 DEF Max
  <1> QED
    BY <1>1, <1>2

\* A function that is defined by going down from any number, to a smaller one
\* or to a stop, exists.
LEMMA DescentExists ==
  ASSUME NEW top \in Nat, NEW step \in [0..top -> Nat], \A c \in 0..top : step[c] <= c
  PROVE  \E f : f = [c \in 0..top |-> IF step[c] = c THEN c ELSE f[step[c]]]
  <1> DEFINE Down(n) == \E f : f = [c \in 0..n |-> IF step[c] = c THEN c ELSE f[step[c]]]
             Bad == {n \in 0..top : ~Down(n)}
  <1> SUFFICES Bad = {}
    <2>1. top \in 0..top
      OBVIOUS
    <2> QED
      BY <2>1
  <1> SUFFICES ASSUME Bad # {} PROVE FALSE
    OBVIOUS
  <1>1. PICK n \in Bad : \A k \in Bad : n <= k
    <2>1. Bad \subseteq Nat
      OBVIOUS
    <2> HIDE DEF Bad
    <2> QED
      BY <2>1, LeastNumber
  <1>2. n \in 0..top /\ ~Down(n)
    OBVIOUS
  <1>3. CASE n = 0
    <2> DEFINE g == [c \in 0..0 |-> 0]
    <2>1. step[0] = 0
      OBVIOUS
    <2>2. g = [c \in 0..0 |-> IF step[c] = c THEN c ELSE g[step[c]]]
      BY <2>1
    <2> HIDE DEF g
    <2> QED
      BY <1>2, <1>3, <2>2
  <1>4. CASE n # 0
    <2>1. n - 1 \in 0..top /\ ~ (n <= n - 1)
      BY <1>2, <1>4
    <2>2. Down(n - 1)
      BY <1>1, <2>1
    <2>3. PICK f : f = [c \in 0..n - 1 |-> IF step[c] = c THEN c ELSE f[step[c]]]
      BY <2>2
    <2> DEFINE g == [c \in 0..n |-> IF c < n THEN f[c]
                                    ELSE IF step[n] = n THEN n ELSE f[step[n]]]
    <2>4. ASSUME NEW c \in 0..n
          PROVE  g[c] = IF step[c] = c THEN c ELSE g[step[c]]
      <3>1. step[c] \in 0..c /\ c \in 0..top /\ step[c] \in Nat
        BY <1>2
      <3>2. CASE c < n
        <4>1. c \in 0..n - 1 /\ step[c] \in 0..n /\ step[c] < n
          BY <1>2, <3>1, <3>2
        <4>2. f[c] = IF step[c] = c THEN c ELSE f[step[c]]
          BY <2>3, <4>1
        <4> QED
          BY <3>2, <4>1, <4>2
      <3>3. CASE c = n
        <4>1. step[n] # n => step[n] \in 0..n /\ step[n] < n
          BY <1>2, <3>1, <3>3
        <4> QED
          BY <3>3, <4>1
      <3> QED
        BY <1>2, <3>2, <3>3
    <2>5. g = [c \in 0..n |-> IF step[c] = c THEN c ELSE g[step[c]]]
      <3>1. g = [c \in 0..n |-> g[c]]
        OBVIOUS
      <3> HIDE DEF g
      <3> QED
        BY <2>4, <3>1
    <2> HIDE DEF g
    <2> QED
      BY <1>2, <2>5
  <1> QED
    BY <1>3, <1>4

------------------------------------------------------------------------------
Text == Seq(Bytes \cup {Star})

\* The longest value is the first.
LEMMA LongestIsFirst ==
  ASSUME patterns \in PatternLists
  PROVE  /\ Longest \in Nat
         /\ \A i \in DOMAIN patterns : Len(patterns[i]) <= Longest
         /\ patterns = << >> => Longest = 0
         /\ patterns # << >> => Longest >= 1
  <1> DEFINE lengths == {0} \cup {Len(patterns[i]) : i \in DOMAIN patterns}
  <1>1. /\ patterns \in Seq(Text \ {<< >>})
        /\ \A i, j \in DOMAIN patterns : i < j => Len(patterns[i]) >= Len(patterns[j])
    BY PatternsAssumption DEF Text
  <1>2. \A i \in DOMAIN patterns : Len(patterns[i]) \in Nat /\ Len(patterns[i]) >= 1
    <2> TAKE i \in DOMAIN patterns
    <2>1. patterns[i] \in Text /\ patterns[i] # << >>
      BY <1>1
    <2> QED
      BY <2>1 DEF Text
  <1>3. CASE patterns = << >>
    <2>1. lengths = {0}
      BY <1>3
    <2>2. Longest = 0
      BY <2>1 DEF Longest, Max
    <2> QED
      BY <1>3, <2>2
  <1>4. CASE patterns # << >>
    <2>1. 1 \in DOMAIN patterns /\ \A i \in DOMAIN patterns : i = 1 \/ 1 < i
      BY <1>1, <1>4
    <2>2. \A i \in DOMAIN patterns : Len(patterns[1]) >= Len(patterns[i])
      BY <1>1, <1>2, <2>1
    <2>3. Len(patterns[1]) \in lengths /\ \A n \in lengths : Len(patterns[1]) >= n
      BY <1>2, <2>1, <2>2
    <2>4. lengths \subseteq Nat
      BY <1>2
    <2>5. Longest \in lengths /\ \A n \in lengths : Longest >= n
      <3> HIDE DEF lengths
      <3>1. \E m \in lengths : \A n \in lengths : m >= n
        BY <2>3
      <3>2. Max(lengths) \in lengths /\ \A n \in lengths : Max(lengths) >= n
        BY <3>1 DEF Max
      <3> QED
        BY <3>2 DEF Longest, lengths
    <2>6. Longest \in Nat /\ \A i \in DOMAIN patterns : Len(patterns[i]) <= Longest
      BY <2>4, <2>5
    <2>7. Longest >= 1
      BY <1>2, <2>1, <2>6
    <2> QED
      BY <1>4, <2>6, <2>7
  <1> QED
    BY <1>3, <1>4

\* A value that ends after the cut in a text, and one that begins at the cut.
LEMMA SplitsChain ==
  ASSUME patterns \in PatternLists, NEW t \in Text, NEW i \in DOMAIN patterns, NEW j \in DOMAIN patterns,
         NEW a \in Nat, NEW b \in Nat, a < b,
         Occurs(patterns[i], t, a), Occurs(patterns[j], t, b),
         b < a + Len(patterns[i]), a + Len(patterns[i]) <= b + Len(patterns[j])
  PROVE  Chained
  <1> DEFINE p == patterns[i]
             q == patterns[j]
             n == a + Len(p) - b
  <1>1. /\ p \in Text /\ q \in Text /\ p # << >> /\ q # << >>
    BY PatternsAssumption DEF Text
  <1>2. /\ Len(p) \in Nat /\ Len(q) \in Nat /\ Len(t) \in Nat
        /\ Len(p) >= 1 /\ Len(q) >= 1
        /\ a + Len(p) <= Len(t) /\ b + Len(q) <= Len(t)
        /\ p = SubSeq(t, a + 1, a + Len(p)) /\ q = SubSeq(t, b + 1, b + Len(q))
    BY <1>1 DEF Text, Occurs
  <1>3. n \in Nat /\ 1 <= n /\ n < Len(p) /\ n <= Len(q)
    BY <1>2
  <1>4. RestOf(p, Len(p) - n) = SubSeq(t, b + 1, b + n)
    <2>1. SubSeq(SubSeq(t, a + 1, a + Len(p)), Len(p) - n + 1, Len(p))
            = SubSeq(t, b + 1, b + n)
      <3>1. /\ a + 1 \in 1..Len(t) /\ a + Len(p) \in 1..Len(t)
            /\ Len(p) - n + 1 \in 1..(a + Len(p)) - (a + 1) + 1
            /\ Len(p) \in 1..(a + Len(p)) - (a + 1) + 1
            /\ (a + 1) + (Len(p) - n + 1) - 1 = b + 1
            /\ (a + 1) + Len(p) - 1 = b + n
        BY <1>2, <1>3
      <3> HIDE DEF n, p
      <3>2. PICK first, last, from, to :
              /\ first = a + 1 /\ last = a + Len(p) /\ from = Len(p) - n + 1 /\ to = Len(p)
        OBVIOUS
      <3>3. /\ first \in 1..Len(t) /\ last \in 1..Len(t)
            /\ from \in 1..last - first + 1 /\ to \in 1..last - first + 1
        BY <3>1, <3>2
      <3>4. SubSeq(SubSeq(t, first, last), from, to)
              = SubSeq(t, first + from - 1, first + to - 1)
        BY <3>3, SubSeqOfSubSeq DEF Text
      <3>5. first + from - 1 = b + 1 /\ first + to - 1 = b + n
        BY <3>1, <3>2
      <3> QED
        BY <3>2, <3>4, <3>5
    <2> QED
      BY <1>2, <2>1 DEF RestOf
  <1>5. FirstOf(q, n) = SubSeq(t, b + 1, b + n)
    <2>1. SubSeq(SubSeq(t, b + 1, b + Len(q)), 1, n) = SubSeq(t, b + 1, b + n)
      <3>1. /\ b + 1 \in 1..Len(t) /\ b + Len(q) \in 1..Len(t)
            /\ 1 \in 1..(b + Len(q)) - (b + 1) + 1
            /\ n \in 1..(b + Len(q)) - (b + 1) + 1
            /\ (b + 1) + 1 - 1 = b + 1 /\ (b + 1) + n - 1 = b + n
        BY <1>2, <1>3
      <3> HIDE DEF n, q
      <3> QED
        BY <3>1, SubSeqOfSubSeq DEF Text
    <2> QED
      BY <1>2, <2>1 DEF FirstOf
  <1>6. Min({Len(p), Len(q)}) \in Nat /\ n <= Min({Len(p), Len(q)})
    <2>1. {Len(p), Len(q)} \subseteq Nat /\ {Len(p), Len(q)} # {}
      BY <1>2
    <2>2. Min({Len(p), Len(q)}) \in {Len(p), Len(q)}
      BY <2>1, LeastNumber
    <2> QED
      BY <1>2, <1>3, <2>2
  <1>7. n \in 1..Min({Len(p), Len(q)}) /\ n < Len(p)
    BY <1>3, <1>6
  <1> HIDE DEF n
  <1>8. \E m \in 1..Min({Len(p), Len(q)}) :
          /\ m < Len(p) \/ m < Len(q)
          /\ RestOf(p, Len(p) - m) = FirstOf(q, m)
    BY <1>4, <1>5, <1>7
  <1> QED
    BY <1>8 DEF Chained

\* Where the cut goes from cut: nowhere, or to the beginning of the first
\* occurrence it would split.
Back(t, cut) ==
  LET splits == {i \in DOMAIN patterns : Split(patterns[i], t, cut) # {}}
  IN IF splits = {} THEN cut
     ELSE Min(Split(patterns[Min(splits)], t, cut))

Latest(t) == Max({0, Len(t) - Longest + 1})

LEMMA BackProperties ==
  ASSUME patterns \in PatternLists, NEW t \in Text, NEW cut \in Nat
  PROVE  \/ Back(t, cut) = cut /\ \A i \in DOMAIN patterns : Split(patterns[i], t, cut) = {}
         \/ /\ Back(t, cut) \in Nat /\ Back(t, cut) < cut
            /\ \E i \in DOMAIN patterns :
                 /\ Back(t, cut) \in Split(patterns[i], t, cut)
                 /\ \A j \in DOMAIN patterns : Split(patterns[j], t, cut) # {} => i <= j
  <1> DEFINE splits == {i \in DOMAIN patterns : Split(patterns[i], t, cut) # {}}
  <1>1. CASE splits = {}
    BY <1>1 DEF Back
  <1>2. CASE splits # {}
    <2>1. splits \subseteq Nat
      BY PatternsAssumption
    <2>2. PICK m : m = Min(splits)
      OBVIOUS
    <2>3. m \in splits /\ \A j \in splits : m <= j
      <3> HIDE DEF splits
      <3> QED
        BY <1>2, <2>1, <2>2, LeastNumber
    <2>4. PICK starts : starts = Split(patterns[m], t, cut)
      OBVIOUS
    <2>5. starts \subseteq 0..cut - 1 /\ starts # {}
      BY <2>3, <2>4 DEF Split
    <2>6. Min(starts) \in starts
      <3>1. starts \subseteq Nat
        BY <2>5
      <3> QED
        BY <2>5, <3>1, LeastNumber
    <2>7. Min(starts) \in 0..cut - 1
      BY <2>5, <2>6
    <2>8. Back(t, cut) = Min(starts)
      BY <1>2, <2>2, <2>4 DEF Back
    <2> QED
      BY <2>3, <2>4, <2>6, <2>7, <2>8
  <1> QED
    BY <1>1, <1>2

\* The recursion of safe_redaction_cutoff ends.
LEMMA CutoffIsDescent ==
  ASSUME patterns \in PatternLists, NEW t \in Text, patterns # << >>
  PROVE  /\ Latest(t) \in Nat
         /\ \E f : /\ \A c \in 0..Latest(t) :
                        f[c] = IF Back(t, c) = c THEN c ELSE f[Back(t, c)]
                   /\ SafeCutoff(t) = f[Latest(t)]
  <1> DEFINE top == Latest(t)
             step == [c \in 0..top |-> Back(t, c)]
  <1>1. top \in Nat
    BY MaxOfTwo, LongestIsFirst DEF Latest, Text
  <1>2. \A c \in 0..top : Back(t, c) \in Nat /\ Back(t, c) <= c
    BY <1>1, BackProperties
  <1>3. step \in [0..top -> Nat] /\ \A c \in 0..top : step[c] <= c
    BY <1>2
  <1>4. \E f : f = [c \in 0..top |-> IF step[c] = c THEN c ELSE f[step[c]]]
    <2> HIDE DEF top, step
    <2> QED
      BY <1>1, <1>3, DescentExists
  <1>5. ASSUME NEW f
        PROVE  [c \in 0..top |-> IF step[c] = c THEN c ELSE f[step[c]]]
             = [c \in 0..top |->
                 LET splits == {i \in DOMAIN patterns : Split(patterns[i], t, c) # {}}
                 IN IF splits = {} THEN c
                    ELSE f[Min(Split(patterns[Min(splits)], t, c))]]
    <2> SUFFICES ASSUME NEW c \in 0..top
                 PROVE  (IF step[c] = c THEN c ELSE f[step[c]])
                      = LET splits == {i \in DOMAIN patterns : Split(patterns[i], t, c) # {}}
                        IN IF splits = {} THEN c
                           ELSE f[Min(Split(patterns[Min(splits)], t, c))]
      <3> HIDE DEF top, step
      <3> QED
        OBVIOUS
    <2> DEFINE splits == {i \in DOMAIN patterns : Split(patterns[i], t, c) # {}}
    <2>1. c \in Nat /\ step[c] = Back(t, c)
      BY <1>1
    <2>2. CASE splits = {}
      BY <2>1, <2>2 DEF Back
    <2>3. CASE splits # {}
      <3>1. Back(t, c) # c
        BY <2>1, <2>3, BackProperties
      <3>2. Back(t, c) = Min(Split(patterns[Min(splits)], t, c))
        BY <2>3 DEF Back
      <3> QED
        BY <2>1, <2>3, <3>1, <3>2
    <2> QED
      BY <2>2, <2>3
  <1>6. SafeCutoff(t) = (CHOOSE f : f = [c \in 0..top |->
                 LET splits == {i \in DOMAIN patterns : Split(patterns[i], t, c) # {}}
                 IN IF splits = {} THEN c
                    ELSE f[Min(Split(patterns[Min(splits)], t, c))]])[top]
    BY DEF SafeCutoff, Latest
  <1>7. PICK f : /\ f = [c \in 0..top |-> IF step[c] = c THEN c ELSE f[step[c]]]
                 /\ SafeCutoff(t) = f[top]
    <2> DEFINE body(g) == [c \in 0..top |->
                 LET splits == {i \in DOMAIN patterns : Split(patterns[i], t, c) # {}}
                 IN IF splits = {} THEN c
                    ELSE g[Min(Split(patterns[Min(splits)], t, c))]]
    <2>1. \E g : g = body(g)
      <3>1. PICK g : g = [c \in 0..top |-> IF step[c] = c THEN c ELSE g[step[c]]]
        BY <1>4
      <3>2. body(g) = [c \in 0..top |-> IF step[c] = c THEN c ELSE g[step[c]]]
        BY <1>5
      <3> HIDE DEF body, top, step
      <3> QED
        BY <3>1, <3>2
    <2>2. SafeCutoff(t) = (CHOOSE g : g = body(g))[top]
      BY <1>6
    <2>3. \A g : body(g) = [c \in 0..top |-> IF step[c] = c THEN c ELSE g[step[c]]]
      BY <1>5
    <2>4. PICK g : g = (CHOOSE h : h = body(h))
      OBVIOUS
    <2>5. g = body(g)
      <3> HIDE DEF body
      <3> QED
        BY <2>1, <2>4
    <2>6. g = [c \in 0..top |-> IF step[c] = c THEN c ELSE g[step[c]]]
      <3>1. body(g) = [c \in 0..top |-> IF step[c] = c THEN c ELSE g[step[c]]]
        BY <2>3
      <3> HIDE DEF body, top, step
      <3> QED
        BY <2>5, <3>1
    <2>7. SafeCutoff(t) = g[top]
      <3> HIDE DEF body, top
      <3> QED
        BY <2>2, <2>4
    <2> HIDE DEF body, top, step
    <2> QED
      BY <2>6, <2>7
  <1>8. \A c \in 0..top : f[c] = IF Back(t, c) = c THEN c ELSE f[Back(t, c)]
    <2> TAKE c \in 0..top
    <2>1. step[c] = Back(t, c)
      OBVIOUS
    <2>2. f[c] = IF step[c] = c THEN c ELSE f[step[c]]
      <3> HIDE DEF top, step
      <3> QED
        BY <1>7
    <2> QED
      BY <2>1, <2>2
  <1> QED
    BY <1>1, <1>7, <1>8

\* The recursion ends at a cut that splits no value.
LEMMA CutoffEnds ==
  ASSUME patterns \in PatternLists, NEW t \in Text, patterns # << >>
  PROVE  /\ SafeCutoff(t) \in 0..Latest(t)
         /\ \A i \in DOMAIN patterns : Split(patterns[i], t, SafeCutoff(t)) = {}
  <1>1. PICK top : top = Latest(t)
    OBVIOUS
  <1>2. top \in Nat
    BY <1>1, CutoffIsDescent
  <1>3. PICK f : /\ \A c \in 0..top : f[c] = IF Back(t, c) = c THEN c ELSE f[Back(t, c)]
                 /\ SafeCutoff(t) = f[top]
    BY <1>1, CutoffIsDescent
  <1> DEFINE Ends(c) == f[c] \in 0..c /\ Back(t, f[c]) = f[c]
             Bad == {c \in 0..top : ~Ends(c)}
  <1>4. Bad = {}
    <2> SUFFICES ASSUME Bad # {} PROVE FALSE
      OBVIOUS
    <2>1. PICK c \in Bad : \A d \in Bad : c <= d
      <3>1. Bad \subseteq Nat
        OBVIOUS
      <3> HIDE DEF Bad
      <3> QED
        BY <3>1, LeastNumber
    <2>2. c \in 0..top /\ c \in Nat /\ ~Ends(c)
      OBVIOUS
    <2>3. f[c] = IF Back(t, c) = c THEN c ELSE f[Back(t, c)]
      BY <1>3, <2>2
    <2>4. CASE Back(t, c) = c
      <3>1. f[c] = c
        BY <2>3, <2>4
      <3> QED
        BY <2>2, <2>4, <3>1
    <2>5. CASE Back(t, c) # c
      <3>1. PICK d : d = Back(t, c)
        OBVIOUS
      <3>2. d \in Nat /\ d < c /\ f[c] = f[d]
        BY <2>2, <2>3, <2>5, <3>1, BackProperties
      <3>3. d \in 0..top /\ ~ (c <= d)
        BY <1>2, <2>2, <3>2
      <3>4. Ends(d)
        BY <2>1, <3>3
      <3> QED
        BY <2>2, <3>2, <3>4
    <2> QED
      BY <2>4, <2>5
  <1>5. Ends(top)
    BY <1>2, <1>4
  <1>6. SafeCutoff(t) \in 0..top /\ Back(t, SafeCutoff(t)) = SafeCutoff(t)
    BY <1>3, <1>5
  <1>7. SafeCutoff(t) \in Nat
    BY <1>2, <1>6
  <1> QED
    BY <1>1, <1>6, <1>7, BackProperties

\* Without chained values the cut moves once at most.
LEMMA CutoffMovesOnce ==
  ASSUME patterns \in PatternLists, ~Chained, NEW t \in Text, patterns # << >>
  PROVE  SafeCutoff(t) = Latest(t) \/ SafeCutoff(t) > Latest(t) - Longest
  <1>1. PICK top : top = Latest(t)
    OBVIOUS
  <1>2. top \in Nat
    BY <1>1, CutoffIsDescent
  <1>3. PICK f : /\ \A c \in 0..top : f[c] = IF Back(t, c) = c THEN c ELSE f[Back(t, c)]
                 /\ SafeCutoff(t) = f[top]
    BY <1>1, CutoffIsDescent
  <1>4. top \in 0..top
    BY <1>2
  <1>5. CASE Back(t, top) = top
    BY <1>1, <1>3, <1>4, <1>5
  <1>6. CASE Back(t, top) # top
    <2>1. PICK at : at = Back(t, top)
      OBVIOUS
    <2>2. PICK m \in DOMAIN patterns :
            /\ at \in Split(patterns[m], t, top)
            /\ \A j \in DOMAIN patterns : Split(patterns[j], t, top) # {} => m <= j
      BY <1>2, <1>6, <2>1, BackProperties
    <2>3. /\ at \in Nat /\ at < top /\ at + Len(patterns[m]) > top
          /\ Occurs(patterns[m], t, at)
      BY <1>2, <2>2 DEF Split
    <2>4. /\ \A i \in DOMAIN patterns : Len(patterns[i]) \in Nat
          /\ \A i, j \in DOMAIN patterns : i < j => Len(patterns[i]) >= Len(patterns[j])
          /\ DOMAIN patterns \subseteq Nat
      <3>1. patterns \in Seq(Text)
        BY PatternsAssumption DEF Text
      <3>2. \A i \in DOMAIN patterns : Len(patterns[i]) \in Nat
        BY <3>1 DEF Text
      <3>3. \A i, j \in DOMAIN patterns : i < j => Len(patterns[i]) >= Len(patterns[j])
        BY PatternsAssumption
      <3> QED
        BY <3>1, <3>2, <3>3
    <2>5. ASSUME NEW i \in DOMAIN patterns, NEW a \in Split(patterns[i], t, at)
          PROVE  FALSE
      <3>1. /\ a \in Nat /\ a < at /\ a + Len(patterns[i]) > at
            /\ Occurs(patterns[i], t, a)
        BY <2>3 DEF Split
      <3>2. CASE a + Len(patterns[i]) <= at + Len(patterns[m])
        BY <2>3, <2>4, <3>1, <3>2, SplitsChain
      <3>3. CASE a + Len(patterns[i]) > at + Len(patterns[m])
        <4>1. a \in 0..top - 1 /\ a + Len(patterns[i]) > top
          BY <1>2, <2>3, <2>4, <3>1, <3>3
        <4>2. a \in Split(patterns[i], t, top)
          BY <3>1, <4>1 DEF Split
        <4>3. m <= i
          BY <2>2, <4>2
        <4>4. Len(patterns[i]) > Len(patterns[m])
          BY <2>3, <2>4, <3>1, <3>3
        <4>5. m # i /\ m < i
          BY <2>4, <4>3, <4>4
        <4> QED
          BY <2>4, <4>4, <4>5
      <3> QED
        BY <2>3, <2>4, <3>1, <3>2, <3>3
    <2>6. Back(t, at) = at
      BY <2>3, <2>5, BackProperties
    <2>7. SafeCutoff(t) = at
      <3>1. at \in 0..top
        BY <1>2, <2>3
      <3>2. f[top] = f[at]
        BY <1>3, <1>4, <1>6, <2>1
      <3>3. f[at] = at
        BY <1>3, <2>6, <3>1
      <3> QED
        BY <1>3, <3>2, <3>3
    <2>8. Len(patterns[m]) <= Longest /\ Longest \in Nat
      BY LongestIsFirst
    <2>9. at > top - Longest
      BY <1>2, <2>3, <2>4, <2>8
    <2> QED
      BY <1>1, <2>7, <2>9
  <1> QED
    BY <1>5, <1>6

LEMMA CutoffBound ==
  ASSUME patterns \in PatternLists, NEW t \in Text
  PROVE  /\ SafeCutoff(t) \in 0..Len(t)
         /\ Chained \/ Len(t) - SafeCutoff(t) <= Max({0, 2 * (Longest - 1)})
  <1>1. Len(t) \in Nat /\ Longest \in Nat
    BY LongestIsFirst DEF Text
  <1>2. /\ Max({0, 2 * (Longest - 1)}) = IF 2 * (Longest - 1) > 0 THEN 2 * (Longest - 1) ELSE 0
        /\ Latest(t) = IF Len(t) - Longest + 1 > 0 THEN Len(t) - Longest + 1 ELSE 0
    <2>1. 2 * (Longest - 1) \in Int /\ Len(t) - Longest + 1 \in Int
      BY <1>1
    <2> QED
      BY <2>1, MaxOfTwo DEF Latest
  <1>3. CASE patterns = << >>
    <2>1. SafeCutoff(t) = Len(t)
      BY <1>3 DEF SafeCutoff
    <2> QED
      BY <1>1, <1>2, <2>1
  <1>4. CASE patterns # << >>
    <2>1. Longest >= 1
      BY <1>4, LongestIsFirst
    <2>2. SafeCutoff(t) \in 0..Latest(t)
      BY <1>4, CutoffEnds
    <2>3. Latest(t) \in 0..Len(t)
      BY <1>1, <1>2, <2>1
    <2>4. SafeCutoff(t) \in 0..Len(t)
      BY <1>1, <2>2, <2>3
    <2>5. ASSUME ~Chained
          PROVE  Len(t) - SafeCutoff(t) <= Max({0, 2 * (Longest - 1)})
      <3>1. SafeCutoff(t) = Latest(t) \/ SafeCutoff(t) > Latest(t) - Longest
        BY <1>4, <2>5, CutoffMovesOnce
      <3>2. PICK cut, latest, longest, len :
              /\ cut = SafeCutoff(t) /\ latest = Latest(t)
              /\ longest = Longest /\ len = Len(t)
        OBVIOUS
      <3>3. /\ latest = IF len - longest + 1 > 0 THEN len - longest + 1 ELSE 0
            /\ cut \in 0..latest /\ len \in Nat /\ longest \in Nat /\ longest >= 1
            /\ cut = latest \/ cut > latest - longest
        BY <1>1, <1>2, <2>1, <2>2, <3>1, <3>2
      <3>4. latest \in Nat /\ cut \in Nat
        BY <3>3
      <3>5. len - cut <= 2 * (longest - 1)
        BY <3>3, <3>4
      <3>6. Max({0, 2 * (longest - 1)}) >= 2 * (longest - 1)
        BY <1>2, <3>2, <3>3
      <3> QED
        BY <3>2, <3>3, <3>4, <3>5, <3>6, <1>2
    <2> QED
      BY <2>4, <2>5
  <1> QED
    BY <1>3, <1>4

(***************************************************************************)
(* safe_redaction_cutoff ends, inside the buffer, at a place that no value *)
(* in the buffer crosses, for any values and any bytes (build_image.py     *)
(* 459-473).                                                               *)
(***************************************************************************)
THEOREM CutSplitsNoValue ==
  ASSUME patterns \in PatternLists, NEW t \in Seq(Bytes \cup {Star})
  PROVE  /\ SafeCutoff(t) \in 0..Len(t)
         /\ \A i \in DOMAIN patterns : Split(patterns[i], t, SafeCutoff(t)) = {}
  <1>1. t \in Text
    BY DEF Text
  <1>2. SafeCutoff(t) \in 0..Len(t)
    BY <1>1, CutoffBound
  <1>3. CASE patterns # << >>
    BY <1>1, <1>2, <1>3, CutoffEnds
  <1>4. CASE patterns = << >>
    BY <1>2, <1>4
  <1> QED
    BY <1>3, <1>4

StreamInv ==
  /\ patterns \in PatternLists /\ pending \in Seq(Bytes)
  /\ PendingIsBounded

LEMMA StreamInitially == StreamInit => StreamInv
  <1> SUFFICES ASSUME StreamInit PROVE StreamInv
    OBVIOUS
  <1>1. patterns \in PatternLists /\ pending = << >>
    BY DEF StreamInit
  <1>2. 2 * (Longest - 1) \in Int
    BY <1>1, LongestIsFirst
  <1>3. Max({0, 2 * (Longest - 1)}) >= 0
    BY <1>2, MaxOfTwo
  <1> QED
    BY <1>1, <1>3 DEF StreamInv, PendingIsBounded

\* One turn of the loop.
LEMMA TurnStep ==
  ASSUME StreamInv, UNCHANGED patterns, NEW chunk \in Seq(Bytes), Turn(chunk)
  PROVE  StreamInv'
  <1>1. CASE UNCHANGED pending
    BY <1>1 DEF StreamInv, PendingIsBounded, Longest, Chained
  <1>2. CASE pending' = RestOf(pending \o chunk, SafeCutoff(pending \o chunk))
    <2>1. PICK buffer : buffer = pending \o chunk
      OBVIOUS
    <2>2. buffer \in Seq(Bytes) /\ buffer \in Text
      <3>1. buffer \in Seq(Bytes)
        BY <2>1 DEF StreamInv
      <3> QED
        BY <3>1, SeqMonotonic DEF Text
    <2>3. PICK cut : cut = SafeCutoff(buffer)
      OBVIOUS
    <2>4. /\ cut \in 0..Len(buffer)
          /\ Chained \/ Len(buffer) - cut <= Max({0, 2 * (Longest - 1)})
      BY <2>2, <2>3, CutoffBound DEF StreamInv
    <2>5. pending' = SubSeq(buffer, cut + 1, Len(buffer))
      BY <1>2, <2>1, <2>3 DEF RestOf
    <2>6. /\ pending' \in Seq(Bytes)
          /\ Len(pending') = IF cut + 1 <= Len(buffer) THEN Len(buffer) - (cut + 1) + 1 ELSE 0
      <3>1. \A i \in cut + 1..Len(buffer) : buffer[i] \in Bytes
        BY <2>2, <2>4
      <3>2. cut + 1 \in Int /\ Len(buffer) \in Int
        BY <2>2, <2>4
      <3> QED
        BY <2>5, <3>1, <3>2, SubSeqProperties
    <2>7. Len(pending') = Len(buffer) - cut
      BY <2>2, <2>4, <2>6
    <2> QED
      BY <2>4, <2>6, <2>7 DEF StreamInv, PendingIsBounded, Longest, Chained
  <1> QED
    BY <1>1, <1>2 DEF Turn

(***************************************************************************)
(* The reader of a task's output keeps back less than two values however   *)
(* long the output is, whatever the values, the bytes and the size of a    *)
(* read, unless values are chained (build_image.py 459-473).               *)
(***************************************************************************)
THEOREM PendingStaysBounded == StreamSpec => []PendingIsBounded
  <1>1. ASSUME StreamInv, [StreamNext]_streamvars PROVE StreamInv'
    <2>1. CASE UNCHANGED <<patterns, pending>>
      BY <1>1, <2>1 DEF StreamInv, PendingIsBounded, Longest, Chained
    <2>2. ASSUME NEW n \in Nat, NEW chunk \in [1..n -> Bytes], Turn(chunk),
                 UNCHANGED patterns
          PROVE  StreamInv'
      <3>1. chunk \in Seq(Bytes)
        BY FunctionIsSeq
      <3> QED
        BY <1>1, <2>2, <3>1, TurnStep
    <2>3. CASE ReadBuffer
      <3>1. ReadSize \in Nat
        BY SizesAssumption
      <3> QED
        BY <2>2, <2>3, <3>1 DEF ReadBuffer
    <2>4. CASE ReadLast
      <3>1. \A n \in 1..ReadSize - 1 : n \in Nat
        OBVIOUS
      <3> QED
        BY <2>2, <2>4, <3>1 DEF ReadLast
    <2>5. CASE EndOfOutput \/ UNCHANGED streamvars
      BY <2>1, <2>5 DEF EndOfOutput, streamvars
    <2> QED
      BY <1>1, <2>3, <2>4, <2>5 DEF StreamNext
  <1>2. StreamInv => PendingIsBounded
    BY DEF StreamInv
  <1> QED
    BY <1>1, <1>2, StreamInitially, PTL DEF StreamSpec

------------------------------------------------------------------------------
(***************************************************************************)
(* Replacing and redacting.  Both are recursive functions: replacing goes  *)
(* along the text, redacting along the list of values.                     *)
(***************************************************************************)

\* Down from n: what holds of i if it holds of all above holds of all.
LEMMA DownFrom ==
  ASSUME NEW n \in Nat, NEW G, \A i \in 1..n : (\A j \in i + 1..n : j \in G) => i \in G
  PROVE  \A i \in 1..n : i \in G
  <1> DEFINE Bad == {n - i : i \in {k \in 1..n : k \notin G}}
  <1> SUFFICES ASSUME NEW i \in 1..n, i \notin G PROVE FALSE
    OBVIOUS
  <1>1. Bad \subseteq Nat /\ Bad # {}
    <2>1. n - i \in Bad
      OBVIOUS
    <2>2. \A k \in 1..n : n - k \in Nat
      OBVIOUS
    <2> QED
      BY <2>1, <2>2
  <1>2. PICK b \in Bad : \A c \in Bad : b <= c
    <2> HIDE DEF Bad
    <2> QED
      BY <1>1, LeastNumber
  <1>3. PICK m \in 1..n : m \notin G /\ b = n - m
    OBVIOUS
  <1>4. PICK j \in m + 1..n : j \notin G
    BY <1>3
  <1>5. j \in 1..n /\ n - j \in Bad /\ ~ (n - m <= n - j)
    <2>1. j \in 1..n /\ j > m
      BY <1>3, <1>4
    <2>2. n - j \in Bad
      BY <1>4, <2>1
    <2> QED
      BY <2>1, <2>2
  <1> QED
    BY <1>2, <1>3, <1>5

\* Up from 0.
LEMMA UpFrom ==
  ASSUME NEW n \in Nat, NEW G, 0 \in G, \A k \in 1..n : k - 1 \in G => k \in G
  PROVE  \A k \in 0..n : k \in G
  <1> DEFINE Bad == {k \in 0..n : k \notin G}
  <1> SUFFICES ASSUME Bad # {} PROVE FALSE
    OBVIOUS
  <1>1. Bad \subseteq Nat
    OBVIOUS
  <1>2. PICK b \in Bad : \A c \in Bad : b <= c
    <2> HIDE DEF Bad
    <2> QED
      BY <1>1, LeastNumber
  <1>3. b \in 1..n /\ b \notin G
    OBVIOUS
  <1>4. b - 1 \in G
    <2>1. b - 1 \in 0..n /\ ~ (b <= b - 1)
      BY <1>3
    <2>2. b - 1 \notin Bad
      BY <1>2, <2>1
    <2> QED
      BY <2>1, <2>2
  <1> QED
    BY <1>3, <1>4

Ascends(f, n, pre, up) ==
  f = [i \in 1..n + 1 |-> IF i = n + 1 THEN << >> ELSE pre[i] \o f[up[i]]]

\* A function that is defined by what it is further up exists.
LEMMA AscentExists ==
  ASSUME NEW n \in Nat, NEW pre, NEW up \in [1..n -> Nat],
         \A i \in 1..n : up[i] \in i + 1..n + 1
  PROVE  \E f : Ascends(f, n, pre, up)
  <1> DEFINE Defined(m) ==
               \E f : f = [i \in m..n + 1 |-> IF i = n + 1 THEN << >> ELSE pre[i] \o f[up[i]]]
             G == {m \in 1..n + 1 : Defined(m)}
  <1>1. n + 1 \in Nat
    OBVIOUS
  <1>2. ASSUME NEW m \in 1..n + 1, \A j \in m + 1..n + 1 : j \in G
        PROVE  m \in G
    <2>1. CASE m = n + 1
      <3> DEFINE g == [i \in n + 1..n + 1 |-> << >>]
      <3>1. g = [i \in n + 1..n + 1 |-> IF i = n + 1 THEN << >> ELSE pre[i] \o g[up[i]]]
        OBVIOUS
      <3> HIDE DEF g
      <3>2. Defined(n + 1)
        BY <3>1
      <3> QED
        BY <2>1, <3>2
    <2>2. CASE m # n + 1
      <3>1. m + 1 \in m + 1..n + 1 /\ m \in 1..n
        BY <2>2
      <3>2. Defined(m + 1)
        BY <1>2, <3>1
      <3>3. PICK f : f = [i \in m + 1..n + 1 |->
                            IF i = n + 1 THEN << >> ELSE pre[i] \o f[up[i]]]
        BY <3>2
      <3> DEFINE g == [i \in m..n + 1 |-> IF i = m THEN pre[m] \o f[up[m]] ELSE f[i]]
      <3>4. ASSUME NEW i \in m..n + 1
            PROVE  g[i] = IF i = n + 1 THEN << >> ELSE pre[i] \o g[up[i]]
        <4>1. CASE i = m
          <5>1. up[m] \in m + 1..n + 1
            BY <3>1
          <5>2. up[m] \in m..n + 1 /\ up[m] # m
            BY <3>1, <5>1
          <5>3. g[up[m]] = f[up[m]]
            BY <5>2
          <5> QED
            BY <2>2, <4>1, <5>3
        <4>2. CASE i # m /\ i # n + 1
          <5>1. i \in m + 1..n + 1 /\ i \in 1..n
            BY <3>1, <4>2
          <5>2. f[i] = pre[i] \o f[up[i]]
            BY <3>3, <4>2, <5>1
          <5>3. up[i] \in i + 1..n + 1
            BY <5>1
          <5>4. up[i] \in m..n + 1 /\ up[i] # m
            BY <3>1, <5>1, <5>3
          <5>5. g[up[i]] = f[up[i]]
            BY <5>4
          <5> QED
            BY <4>2, <5>2, <5>5
        <4>3. CASE i = n + 1
          <5>1. n + 1 \in m + 1..n + 1
            BY <3>1
          <5>2. f[n + 1] = << >>
            BY <3>3, <5>1
          <5> QED
            BY <2>2, <4>3, <5>2
        <4> QED
          BY <4>1, <4>2, <4>3
      <3>5. g = [i \in m..n + 1 |-> IF i = n + 1 THEN << >> ELSE pre[i] \o g[up[i]]]
        <4>1. g = [i \in m..n + 1 |-> g[i]]
          OBVIOUS
        <4> HIDE DEF g
        <4> QED
          BY <3>4, <4>1
      <3> HIDE DEF g
      <3>6. Defined(m)
        BY <3>5
      <3> QED
        BY <3>6
    <2> QED
      BY <2>1, <2>2
  <1>3. \A m \in 1..n + 1 : m \in G
    <2> HIDE DEF G
    <2> QED
      BY <1>1, <1>2, DownFrom
  <1>4. Defined(1)
    <2>1. 1 \in 1..n + 1
      OBVIOUS
    <2>2. 1 \in G
      BY <1>3, <2>1
    <2> QED
      BY <2>2
  <1> QED
    BY <1>4 DEF Ascends

------------------------------------------------------------------------------
\* What Replace makes of t from position i on.
From(t, p) ==
  CHOOSE from : from = [i \in 1..Len(t) + 1 |->
    IF i = Len(t) + 1 THEN << >>
    ELSE IF Occurs(p, t, i - 1) THEN Mask \o from[i + Len(p)]
    ELSE <<t[i]>> \o from[i + 1]]

LEMMA FromEquation ==
  ASSUME NEW t \in Text, NEW p \in Text, p # << >>
  PROVE  /\ \A i \in 1..Len(t) + 1 :
              From(t, p)[i] = IF i = Len(t) + 1 THEN << >>
                              ELSE IF Occurs(p, t, i - 1) THEN Mask \o From(t, p)[i + Len(p)]
                              ELSE <<t[i]>> \o From(t, p)[i + 1]
         /\ Replace(t, p) = From(t, p)[1]
  <1> DEFINE before == [i \in 1..Len(t) |-> IF Occurs(p, t, i - 1) THEN Mask ELSE <<t[i]>>]
             next == [i \in 1..Len(t) |-> IF Occurs(p, t, i - 1) THEN i + Len(p) ELSE i + 1]
             body(g) == [i \in 1..Len(t) + 1 |->
               IF i = Len(t) + 1 THEN << >>
               ELSE IF Occurs(p, t, i - 1) THEN Mask \o g[i + Len(p)]
               ELSE <<t[i]>> \o g[i + 1]]
  <1>0. PICK n, pre, up : n = Len(t) /\ pre = before /\ up = next
    OBVIOUS
  <1>1. n \in Nat /\ Len(p) \in Nat /\ Len(p) >= 1
    BY <1>0 DEF Text
  <1>2. \A i \in 1..n : up[i] \in i + 1..n + 1
    BY <1>0, <1>1 DEF Occurs
  <1>3. up \in [1..n -> Nat]
    BY <1>0, <1>1
  <1>4. PICK f : Ascends(f, n, pre, up)
    <2> HIDE DEF before, next
    <2> QED
      BY <1>1, <1>2, <1>3, AscentExists
  <1>5. ASSUME NEW i \in 1..n + 1
        PROVE  (IF i = n + 1 THEN << >> ELSE pre[i] \o f[up[i]])
             = (IF i = n + 1 THEN << >>
                ELSE IF Occurs(p, t, i - 1) THEN Mask \o f[i + Len(p)]
                ELSE <<t[i]>> \o f[i + 1])
    <2>1. CASE i = n + 1
      BY <2>1
    <2>2. CASE i # n + 1
      <3>1. i \in 1..Len(t)
        BY <1>0, <1>1, <2>2
      <3>2. /\ pre[i] = IF Occurs(p, t, i - 1) THEN Mask ELSE <<t[i]>>
            /\ up[i] = IF Occurs(p, t, i - 1) THEN i + Len(p) ELSE i + 1
        BY <1>0, <3>1
      <3> HIDE DEF before, next
      <3> QED
        BY <2>2, <3>2
    <2> QED
      BY <2>1, <2>2
  <1>6. f = body(f)
    <2> HIDE DEF before, next
    <2> QED
      BY <1>0, <1>4, <1>5 DEF Ascends
  <1>7. From(t, p) = (CHOOSE g : g = body(g))
    BY DEF From
  <1>8. From(t, p) = body(From(t, p))
    <2> HIDE DEF body
    <2> QED
      BY <1>6, <1>7
  <1>9. Replace(t, p) = From(t, p)[1]
    BY DEF Replace, From
  <1> QED
    BY <1>8, <1>9

LEMMA TextFacts ==
  /\ \A t \in Text : /\ Len(t) \in Nat
                     /\ \A k \in 1..Len(t) : t[k] \in Bytes \cup {Star}
                     /\ t # << >> => Len(t) >= 1
                     /\ Len(t) = 0 => t = << >>
  /\ << >> \in Text /\ Len(<< >>) = 0
  /\ \A b \in Bytes \cup {Star} : <<b>> \in Text /\ Len(<<b>>) = 1
  /\ Mask \in Text /\ Len(Mask) = 3
  BY DEF Text, Mask

LEMMA Joined ==
  ASSUME NEW u \in Text, NEW v \in Text
  PROVE  /\ u \o v \in Text /\ Len(u \o v) = Len(u) + Len(v)
         /\ \A k \in 1..Len(u) : (u \o v)[k] = u[k]
         /\ \A k \in 1..Len(v) : (u \o v)[Len(u) + k] = v[k]
  <1>1. Len(u) \in Nat /\ Len(v) \in Nat
    BY DEF Text
  <1>2. /\ u \o v \in Text /\ Len(u \o v) = Len(u) + Len(v)
        /\ \A k \in 1..Len(u) + Len(v) :
             (u \o v)[k] = IF k <= Len(u) THEN u[k] ELSE v[k - Len(u)]
    BY ConcatProperties DEF Text
  <1>3. ASSUME NEW k \in 1..Len(v)
        PROVE  (u \o v)[Len(u) + k] = v[k]
    <2>1. /\ Len(u) + k \in 1..Len(u) + Len(v)
          /\ ~ (Len(u) + k <= Len(u))
          /\ Len(u) + k - Len(u) = k
      BY <1>1
    <2> QED
      BY <1>2, <2>1
  <1> QED
    BY <1>1, <1>2, <1>3

LEMMA SameText ==
  ASSUME NEW u \in Text, NEW v \in Text, Len(u) = Len(v), \A k \in 1..Len(u) : u[k] = v[k]
  PROVE  u = v
  BY SeqEqual DEF Text

LEMMA OccursAt ==
  ASSUME NEW p \in Text, NEW t \in Text, NEW at \in Nat
  PROVE  Occurs(p, t, at) <=> /\ at + Len(p) <= Len(t)
                              /\ \A k \in 1..Len(p) : t[at + k] = p[k]
  <1>1. Len(p) \in Nat /\ Len(t) \in Nat
    BY TextFacts
  <1> SUFFICES ASSUME at + Len(p) <= Len(t)
               PROVE  SubSeq(t, at + 1, at + Len(p)) = p
                        <=> \A k \in 1..Len(p) : t[at + k] = p[k]
    BY DEF Occurs
  <1> DEFINE s == SubSeq(t, at + 1, at + Len(p))
  <1>2. \A i \in at + 1..at + Len(p) : t[i] \in Bytes \cup {Star}
    BY <1>1, TextFacts
  <1>3. /\ s \in Text
        /\ Len(s) = IF at + 1 <= at + Len(p) THEN at + Len(p) - (at + 1) + 1 ELSE 0
        /\ \A i \in 1..at + Len(p) - (at + 1) + 1 : s[i] = t[at + 1 + i - 1]
    <2>1. at + 1 \in Int /\ at + Len(p) \in Int
      BY <1>1
    <2> HIDE DEF Occurs
    <2> QED
      BY <1>2, <2>1, SubSeqProperties DEF Text
  <1> HIDE DEF s
  <1>4. Len(s) = Len(p) /\ \A k \in 1..Len(p) : s[k] = t[at + k]
    <2>1. Len(s) = Len(p)
      BY <1>1, <1>3
    <2>2. ASSUME NEW k \in 1..Len(p) PROVE s[k] = t[at + k]
      <3>1. k \in 1..at + Len(p) - (at + 1) + 1 /\ at + 1 + k - 1 = at + k
        BY <1>1
      <3> QED
        BY <1>3, <3>1
    <2> QED
      BY <2>1, <2>2
  <1>5. s = p <=> \A k \in 1..Len(p) : t[at + k] = p[k]
    <2>1. ASSUME s = p, NEW k \in 1..Len(p) PROVE t[at + k] = p[k]
      BY <1>4, <2>1
    <2>2. ASSUME \A k \in 1..Len(p) : t[at + k] = p[k] PROVE s = p
      BY <1>3, <1>4, <2>2, SameText
    <2> QED
      BY <2>1, <2>2
  <1> QED
    BY <1>5 DEF s

\* r is what is made of t from position i on when p is replaced: where every
\* byte of r comes from, 0 for those of a mask.  What was copied is no
\* occurrence, and what lies between two masks was copied as it was.
Comes(o, r, t, p, i) ==
  /\ o \in [1..Len(r) -> 0..Len(t)]
  /\ \A k \in 1..Len(r) : IF o[k] = 0 THEN r[k] = Star
                          ELSE r[k] = t[o[k]] /\ ~Occurs(p, t, o[k] - 1)
  /\ \A a, b \in 1..Len(r) :
       a <= b /\ (\A k \in a..b : o[k] # 0) => o[b] = o[a] + (b - a)
  /\ Len(r) # 0 /\ o[1] # 0 => o[1] = i
  /\ Len(r) # 0 /\ o[Len(r)] # 0 => o[Len(r)] = Len(t)
  /\ Len(r) = 0 => i = Len(t) + 1

LEMMA ComesCopied ==
  ASSUME NEW t \in Text, NEW p \in Text, NEW i \in 1..Len(t), NEW r \in Text, NEW o,
         Comes(o, r, t, p, i + 1), ~Occurs(p, t, i - 1)
  PROVE  /\ <<t[i]>> \o r \in Text
         /\ \E q : Comes(q, <<t[i]>> \o r, t, p, i)
  <1> DEFINE x == <<t[i]>> \o r
             q == [k \in 1..Len(r) + 1 |-> IF k = 1 THEN i ELSE o[k - 1]]
  <1>0. PICK m : m = Len(r)
    OBVIOUS
  <1>1. m \in Nat /\ Len(t) \in Nat /\ i \in 1..Len(t)
    BY <1>0, TextFacts
  <1>2. /\ x \in Text /\ Len(x) = m + 1 /\ x[1] = t[i]
        /\ \A k \in 1..m : x[1 + k] = r[k]
    <2>1. t[i] \in Bytes \cup {Star}
      BY TextFacts
    <2>2. <<t[i]>> \in Text /\ Len(<<t[i]>>) = 1 /\ <<t[i]>>[1] = t[i]
      BY <2>1, TextFacts
    <2> HIDE DEF Comes
    <2>3. /\ x \in Text /\ Len(x) = 1 + m
          /\ \A k \in 1..1 : x[k] = <<t[i]>>[k]
          /\ \A k \in 1..m : x[1 + k] = r[k]
      BY <1>0, <2>2, Joined
    <2>4. 1 + m = m + 1
      BY <1>1
    <2>5. x[1] = <<t[i]>>[1]
      <3>1. 1 \in 1..1
        OBVIOUS
      <3> QED
        BY <2>3, <3>1
    <2> QED
      BY <2>2, <2>3, <2>4, <2>5
  <1> HIDE DEF x
  <1>3. /\ o \in [1..m -> 0..Len(t)]
        /\ \A k \in 1..m : IF o[k] = 0 THEN r[k] = Star
                           ELSE r[k] = t[o[k]] /\ ~Occurs(p, t, o[k] - 1)
        /\ \A a, b \in 1..m : a <= b /\ (\A k \in a..b : o[k] # 0) => o[b] = o[a] + (b - a)
        /\ m # 0 /\ o[1] # 0 => o[1] = i + 1
        /\ m # 0 /\ o[m] # 0 => o[m] = Len(t)
        /\ m = 0 => i + 1 = Len(t) + 1
    BY <1>0 DEF Comes
  <1>4. /\ q \in [1..m + 1 -> 0..Len(t)] /\ q[1] = i
        /\ \A k \in 2..m + 1 : q[k] = o[k - 1] /\ k - 1 \in 1..m /\ x[k] = r[k - 1]
    <2>1. \A k \in 2..m + 1 : k - 1 \in 1..m /\ 1 + (k - 1) = k
      BY <1>1
    <2>2. \A k \in 2..m + 1 : x[k] = r[k - 1]
      BY <1>2, <2>1
    <2>3. \A k \in 1..m + 1 : (IF k = 1 THEN i ELSE o[k - 1]) \in 0..Len(t)
      <3> TAKE k \in 1..m + 1
      <3>1. CASE k = 1
        BY <1>1, <3>1
      <3>2. CASE k # 1
        <4>1. k - 1 \in 1..m
          BY <1>1, <3>2
        <4> QED
          BY <1>3, <3>2, <4>1
      <3> QED
        BY <3>1, <3>2
    <2>4. q \in [1..m + 1 -> 0..Len(t)]
      BY <1>0, <2>3
    <2>5. 1 \in 1..m + 1 /\ \A k \in 2..m + 1 : k \in 1..m + 1 /\ k # 1
      BY <1>1
    <2> QED
      BY <1>0, <2>1, <2>2, <2>4, <2>5
  <1> HIDE DEF q
  <1>5. ASSUME NEW k \in 1..m + 1
        PROVE  IF q[k] = 0 THEN x[k] = Star ELSE x[k] = t[q[k]] /\ ~Occurs(p, t, q[k] - 1)
    <2>1. CASE k = 1
      BY <1>1, <1>2, <1>4, <2>1
    <2>2. CASE k # 1
      <3>1. k \in 2..m + 1
        BY <1>1, <2>2
      <3> HIDE DEF Occurs
      <3>2. q[k] = o[k - 1] /\ k - 1 \in 1..m /\ x[k] = r[k - 1]
        BY <1>4, <3>1
      <3> QED
        BY <1>3, <3>2
    <2> QED
      BY <2>1, <2>2
  <1>6. ASSUME NEW a \in 1..m + 1, NEW b \in 1..m + 1, a <= b, \A k \in a..b : q[k] # 0
        PROVE  q[b] = q[a] + (b - a)
    <2>1. CASE a = b
      <3>1. q[a] \in Int
        BY <1>4
      <3> QED
        BY <2>1, <3>1
    <2>2. CASE a # 1
      <3>1. /\ a \in 2..m + 1 /\ b \in 2..m + 1 /\ a - 1 \in 1..m /\ b - 1 \in 1..m
            /\ a - 1 <= b - 1 /\ (b - 1) - (a - 1) = b - a
        BY <1>1, <1>6, <2>2
      <3>2. ASSUME NEW k \in a - 1..b - 1 PROVE o[k] # 0
        <4>1. k + 1 \in a..b /\ k + 1 \in 2..m + 1 /\ k + 1 - 1 = k
          BY <1>1, <3>1
        <4> QED
          BY <1>4, <1>6, <4>1, SMTT(30)
      <3>3. o[b - 1] = o[a - 1] + ((b - 1) - (a - 1))
        BY <1>3, <3>1, <3>2
      <3> QED
        BY <1>4, <3>1, <3>3
    <2>3. CASE a = 1 /\ a # b
      <3>1. b \in 2..m + 1 /\ b - 1 \in 1..m /\ 1 \in 1..m /\ 1 <= b - 1 /\ m # 0
        BY <1>1, <1>6, <2>3
      <3>2. ASSUME NEW k \in 1..b - 1 PROVE o[k] # 0
        <4>1. k + 1 \in a..b /\ k + 1 \in 2..m + 1 /\ k + 1 - 1 = k
          BY <1>1, <2>3, <3>1
        <4> QED
          BY <1>4, <1>6, <4>1
      <3>3. o[b - 1] = o[1] + ((b - 1) - 1)
        BY <1>3, <3>1, <3>2
      <3>4. o[1] = i + 1
        <4>1. 1 \in 1..b - 1
          BY <3>1
        <4> QED
          BY <1>3, <3>1, <3>2, <4>1
      <3>5. q[b] = o[b - 1] /\ q[a] = i
        BY <1>4, <2>3, <3>1
      <3> QED
        BY <1>1, <2>3, <3>1, <3>3, <3>4, <3>5
    <2> QED
      BY <2>1, <2>2, <2>3
  <1>7. q[m + 1] # 0 => q[m + 1] = Len(t)
    <2>1. CASE m = 0
      BY <1>1, <1>3, <1>4, <2>1
    <2>2. CASE m # 0
      <3>1. PICK e : e = m + 1
        OBVIOUS
      <3>2. e \in 2..m + 1 /\ e - 1 = m
        BY <1>1, <2>2, <3>1
      <3>3. q[m + 1] = o[m]
        BY <1>4, <3>1, <3>2
      <3> QED
        BY <1>3, <2>2, <3>3
    <2> QED
      BY <2>1, <2>2
  <1>8. m + 1 # 0
    BY <1>1
  <1>9. Comes(q, x, t, p, i)
    BY <1>2, <1>4, <1>5, <1>6, <1>7, <1>8 DEF Comes
  <1>10. \E z : Comes(z, x, t, p, i)
    BY <1>9
  <1> QED
    BY <1>2, <1>10 DEF x

LEMMA ComesMasked ==
  ASSUME NEW t \in Text, NEW p \in Text, NEW i \in 1..Len(t), NEW j, NEW r \in Text, NEW o,
         Comes(o, r, t, p, j)
  PROVE  /\ Mask \o r \in Text
         /\ \E q : Comes(q, Mask \o r, t, p, i)
  <1> DEFINE x == Mask \o r
             q == [k \in 1..Len(r) + 3 |-> IF k <= 3 THEN 0 ELSE o[k - 3]]
  <1>0. PICK m : m = Len(r)
    OBVIOUS
  <1>1. m \in Nat /\ Len(t) \in Nat
    BY <1>0, TextFacts
  <1>2. /\ x \in Text /\ Len(x) = m + 3 /\ \A k \in 1..3 : x[k] = Star
        /\ \A k \in 1..m : x[3 + k] = r[k]
    <2>1. \A k \in 1..3 : Mask[k] = Star
      BY DEF Mask
    <2>2. /\ x \in Text /\ Len(x) = 3 + m
          /\ \A k \in 1..3 : x[k] = Mask[k]
          /\ \A k \in 1..m : x[3 + k] = r[k]
      <3>1. /\ x \in Text /\ Len(x) = Len(Mask) + Len(r)
            /\ \A k \in 1..Len(Mask) : x[k] = Mask[k]
            /\ \A k \in 1..Len(r) : x[Len(Mask) + k] = r[k]
        <4> HIDE DEF Comes
        <4>1. Mask \in Text
          BY TextFacts
        <4> QED
          BY <4>1, Joined
      <3>2. Len(Mask) = 3
        BY TextFacts
      <3> HIDE DEF x
      <3> QED
        BY <1>0, <3>1, <3>2
    <2>3. 3 + m = m + 3
      BY <1>1
    <2> QED
      BY <2>1, <2>2, <2>3
  <1> HIDE DEF x
  <1>3. /\ o \in [1..m -> 0..Len(t)]
        /\ \A k \in 1..m : IF o[k] = 0 THEN r[k] = Star
                           ELSE r[k] = t[o[k]] /\ ~Occurs(p, t, o[k] - 1)
        /\ \A a, b \in 1..m : a <= b /\ (\A k \in a..b : o[k] # 0) => o[b] = o[a] + (b - a)
        /\ m # 0 /\ o[m] # 0 => o[m] = Len(t)
    BY <1>0 DEF Comes
  <1>4. /\ q \in [1..m + 3 -> 0..Len(t)] /\ \A k \in 1..3 : q[k] = 0
        /\ \A k \in 4..m + 3 : q[k] = o[k - 3] /\ k - 3 \in 1..m /\ x[k] = r[k - 3]
    <2>1. \A k \in 4..m + 3 : k - 3 \in 1..m /\ 3 + (k - 3) = k
      BY <1>1
    <2>2. \A k \in 4..m + 3 : x[k] = r[k - 3]
      BY <1>2, <2>1
    <2>3. \A k \in 1..m + 3 : (IF k <= 3 THEN 0 ELSE o[k - 3]) \in 0..Len(t)
      <3> TAKE k \in 1..m + 3
      <3>1. CASE k <= 3
        BY <1>1, <3>1
      <3>2. CASE ~ (k <= 3)
        <4>1. k - 3 \in 1..m
          BY <1>1, <3>2
        <4> QED
          BY <1>3, <3>2, <4>1
      <3> QED
        BY <3>1, <3>2
    <2>4. q \in [1..m + 3 -> 0..Len(t)]
      BY <1>0, <2>3
    <2>5. /\ \A k \in 1..3 : k \in 1..m + 3 /\ k <= 3
          /\ \A k \in 4..m + 3 : k \in 1..m + 3 /\ ~ (k <= 3)
      BY <1>1
    <2> QED
      BY <1>0, <2>1, <2>2, <2>4, <2>5
  <1> HIDE DEF q
  <1>5. ASSUME NEW k \in 1..m + 3
        PROVE  IF q[k] = 0 THEN x[k] = Star ELSE x[k] = t[q[k]] /\ ~Occurs(p, t, q[k] - 1)
    <2>1. CASE k \in 1..3
      BY <1>2, <1>4, <2>1
    <2>2. CASE k \in 4..m + 3
      <3> HIDE DEF Occurs
      <3>2. q[k] = o[k - 3] /\ k - 3 \in 1..m /\ x[k] = r[k - 3]
        BY <1>4, <2>2
      <3> QED
        BY <1>3, <3>2
    <2> QED
      BY <1>1, <2>1, <2>2
  <1>6. ASSUME NEW a \in 1..m + 3, NEW b \in 1..m + 3, a <= b, \A k \in a..b : q[k] # 0
        PROVE  q[b] = q[a] + (b - a)
    <2>1. a \in a..b /\ (a \in 1..3 \/ a \in 4..m + 3)
      BY <1>1, <1>6
    <2>2. a \in 4..m + 3
      BY <1>4, <1>6, <2>1
    <2>3. /\ b \in 4..m + 3 /\ a - 3 \in 1..m /\ b - 3 \in 1..m
          /\ a - 3 <= b - 3 /\ (b - 3) - (a - 3) = b - a
      BY <1>1, <1>6, <2>2
    <2>4. ASSUME NEW k \in a - 3..b - 3 PROVE o[k] # 0
      <3>1. k + 3 \in a..b /\ k + 3 \in 4..m + 3 /\ k + 3 - 3 = k
        BY <1>1, <2>2, <2>3
      <3> QED
        BY <1>4, <1>6, <3>1
    <2>5. o[b - 3] = o[a - 3] + ((b - 3) - (a - 3))
      BY <1>3, <2>3, <2>4
    <2> QED
      BY <1>4, <2>2, <2>3, <2>5
  <1>7. q[m + 3] # 0 => q[m + 3] = Len(t)
    <2>1. CASE m = 0
      <3>1. m + 3 \in 1..3
        BY <2>1
      <3> QED
        BY <1>4, <3>1
    <2>2. CASE m # 0
      <3>1. PICK e : e = m + 3
        OBVIOUS
      <3>2. e \in 4..m + 3 /\ e - 3 = m
        BY <1>1, <2>2, <3>1
      <3>3. q[m + 3] = o[m]
        BY <1>4, <3>1, <3>2
      <3> QED
        BY <1>3, <2>2, <3>3
    <2> QED
      BY <2>1, <2>2
  <1>8. m + 3 # 0 /\ q[1] = 0
    BY <1>1, <1>4
  <1>9. Comes(q, x, t, p, i)
    BY <1>2, <1>4, <1>5, <1>6, <1>7, <1>8 DEF Comes
  <1>10. \E z : Comes(z, x, t, p, i)
    BY <1>9
  <1> QED
    BY <1>2, <1>10 DEF x

NoStar(q) == \A k \in 1..Len(q) : q[k] # Star

\* A value occurs across the border of two texts.
Crosses(q, u, v) ==
  \E at \in 0..Len(u) - 1 : Occurs(q, u \o v, at) /\ at + Len(q) > Len(u)

LEMMA FromComes ==
  ASSUME NEW t \in Text, NEW p \in Text, p # << >>
  PROVE  \A i \in 1..Len(t) + 1 :
           From(t, p)[i] \in Text /\ \E o : Comes(o, From(t, p)[i], t, p, i)
  <1>0. PICK f, n : f = From(t, p) /\ n = Len(t) + 1
    OBVIOUS
  <1> DEFINE G == {i \in 1..n : f[i] \in Text /\ \E o : Comes(o, f[i], t, p, i)}
  <1>1. Len(t) \in Nat /\ n \in Nat /\ Len(p) \in Nat /\ Len(p) >= 1
    BY <1>0, TextFacts
  <1>2. \A i \in 1..n : f[i] = IF i = n THEN << >>
                               ELSE IF Occurs(p, t, i - 1) THEN Mask \o f[i + Len(p)]
                               ELSE <<t[i]>> \o f[i + 1]
    <2> HIDE DEF Occurs
    <2> QED
      BY <1>0, FromEquation
  <1>3. ASSUME NEW i \in 1..n, \A j \in i + 1..n : j \in G
        PROVE  i \in G
    <2>1. CASE i = n
      <3>1. f[i] = << >>
        BY <1>2, <2>1
      <3> DEFINE e == [k \in 1..0 |-> 0]
      <3>2. Comes(e, << >>, t, p, i)
        <4>1. Len(<< >>) = 0 /\ e \in [1..0 -> 0..Len(t)] /\ \A k \in 1..0 : FALSE
          BY TextFacts
        <4> HIDE DEF e
        <4> QED
          BY <1>0, <1>1, <2>1, <4>1 DEF Comes
      <3> HIDE DEF e
      <3>3. \E o : Comes(o, f[i], t, p, i)
        BY <3>1, <3>2
      <3>4. f[i] \in Text
        BY <3>1, TextFacts
      <3> QED
        BY <3>3, <3>4
    <2>2. CASE i # n /\ Occurs(p, t, i - 1)
      <3>1. f[i] = Mask \o f[i + Len(p)]
        BY <1>2, <2>2
      <3>2. PICK j : j = i + Len(p)
        OBVIOUS
      <3>3. i \in 1..Len(t) /\ j \in i + 1..n
        BY <1>0, <1>1, <2>2, <3>2 DEF Occurs
      <3>4. f[j] \in Text /\ \E o : Comes(o, f[j], t, p, j)
        BY <1>3, <3>3
      <3> HIDE DEF Comes
      <3>5. PICK o : Comes(o, f[j], t, p, j)
        BY <3>4
      <3>6. Mask \o f[j] \in Text /\ \E q : Comes(q, Mask \o f[j], t, p, i)
        BY <3>3, <3>4, <3>5, ComesMasked
      <3> QED
        BY <3>1, <3>2, <3>6
    <2>3. CASE i # n /\ ~Occurs(p, t, i - 1)
      <3>1. f[i] = <<t[i]>> \o f[i + 1]
        BY <1>2, <2>3
      <3>2. PICK j : j = i + 1
        OBVIOUS
      <3>3. i \in 1..Len(t) /\ j \in i + 1..n
        BY <1>0, <1>1, <2>3, <3>2
      <3>4. f[j] \in Text /\ \E o : Comes(o, f[j], t, p, i + 1)
        BY <1>3, <3>2, <3>3
      <3>5. PICK o : Comes(o, f[j], t, p, i + 1)
        BY <3>4
      <3> HIDE DEF Comes, Occurs
      <3>6. <<t[i]>> \o f[j] \in Text /\ \E q : Comes(q, <<t[i]>> \o f[j], t, p, i)
        BY <2>3, <3>3, <3>4, <3>5, ComesCopied
      <3> QED
        BY <3>1, <3>2, <3>6
    <2> QED
      BY <2>1, <2>2, <2>3
  <1>4. \A i \in 1..n : i \in G
    <2> HIDE DEF G
    <2> QED
      BY <1>1, <1>3, DownFrom
  <1> QED
    BY <1>0, <1>4

LEMMA ReplaceComes ==
  ASSUME NEW t \in Text, NEW p \in Text, p # << >>
  PROVE  Replace(t, p) \in Text /\ \E o : Comes(o, Replace(t, p), t, p, 1)
  <1>1. 1 \in 1..Len(t) + 1
    BY TextFacts
  <1> QED
    BY <1>1, FromComes, FromEquation

\* Only the empty text becomes empty.
LEMMA ReplaceNonEmpty ==
  ASSUME NEW t \in Text, NEW p \in Text, p # << >>
  PROVE  Replace(t, p) = << >> => t = << >>
  <1>1. PICK o : Comes(o, Replace(t, p), t, p, 1)
    BY ReplaceComes
  <1>2. Replace(t, p) = << >> => 1 = Len(t) + 1
    BY <1>1, TextFacts DEF Comes
  <1> QED
    BY <1>2, TextFacts

\* The bytes from a to b of what a replacement makes of t are those from c on.
Copied(c, a, b, t, p) ==
  /\ c \in 1..Len(t) /\ c + (b - a) <= Len(t)
  /\ \A k \in 0..b - a : t[c + k] = Replace(t, p)[a + k]
  /\ ~Occurs(p, t, c - 1)
  /\ a = 1 => c = 1
  /\ b = Len(Replace(t, p)) => c + (b - a) = Len(t)

\* What is free of stars after a replacement was in the text before.
LEMMA CopiedRun ==
  ASSUME NEW t \in Text, NEW p \in Text, p # << >>,
         NEW a \in 1..Len(Replace(t, p)), NEW b \in 1..Len(Replace(t, p)), a <= b,
         \A k \in a..b : Replace(t, p)[k] # Star
  PROVE  \E c : Copied(c, a, b, t, p)
  <1>0. PICK r : r = Replace(t, p)
    OBVIOUS
  <1>1. PICK o : Comes(o, r, t, p, 1)
    BY <1>0, ReplaceComes
  <1>2. r \in Text /\ Len(r) \in Nat /\ Len(t) \in Nat
    BY <1>0, ReplaceComes, TextFacts
  <1>3. PICK m : m = Len(r)
    OBVIOUS
  <1>4. a \in 1..m /\ b \in 1..m /\ m \in Nat /\ m # 0 /\ 1 \in 1..m /\ m \in 1..m
        /\ \A k \in a..b : r[k] # Star /\ k \in 1..m
    BY <1>0, <1>2, <1>3
  <1>5. /\ o \in [1..m -> 0..Len(t)]
        /\ \A k \in 1..m : IF o[k] = 0 THEN r[k] = Star
                           ELSE r[k] = t[o[k]] /\ ~Occurs(p, t, o[k] - 1)
        /\ \A x, y \in 1..m : x <= y /\ (\A k \in x..y : o[k] # 0) => o[y] = o[x] + (y - x)
        /\ m # 0 /\ o[1] # 0 => o[1] = 1
        /\ m # 0 /\ o[m] # 0 => o[m] = Len(t)
    BY <1>1, <1>3 DEF Comes
  <1> HIDE DEF Occurs
  <1>6. \A k \in a..b : o[k] # 0
    BY <1>4, <1>5
  <1>7. PICK c : c = o[a]
    OBVIOUS
  <1>8. a \in a..b /\ b \in a..b
    BY <1>4
  <1>9. o[a] # 0 /\ o[b] # 0 /\ o[a] \in 0..Len(t) /\ o[b] \in 0..Len(t)
    BY <1>4, <1>5, <1>6, <1>8
  <1>10. \A y \in a..b : o[y] = c + (y - a)
    <2> TAKE y \in a..b
    <2>1. a <= y /\ y \in 1..m /\ \A k \in a..y : k \in a..b
      BY <1>4
    <2> QED
      BY <1>4, <1>5, <1>6, <1>7, <2>1
  <1>11. ASSUME NEW k \in 0..b - a
         PROVE  t[c + k] = r[a + k]
    <2>1. PICK y : y = a + k
      OBVIOUS
    <2>2. y \in a..b /\ y - a = k
      BY <1>4, <2>1
    <2>3. r[y] = t[o[y]]
      BY <1>4, <1>5, <1>6, <2>2
    <2>4. o[y] = c + k
      BY <1>10, <2>2
    <2> QED
      BY <2>1, <2>3, <2>4
  <1>12. c \in 1..Len(t) /\ c + (b - a) <= Len(t)
    <2>1. o[b] = c + (b - a)
      BY <1>8, <1>10
    <2> QED
      BY <1>2, <1>7, <1>9, <2>1
  <1>13. ~Occurs(p, t, c - 1)
    BY <1>4, <1>5, <1>7, <1>9
  <1>14. a = 1 => c = 1
    BY <1>4, <1>5, <1>7, <1>9
  <1>15. b = m => c + (b - a) = Len(t)
    BY <1>4, <1>5, <1>8, <1>9, <1>10
  <1> QED
    BY <1>0, <1>3, <1>11, <1>12, <1>13, <1>14, <1>15 DEF Copied

\* A value without stars that occurs after a replacement occurred before, and
\* not where the replaced one did.
LEMMA OccurredBefore ==
  ASSUME NEW t \in Text, NEW p \in Text, p # << >>, NEW q \in Text, q # << >>, NoStar(q),
         NEW at \in Nat, Occurs(q, Replace(t, p), at)
  PROVE  \E b \in Nat : Occurs(q, t, b) /\ ~Occurs(p, t, b)
  <1>0. PICK r, h : r = Replace(t, p) /\ h = Len(q)
    OBVIOUS
  <1>1. r \in Text /\ Len(r) \in Nat /\ Len(t) \in Nat /\ h \in Nat /\ h >= 1
    BY <1>0, ReplaceComes, TextFacts
  <1>2. at + h <= Len(r) /\ \A k \in 1..h : r[at + k] = q[k]
    BY <1>0, <1>1, OccursAt
  <1>3. PICK x, y : x = at + 1 /\ y = at + h
    OBVIOUS
  <1>4. x \in 1..Len(r) /\ y \in 1..Len(r) /\ x <= y /\ y - x = h - 1
    BY <1>1, <1>2, <1>3
  <1>5. ASSUME NEW k \in x..y PROVE r[k] # Star
    <2>1. k - at \in 1..h /\ at + (k - at) = k
      BY <1>1, <1>3
    <2> QED
      BY <1>0, <1>2, <2>1 DEF NoStar
  <1> HIDE DEF Occurs
  <1>6. PICK c : Copied(c, x, y, t, p)
    BY <1>0, <1>4, <1>5, CopiedRun
  <1>7. PICK b : b = c - 1
    OBVIOUS
  <1>8. b \in Nat /\ b + h <= Len(t)
    BY <1>1, <1>4, <1>6, <1>7 DEF Copied
  <1>9. ASSUME NEW k \in 1..h PROVE t[b + k] = q[k]
    <2>1. k - 1 \in 0..y - x /\ c + (k - 1) = b + k /\ x + (k - 1) = at + k
      BY <1>1, <1>3, <1>4, <1>6, <1>7 DEF Copied
    <2>2. t[c + (k - 1)] = r[x + (k - 1)]
      BY <1>0, <1>6, <2>1 DEF Copied
    <2>3. r[at + k] = q[k]
      BY <1>2
    <2> QED
      BY <2>1, <2>2, <2>3
  <1>10. Occurs(q, t, b)
    BY <1>0, <1>8, <1>9, OccursAt
  <1> QED
    BY <1>6, <1>7, <1>8, <1>10 DEF Copied

------------------------------------------------------------------------------
LEMMA JoinAssociative ==
  \A a, b, c \in Text : (a \o b) \o c = a \o (b \o c)
  BY ConcatAssociative DEF Text

\* A replacement brings no value across a border that none crossed before.
LEMMA StillApart ==
  ASSUME NEW u \in Text, NEW v \in Text, NEW p \in Text, p # << >>,
         NEW q \in Text, q # << >>, NoStar(q),
         Crosses(q, Replace(u, p), Replace(v, p))
  PROVE  Crosses(q, u, v)
  <1>0. PICK x, y, h : x = Replace(u, p) /\ y = Replace(v, p) /\ h = Len(q)
    OBVIOUS
  <1>1. x \in Text /\ y \in Text /\ x \o y \in Text /\ u \o v \in Text
    BY <1>0, ReplaceComes, Joined
  <1>2. /\ Len(x) \in Nat /\ Len(y) \in Nat /\ Len(u) \in Nat /\ Len(v) \in Nat
        /\ h \in Nat /\ h >= 1
        /\ Len(x \o y) = Len(x) + Len(y) /\ Len(u \o v) = Len(u) + Len(v)
    BY <1>0, <1>1, TextFacts, Joined
  <1>3. PICK at \in 0..Len(x) - 1 : Occurs(q, x \o y, at) /\ at + h > Len(x)
    BY <1>0 DEF Crosses
  <1>4. at \in Nat /\ at + h <= Len(x) + Len(y) /\ \A k \in 1..h : (x \o y)[at + k] = q[k]
    <2>1. at \in Nat
      BY <1>2, <1>3
    <2>2. /\ at + Len(q) <= Len(x \o y)
          /\ \A k \in 1..Len(q) : (x \o y)[at + k] = q[k]
      <3> HIDE DEF Occurs
      <3> QED
        BY <1>1, <1>3, <2>1, OccursAt
    <2> QED
      BY <1>0, <1>2, <2>1, <2>2
  <1>5. PICK a, b, g, e : a = at + 1 /\ b = Len(x) /\ g = Len(x) - at /\ e = h - g
    OBVIOUS
  <1>6. /\ a \in 1..Len(x) /\ b \in 1..Len(x) /\ a <= b /\ b - a = g - 1 /\ g \in 1..h - 1
        /\ e \in 1..Len(y) /\ 1 \in 1..Len(y) /\ 1 <= e /\ e \in Nat /\ e = h - g
    BY <1>2, <1>3, <1>4, <1>5
  <1>7. ASSUME NEW k \in 1..g PROVE x[at + k] = q[k] /\ k \in 1..h /\ at + k \in 1..Len(x)
    <2>1. at + k \in 1..Len(x) /\ k \in 1..h
      BY <1>2, <1>4, <1>5, <1>6
    <2>2. (x \o y)[at + k] = x[at + k]
      BY <1>1, <2>1, Joined
    <2> QED
      BY <1>4, <2>1, <2>2
  <1>8. ASSUME NEW k \in 1..e PROVE y[k] = q[g + k] /\ g + k \in 1..h
    <2>1. k \in 1..Len(y) /\ g + k \in 1..h /\ Len(x) + k = at + (g + k)
      BY <1>2, <1>4, <1>5, <1>6
    <2>2. (x \o y)[Len(x) + k] = y[k]
      BY <1>1, <2>1, Joined
    <2> QED
      BY <1>4, <2>1, <2>2
  <1>9. PICK c : Copied(c, a, b, u, p)
    <2>1. ASSUME NEW k \in a..b PROVE x[k] # Star
      <3>1. k - at \in 1..g /\ at + (k - at) = k
        BY <1>4, <1>5, <1>6
      <3> QED
        BY <1>0, <1>7, <3>1 DEF NoStar
    <2> QED
      BY <1>0, <1>6, <2>1, CopiedRun
  <1>10. PICK d : Copied(d, 1, e, v, p)
    <2>1. ASSUME NEW k \in 1..e PROVE y[k] # Star
      BY <1>0, <1>8 DEF NoStar
    <2> QED
      BY <1>0, <1>6, <2>1, CopiedRun
  <1>11. /\ c \in 1..Len(u) /\ c + (b - a) = Len(u)
         /\ \A k \in 0..b - a : u[c + k] = x[a + k]
    BY <1>0, <1>5, <1>9 DEF Copied
  <1>12. /\ d = 1 /\ d + (e - 1) <= Len(v)
         /\ \A k \in 0..e - 1 : v[1 + k] = y[1 + k]
    BY <1>0, <1>10 DEF Copied
  <1>13. PICK z : z = c - 1
    OBVIOUS
  <1>14. z \in 0..Len(u) - 1 /\ z \in Nat /\ z + g = Len(u) /\ z + h > Len(u) /\ z + h <= Len(u) + Len(v)
    BY <1>2, <1>6, <1>11, <1>12, <1>13
  <1>15. ASSUME NEW k \in 1..h PROVE (u \o v)[z + k] = q[k]
    <2>1. CASE k <= g
      <3>1. /\ k \in 1..g /\ z + k \in 1..Len(u) /\ k - 1 \in 0..b - a
            /\ c + (k - 1) = z + k /\ a + (k - 1) = at + k
        <4>1. k \in 1..g /\ z + k \in 1..Len(u) /\ k - 1 \in 0..b - a
          BY <1>2, <1>6, <1>14, <2>1
        <4>2. c + (k - 1) = z + k
          BY <1>11, <1>13
        <4>3. a + (k - 1) = at + k
          BY <1>4, <1>5
        <4> QED
          BY <4>1, <4>2, <4>3
      <3>2. (u \o v)[z + k] = u[z + k]
        BY <3>1, Joined
      <3>3. u[c + (k - 1)] = x[a + (k - 1)]
        BY <1>11, <3>1
      <3>4. x[at + k] = q[k]
        BY <1>7, <3>1
      <3> QED
        BY <3>1, <3>2, <3>3, <3>4
    <2>2. CASE ~ (k <= g)
      <3>1. PICK l : l = k - g
        OBVIOUS
      <3>2. /\ l \in 1..e /\ l \in 1..Len(v) /\ z + k = Len(u) + l /\ g + l = k
            /\ l - 1 \in 0..e - 1 /\ 1 + (l - 1) = l
        BY <1>2, <1>6, <1>12, <1>14, <2>2, <3>1
      <3>3. (u \o v)[Len(u) + l] = v[l]
        BY <3>2, Joined
      <3>4. v[1 + (l - 1)] = y[1 + (l - 1)]
        BY <1>12, <3>2
      <3>5. y[l] = q[g + l]
        BY <1>8, <3>2
      <3> QED
        BY <3>2, <3>3, <3>4, <3>5
    <2> QED
      BY <1>6, <2>1, <2>2
  <1>16. Occurs(q, u \o v, z)
    BY <1>0, <1>1, <1>2, <1>14, <1>15, OccursAt
  <1> HIDE DEF Occurs
  <1> QED
    BY <1>0, <1>14, <1>16 DEF Crosses

\* Behind the first text the second one is replaced as if it were alone.
LEMMA FromTail ==
  ASSUME NEW u \in Text, NEW v \in Text, NEW p \in Text, p # << >>
  PROVE  \A j \in 1..Len(v) + 1 : From(u \o v, p)[Len(u) + j] = From(v, p)[j]
  <1>0. PICK w, f, g, n : w = u \o v /\ f = From(w, p) /\ g = From(v, p) /\ n = Len(v) + 1
    OBVIOUS
  <1>1. /\ w \in Text /\ Len(w) = Len(u) + Len(v) /\ Len(u) \in Nat /\ Len(v) \in Nat /\ n \in Nat
        /\ Len(p) \in Nat /\ Len(p) >= 1
        /\ \A k \in 1..Len(v) : w[Len(u) + k] = v[k]
    <2>1. /\ w \in Text /\ Len(w) = Len(u) + Len(v)
          /\ \A k \in 1..Len(v) : w[Len(u) + k] = v[k]
      BY <1>0, Joined
    <2>2. Len(u) \in Nat /\ Len(v) \in Nat /\ Len(p) \in Nat /\ Len(p) >= 1
      BY TextFacts
    <2>3. n \in Nat
      BY <1>0, <2>2
    <2> QED
      BY <2>1, <2>2, <2>3
  <1>2. \A i \in 1..Len(w) + 1 : f[i] = IF i = Len(w) + 1 THEN << >>
                                ELSE IF Occurs(p, w, i - 1) THEN Mask \o f[i + Len(p)]
                                ELSE <<w[i]>> \o f[i + 1]
    <2> HIDE DEF Occurs
    <2> QED
      BY <1>0, <1>1, FromEquation
  <1>3. \A i \in 1..Len(v) + 1 : g[i] = IF i = Len(v) + 1 THEN << >>
                                ELSE IF Occurs(p, v, i - 1) THEN Mask \o g[i + Len(p)]
                                ELSE <<v[i]>> \o g[i + 1]
    <2> HIDE DEF Occurs
    <2> QED
      BY <1>0, FromEquation
  <1> DEFINE G == {j \in 1..n : f[Len(u) + j] = g[j]}
  <1>4. ASSUME NEW j \in 1..n, \A k \in j + 1..n : k \in G
        PROVE  j \in G
    <2>1. PICK i : i = Len(u) + j
      OBVIOUS
    <2>2. i \in 1..Len(w) + 1 /\ (i = Len(w) + 1 <=> j = Len(v) + 1) /\ j \in 1..Len(v) + 1
      BY <1>0, <1>1, <2>1
    <2>3. CASE j = Len(v) + 1
      <3>1. f[i] = << >> /\ g[j] = << >>
        BY <1>2, <1>3, <2>2, <2>3
      <3> QED
        BY <2>1, <3>1
    <2>4. CASE j # Len(v) + 1
      <3>1. /\ j \in 1..Len(v) /\ w[i] = v[j] /\ j - 1 \in Nat /\ i - 1 \in Nat
            /\ i + 1 = Len(u) + (j + 1) /\ j + 1 \in j + 1..n
        BY <1>0, <1>1, <2>1, <2>2, <2>4
      <3>2. Occurs(p, w, i - 1) <=> Occurs(p, v, j - 1)
        <4>1. /\ (i - 1) + Len(p) <= Len(w) <=> (j - 1) + Len(p) <= Len(v)
              /\ \A k \in 1..Len(p) : /\ (i - 1) + k = Len(u) + ((j - 1) + k)
                                      /\ (j - 1) + Len(p) <= Len(v) => (j - 1) + k \in 1..Len(v)
          BY <1>1, <2>1, <3>1
        <4>2. /\ Occurs(p, w, i - 1) <=> /\ (i - 1) + Len(p) <= Len(w)
                                         /\ \A k \in 1..Len(p) : w[(i - 1) + k] = p[k]
              /\ Occurs(p, v, j - 1) <=> /\ (j - 1) + Len(p) <= Len(v)
                                         /\ \A k \in 1..Len(p) : v[(j - 1) + k] = p[k]
          BY <1>1, <3>1, OccursAt
        <4>3. (j - 1) + Len(p) <= Len(v) =>
                \A k \in 1..Len(p) : w[(i - 1) + k] = v[(j - 1) + k]
          BY <1>1, <4>1
        <4> HIDE DEF Occurs
        <4> QED
          BY <4>1, <4>2, <4>3
      <3>3. CASE Occurs(p, v, j - 1)
        <4>1. PICK k : k = j + Len(p)
          OBVIOUS
        <4>2. k \in j + 1..n /\ i + Len(p) = Len(u) + k
          BY <1>0, <1>1, <2>1, <3>1, <3>3, <4>1 DEF Occurs
        <4>3. f[Len(u) + k] = g[k]
          BY <1>4, <4>2
        <4> HIDE DEF Occurs
        <4>4. f[i] = Mask \o f[i + Len(p)] /\ g[j] = Mask \o g[j + Len(p)]
          BY <1>2, <1>3, <2>2, <2>4, <3>2, <3>3
        <4> QED
          BY <2>1, <4>1, <4>2, <4>3, <4>4
      <3>4. CASE ~Occurs(p, v, j - 1)
        <4>1. PICK k : k = j + 1
          OBVIOUS
        <4>2. f[Len(u) + k] = g[k]
          BY <1>4, <3>1, <4>1
        <4> HIDE DEF Occurs
        <4>3. f[i] = <<w[i]>> \o f[i + 1] /\ g[j] = <<v[j]>> \o g[j + 1]
          BY <1>2, <1>3, <2>2, <2>4, <3>2, <3>4
        <4> QED
          BY <2>1, <3>1, <4>1, <4>2, <4>3
      <3> QED
        BY <3>3, <3>4
    <2> QED
      BY <2>3, <2>4
  <1>5. \A j \in 1..n : j \in G
    <2> HIDE DEF G
    <2> QED
      BY <1>1, <1>4, DownFrom
  <1> QED
    BY <1>0, <1>5

\* Two texts whose border no occurrence crosses are replaced one by one.
LEMMA ReplaceJoined ==
  ASSUME NEW u \in Text, NEW v \in Text, NEW p \in Text, p # << >>, ~Crosses(p, u, v)
  PROVE  Replace(u \o v, p) = Replace(u, p) \o Replace(v, p)
  <1>0. PICK w, f, g, e, n :
          /\ w = u \o v /\ f = From(w, p) /\ g = From(u, p) /\ e = Replace(v, p)
          /\ n = Len(u) + 1
    OBVIOUS
  <1>1. /\ w \in Text /\ Len(w) = Len(u) + Len(v) /\ Len(u) \in Nat /\ Len(v) \in Nat /\ n \in Nat
        /\ Len(p) \in Nat /\ Len(p) >= 1 /\ e \in Text
        /\ \A k \in 1..Len(u) : w[k] = u[k]
    BY <1>0, TextFacts, Joined, ReplaceComes
  <1>2. \A i \in 1..Len(w) + 1 : f[i] = IF i = Len(w) + 1 THEN << >>
                                ELSE IF Occurs(p, w, i - 1) THEN Mask \o f[i + Len(p)]
                                ELSE <<w[i]>> \o f[i + 1]
    <2> HIDE DEF Occurs
    <2> QED
      BY <1>0, <1>1, FromEquation, ZenonT(60)
  <1>3. \A i \in 1..Len(u) + 1 :
          /\ g[i] = IF i = Len(u) + 1 THEN << >>
                    ELSE IF Occurs(p, u, i - 1) THEN Mask \o g[i + Len(p)]
                    ELSE <<u[i]>> \o g[i + 1]
          /\ g[i] \in Text
    <2> HIDE DEF Occurs, Comes
    <2> QED
      BY <1>0, FromEquation, FromComes
  <1> DEFINE G == {i \in 1..n : f[i] = g[i] \o e}
  <1>4. ASSUME NEW i \in 1..n, \A k \in i + 1..n : k \in G
        PROVE  i \in G
    <2>1. CASE i = n
      <3>1. f[Len(u) + 1] = From(v, p)[1]
        <4>1. 1 \in 1..Len(v) + 1
          BY <1>1
        <4> QED
          BY <1>0, <4>1, FromTail
      <3>2. From(v, p)[1] = e
        BY <1>0, FromEquation
      <3>3. g[n] = << >>
        <4>1. n \in 1..Len(u) + 1 /\ n = Len(u) + 1
          BY <1>0, <1>1
        <4> QED
          BY <1>3, <4>1
      <3>4. << >> \o e = e
        BY <1>1, ConcatEmptySeq DEF Text
      <3> QED
        BY <1>0, <2>1, <3>1, <3>2, <3>3, <3>4
    <2>2. CASE i # n
      <3>1. /\ i \in 1..Len(u) /\ i \in 1..Len(w) + 1 /\ i # Len(w) + 1 /\ i # Len(u) + 1
            /\ i \in 1..Len(u) + 1
            /\ i - 1 \in Nat /\ i - 1 \in 0..Len(u) - 1 /\ w[i] = u[i] /\ i + 1 \in i + 1..n
            /\ i + 1 \in 1..Len(u) + 1
        BY <1>0, <1>1, <2>2
      <3>2. Occurs(p, w, i - 1) <=> Occurs(p, u, i - 1)
        <4>1. ~ (Occurs(p, w, i - 1) /\ (i - 1) + Len(p) > Len(u))
          BY <1>0, <3>1 DEF Crosses
        <4>2. /\ Occurs(p, w, i - 1) <=> /\ (i - 1) + Len(p) <= Len(w)
                                         /\ \A k \in 1..Len(p) : w[(i - 1) + k] = p[k]
              /\ Occurs(p, u, i - 1) <=> /\ (i - 1) + Len(p) <= Len(u)
                                         /\ \A k \in 1..Len(p) : u[(i - 1) + k] = p[k]
          BY <1>1, <3>1, OccursAt
        <4>3. /\ (i - 1) + Len(p) <= Len(u) => (i - 1) + Len(p) <= Len(w)
              /\ ~ ((i - 1) + Len(p) > Len(u)) => (i - 1) + Len(p) <= Len(u)
              /\ (i - 1) + Len(p) <= Len(u) => \A k \in 1..Len(p) : (i - 1) + k \in 1..Len(u)
          BY <1>1, <3>1
        <4>4. (i - 1) + Len(p) <= Len(u) =>
                \A k \in 1..Len(p) : w[(i - 1) + k] = u[(i - 1) + k]
          BY <1>1, <4>3
        <4> HIDE DEF Occurs
        <4> QED
          BY <4>1, <4>2, <4>3, <4>4
      <3>3. CASE Occurs(p, u, i - 1)
        <4>1. PICK k : k = i + Len(p)
          OBVIOUS
        <4>2. k \in i + 1..n /\ k \in 1..Len(u) + 1
          BY <1>0, <1>1, <3>1, <3>3, <4>1 DEF Occurs
        <4>3. f[k] = g[k] \o e
          BY <1>4, <4>2
        <4> HIDE DEF Occurs
        <4>4. f[i] = Mask \o f[k] /\ g[i] = Mask \o g[k]
          BY <1>2, <1>3, <3>1, <3>2, <3>3, <4>1
        <4>5. Mask \o (g[k] \o e) = (Mask \o g[k]) \o e
          <5>1. Mask \in Text /\ g[k] \in Text
            BY <1>3, <4>2, TextFacts
          <5>2. e \in Text
            BY <1>1
          <5>3. \A a, b, c \in Text : (a \o b) \o c = a \o (b \o c)
            BY JoinAssociative, Zenon
          <5> QED
            BY <5>1, <5>2, <5>3, ZenonT(60)
        <4> QED
          BY <4>3, <4>4, <4>5
      <3>4. CASE ~Occurs(p, u, i - 1)
        <4>1. PICK k : k = i + 1
          OBVIOUS
        <4>2. f[k] = g[k] \o e
          BY <1>4, <3>1, <4>1
        <4> HIDE DEF Occurs
        <4>3. f[i] = <<w[i]>> \o f[k] /\ g[i] = <<u[i]>> \o g[k]
          BY <1>2, <1>3, <3>1, <3>2, <3>4, <4>1
        <4>4. <<u[i]>> \o (g[k] \o e) = (<<u[i]>> \o g[k]) \o e
          <5>1. u[i] \in Bytes \cup {Star} /\ g[k] \in Text
            BY <1>3, <3>1, <4>1, TextFacts
          <5>2. <<u[i]>> \in Text
            BY <5>1, TextFacts
          <5> QED
            BY <1>1, <5>1, <5>2, JoinAssociative
        <4> QED
          BY <3>1, <4>2, <4>3, <4>4
      <3> QED
        BY <3>3, <3>4
    <2> QED
      BY <2>1, <2>2
  <1>5. \A i \in 1..n : i \in G
    <2> HIDE DEF G
    <2> QED
      BY <1>1, <1>4, DownFrom
  <1>6. f[1] = g[1] \o e
    <2>1. 1 \in 1..n
      BY <1>0, <1>1
    <2> QED
      BY <1>5, <2>1
  <1>7. Replace(w, p) = f[1] /\ Replace(u, p) = g[1]
    BY <1>0, <1>1, FromEquation
  <1> QED
    BY <1>0, <1>6, <1>7

------------------------------------------------------------------------------
\* No value crosses the border of two texts.
Apart(u, v) == \A i \in DOMAIN patterns : ~Crosses(patterns[i], u, v)

LEMMA PatternFacts ==
  ASSUME patterns \in PatternLists
  PROVE  /\ Len(patterns) \in Nat /\ DOMAIN patterns = 1..Len(patterns)
         /\ \A i \in 1..Len(patterns) :
              /\ patterns[i] \in Text /\ patterns[i] # << >>
              /\ Maskless => NoStar(patterns[i])
  <1>1. patterns \in Seq(Text \ {<< >>})
    BY PatternsAssumption DEF Text
  <1>2. Len(patterns) \in Nat /\ DOMAIN patterns = 1..Len(patterns)
    BY <1>1
  <1>3. ASSUME NEW i \in 1..Len(patterns)
        PROVE  patterns[i] \in Text /\ patterns[i] # << >>
    BY <1>1, <1>2
  <1>4. ASSUME NEW i \in 1..Len(patterns), Maskless
        PROVE  NoStar(patterns[i])
    <2>1. Star \notin ToSet(patterns[i])
      BY <1>2, <1>4 DEF Maskless
    <2>2. DOMAIN patterns[i] = 1..Len(patterns[i])
      BY <1>3 DEF Text
    <2> QED
      BY <2>1, <2>2 DEF ToSet, NoStar
  <1> QED
    BY <1>2, <1>3, <1>4

\* What Redact makes of t with the first k values.
After(t) ==
  CHOOSE after : after = [k \in 0..Len(patterns) |->
    IF k = 0 THEN t ELSE Replace(after[k - 1], patterns[k])]

LEMMA AfterEquation ==
  ASSUME patterns \in PatternLists, NEW t
  PROVE  /\ After(t)[0] = t
         /\ \A k \in 1..Len(patterns) : After(t)[k] = Replace(After(t)[k - 1], patterns[k])
         /\ Redact(t) = After(t)[Len(patterns)]
  <1>0. PICK n, ps : n = Len(patterns) /\ ps = patterns
    OBVIOUS
  <1>1. n \in Nat
    BY <1>0, PatternFacts
  <1> DEFINE body(g, m) == [k \in 0..m |-> IF k = 0 THEN t ELSE Replace(g[k - 1], ps[k])]
             G == {m \in 0..n : \E g : g = body(g, m)}
  <1>2. 0 \in G
    <2> DEFINE g == [k \in 0..0 |-> t]
    <2>1. g = body(g, 0)
      OBVIOUS
    <2> HIDE DEF g, body
    <2>2. 0 \in 0..n
      BY <1>1
    <2> QED
      BY <2>1, <2>2
  <1>3. ASSUME NEW m \in 1..n, m - 1 \in G
        PROVE  m \in G
    <2>1. PICK g : g = body(g, m - 1)
      BY <1>3
    <2> DEFINE f == [k \in 0..m |-> IF k = m THEN Replace(g[m - 1], ps[m]) ELSE g[k]]
    <2>2. ASSUME NEW k \in 0..m
          PROVE  f[k] = IF k = 0 THEN t ELSE Replace(f[k - 1], ps[k])
      <3>1. CASE k = m
        <4>1. m - 1 \in 0..m /\ m - 1 # m /\ k # 0
          BY <3>1
        <4>2. f[m - 1] = g[m - 1]
          BY <4>1
        <4>3. f[m] = Replace(g[m - 1], ps[m])
          OBVIOUS
        <4> HIDE DEF f
        <4> QED
          BY <3>1, <4>1, <4>2, <4>3
      <3>2. CASE k # m
        <4>1. k \in 0..m - 1 /\ f[k] = g[k]
          BY <3>2
        <4>2. k # 0 => k - 1 \in 0..m /\ k - 1 # m
          BY <3>2
        <4>3. k # 0 => f[k - 1] = g[k - 1]
          BY <4>2
        <4>4. g[k] = IF k = 0 THEN t ELSE Replace(g[k - 1], ps[k])
          BY <2>1, <4>1
        <4> HIDE DEF f
        <4> QED
          BY <4>1, <4>3, <4>4
      <3> QED
        BY <3>1, <3>2
    <2>3. f = body(f, m)
      <3>1. f = [k \in 0..m |-> f[k]]
        OBVIOUS
      <3> HIDE DEF f
      <3> QED
        BY <2>2, <3>1
    <2> HIDE DEF f, body
    <2>4. m \in 0..n
      OBVIOUS
    <2> QED
      BY <2>3, <2>4
  <1>4. \A m \in 0..n : m \in G
    <2> HIDE DEF G
    <2> QED
      BY <1>1, <1>2, <1>3, UpFrom
  <1>5. n \in G
    BY <1>1, <1>4
  <1>6. \E g : g = body(g, n)
    BY <1>5
  <1>7. After(t) = (CHOOSE g : g = body(g, n))
    BY <1>0 DEF After
  <1>8. After(t) = body(After(t), n)
    <2> HIDE DEF body
    <2> QED
      BY <1>6, <1>7
  <1>9. Redact(t) = After(t)[Len(patterns)]
    BY DEF Redact, After
  <1> QED
    BY <1>0, <1>1, <1>8, <1>9

LEMMA AfterIsText ==
  ASSUME patterns \in PatternLists, NEW t \in Text
  PROVE  /\ \A k \in 0..Len(patterns) : After(t)[k] \in Text
         /\ Redact(t) \in Text
  <1>0. PICK n, a : n = Len(patterns) /\ a = After(t)
    OBVIOUS
  <1> DEFINE G == {k \in 0..n : a[k] \in Text}
  <1>1. n \in Nat
    BY <1>0, PatternFacts
  <1>2. 0 \in G
    BY <1>0, <1>1, AfterEquation
  <1>3. ASSUME NEW k \in 1..n, k - 1 \in G
        PROVE  k \in G
    <2>1. a[k] = Replace(a[k - 1], patterns[k])
      BY <1>0, AfterEquation
    <2>2. a[k - 1] \in Text /\ patterns[k] \in Text /\ patterns[k] # << >> /\ k \in 0..n
      BY <1>0, <1>3, PatternFacts
    <2>3. a[k] \in Text
      BY <2>1, <2>2, ReplaceComes
    <2> QED
      BY <2>2, <2>3
  <1>4. \A k \in 0..n : k \in G
    <2> HIDE DEF G
    <2> QED
      BY <1>1, <1>2, <1>3, UpFrom
  <1>5. n \in 0..n
    BY <1>1
  <1> QED
    BY <1>0, <1>4, <1>5, AfterEquation

\* Two texts whose border no value crosses are redacted one by one.
LEMMA RedactJoined ==
  ASSUME patterns \in PatternLists, Maskless, NEW u \in Text, NEW v \in Text, Apart(u, v)
  PROVE  Redact(u \o v) = Redact(u) \o Redact(v)
  <1>0. PICK n, a, b, c :
          n = Len(patterns) /\ a = After(u) /\ b = After(v) /\ c = After(u \o v)
    OBVIOUS
  <1> DEFINE G == {k \in 0..n : /\ c[k] = a[k] \o b[k]
                                /\ \A i \in 1..n : ~Crosses(patterns[i], a[k], b[k])}
  <1>1. n \in Nat
    BY <1>0, PatternFacts
  <1>2. 0 \in G
    <2>1. c[0] = a[0] \o b[0] /\ a[0] = u /\ b[0] = v
      BY <1>0, AfterEquation
    <2>2. \A i \in 1..n : ~Crosses(patterns[i], u, v)
      BY <1>0, PatternFacts DEF Apart
    <2>3. 0 \in 0..n
      BY <1>1
    <2> QED
      BY <2>1, <2>2, <2>3
  <1>3. ASSUME NEW k \in 1..n, k - 1 \in G
        PROVE  k \in G
    <2>1. PICK x, y, p : x = a[k - 1] /\ y = b[k - 1] /\ p = patterns[k]
      OBVIOUS
    <2>2. /\ a[k] = Replace(x, p) /\ b[k] = Replace(y, p) /\ c[k] = Replace(c[k - 1], p)
      BY <1>0, <2>1, AfterEquation
    <2>3. k - 1 \in 0..n /\ k \in 0..n
      BY <1>1
    <2>4. x \in Text /\ y \in Text /\ p \in Text /\ p # << >>
      BY <1>0, <2>1, <2>3, AfterIsText, PatternFacts
    <2>5. c[k - 1] = x \o y /\ \A i \in 1..n : ~Crosses(patterns[i], x, y)
      BY <1>3, <2>1
    <2>6. c[k] = a[k] \o b[k]
      <3>1. ~Crosses(p, x, y)
        BY <2>1, <2>5
      <3>2. Replace(x \o y, p) = Replace(x, p) \o Replace(y, p)
        BY <2>4, <3>1, ReplaceJoined
      <3> QED
        BY <2>2, <2>5, <3>2
    <2>7. ASSUME NEW i \in 1..n PROVE ~Crosses(patterns[i], a[k], b[k])
      <3>1. patterns[i] \in Text /\ patterns[i] # << >> /\ NoStar(patterns[i])
        BY <1>0, PatternFacts
      <3>2. ~Crosses(patterns[i], x, y)
        BY <2>5
      <3> QED
        BY <2>2, <2>4, <3>1, <3>2, StillApart
    <2> QED
      BY <2>3, <2>6, <2>7
  <1>4. \A k \in 0..n : k \in G
    <2> HIDE DEF G
    <2> QED
      BY <1>1, <1>2, <1>3, UpFrom
  <1>5. c[n] = a[n] \o b[n]
    <2>1. n \in 0..n
      BY <1>1
    <2> QED
      BY <1>4, <2>1
  <1> QED
    BY <1>0, <1>5, AfterEquation

\* No value is in what Redact returns.
LEMMA RedactFree ==
  ASSUME patterns \in PatternLists, Maskless, NEW t \in Text
  PROVE  \A i \in DOMAIN patterns : \A at \in Nat : ~Occurs(patterns[i], Redact(t), at)
  <1>0. PICK n, a : n = Len(patterns) /\ a = After(t)
    OBVIOUS
  <1> DEFINE G == {k \in 0..n : \A i \in 1..k : \A at \in Nat : ~Occurs(patterns[i], a[k], at)}
  <1> HIDE DEF Occurs
  <1>1. n \in Nat
    BY <1>0, PatternFacts
  <1>2. 0 \in G
    BY <1>1
  <1>3. ASSUME NEW k \in 1..n, k - 1 \in G
        PROVE  k \in G
    <2>1. PICK x, p : x = a[k - 1] /\ p = patterns[k]
      OBVIOUS
    <2>2. k - 1 \in 0..n /\ k \in 0..n
      BY <1>1
    <2>3. x \in Text /\ p \in Text /\ p # << >>
      BY <1>0, <2>1, <2>2, AfterIsText, PatternFacts
    <2>4. a[k] = Replace(x, p)
      BY <1>0, <2>1, AfterEquation
    <2>5. ASSUME NEW i \in 1..k, NEW at \in Nat, Occurs(patterns[i], a[k], at) PROVE FALSE
      <3>1. i \in 1..n /\ (i = k \/ i \in 1..k - 1)
        BY <1>1
      <3>2. patterns[i] \in Text /\ patterns[i] # << >> /\ NoStar(patterns[i])
        BY <1>0, <3>1, PatternFacts
      <3>3. PICK b \in Nat : Occurs(patterns[i], x, b) /\ ~Occurs(p, x, b)
        BY <2>3, <2>4, <2>5, <3>2, OccurredBefore
      <3>4. i \in 1..k - 1
        BY <2>1, <3>1, <3>3
      <3>5. ~Occurs(patterns[i], a[k - 1], b)
        BY <1>3, <3>4
      <3> QED
        BY <2>1, <3>3, <3>5
    <2> QED
      BY <2>2, <2>5
  <1>4. \A k \in 0..n : k \in G
    <2> HIDE DEF G
    <2> QED
      BY <1>1, <1>2, <1>3, UpFrom
  <1>5. \A i \in 1..n : \A at \in Nat : ~Occurs(patterns[i], a[n], at)
    <2>1. n \in 0..n
      BY <1>1
    <2> QED
      BY <1>4, <2>1
  <1> QED
    BY <1>0, <1>5, AfterEquation, PatternFacts

\* Redact returns nothing for nothing, and for nothing else.
LEMMA RedactNonEmpty ==
  ASSUME patterns \in PatternLists, NEW t \in Text
  PROVE  Redact(t) = << >> <=> t = << >>
  <1>0. PICK n, a : n = Len(patterns) /\ a = After(t)
    OBVIOUS
  <1> DEFINE G == {k \in 0..n : a[k] = << >> <=> t = << >>}
  <1>1. n \in Nat
    BY <1>0, PatternFacts
  <1>2. 0 \in G
    BY <1>0, <1>1, AfterEquation
  <1>3. ASSUME NEW k \in 1..n, k - 1 \in G
        PROVE  k \in G
    <2>1. PICK x, p : x = a[k - 1] /\ p = patterns[k]
      OBVIOUS
    <2>2. k - 1 \in 0..n /\ k \in 0..n
      BY <1>1
    <2>3. x \in Text /\ p \in Text /\ p # << >>
      BY <1>0, <2>1, <2>2, AfterIsText, PatternFacts
    <2>4. a[k] = Replace(x, p)
      BY <1>0, <2>1, AfterEquation
    <2>5. a[k] = << >> => x = << >>
      BY <2>3, <2>4, ReplaceNonEmpty
    <2>6. x = << >> => a[k] = << >>
      <3> SUFFICES ASSUME x = << >> PROVE a[k] = << >>
        OBVIOUS
      <3>1. 1 \in 1..Len(x) + 1 /\ 1 = Len(x) + 1
        BY TextFacts
      <3>2. From(x, p)[1] = << >>
        BY <2>3, <3>1, FromEquation
      <3> QED
        BY <2>3, <2>4, <3>2, FromEquation
    <2> QED
      BY <1>3, <2>1, <2>2, <2>5, <2>6
  <1>4. \A k \in 0..n : k \in G
    <2> HIDE DEF G
    <2> QED
      BY <1>1, <1>2, <1>3, UpFrom
  <1>5. a[n] = << >> <=> t = << >>
    <2>1. n \in 0..n
      BY <1>1
    <2> QED
      BY <1>4, <2>1
  <1> QED
    BY <1>0, <1>5, AfterEquation

\* No value crosses the border, whatever else is read.
Clean(c, y) == \A x \in Text : Apart(c, y \o x)

\* The part of a text that the log has.
Logged(t) == FirstOf(Redact(t), Min({LogLimit, Len(Redact(t))}))

LEMMA CutText ==
  ASSUME NEW t \in Text, NEW n \in 0..Len(t)
  PROVE  /\ FirstOf(t, n) \in Text /\ Len(FirstOf(t, n)) = n
         /\ RestOf(t, n) \in Text /\ Len(RestOf(t, n)) = Len(t) - n
         /\ FirstOf(t, n) \o RestOf(t, n) = t
         /\ \A k \in 1..n : FirstOf(t, n)[k] = t[k]
  <1>1. Len(t) \in Nat /\ \A k \in 1..Len(t) : t[k] \in Bytes \cup {Star}
    BY TextFacts
  <1>2. /\ FirstOf(t, n) \in Text
        /\ Len(FirstOf(t, n)) = IF 1 <= n THEN n - 1 + 1 ELSE 0
        /\ \A k \in 1..n - 1 + 1 : FirstOf(t, n)[k] = t[1 + k - 1]
    <2>1. \A k \in 1..n : t[k] \in Bytes \cup {Star}
      BY <1>1
    <2>2. n \in Int /\ 1 \in Int
      BY <1>1
    <2> QED
      BY <2>1, <2>2, SubSeqProperties DEF FirstOf, Text
  <1>3. /\ RestOf(t, n) \in Text
        /\ Len(RestOf(t, n)) = IF n + 1 <= Len(t) THEN Len(t) - (n + 1) + 1 ELSE 0
    <2>1. \A k \in n + 1..Len(t) : t[k] \in Bytes \cup {Star}
      BY <1>1
    <2>2. n + 1 \in Int /\ Len(t) \in Int
      BY <1>1
    <2> QED
      BY <2>1, <2>2, SubSeqProperties DEF RestOf, Text
  <1>4. FirstOf(t, n) \o RestOf(t, n) = t
    <2>1. t \in Seq(Bytes \cup {Star})
      BY DEF Text
    <2>2. 1 \in 1..Len(t) + 1 /\ n \in 1 - 1..Len(t) /\ Len(t) \in n..Len(t)
      BY <1>1
    <2>3. SubSeq(t, 1, n) \o SubSeq(t, n + 1, Len(t)) = SubSeq(t, 1, Len(t))
      BY <2>1, <2>2, ConcatAdjacentSubSeq
    <2>4. SubSeq(t, 1, Len(t)) = t
      BY <2>1, SubSeqFull
    <2> QED
      BY <2>3, <2>4 DEF FirstOf, RestOf
  <1>5. Len(FirstOf(t, n)) = n /\ Len(RestOf(t, n)) = Len(t) - n
    BY <1>1, <1>2, <1>3
  <1>6. ASSUME NEW k \in 1..n PROVE FirstOf(t, n)[k] = t[k]
    <2>1. k \in 1..n - 1 + 1 /\ 1 + k - 1 = k
      BY <1>1
    <2> QED
      BY <1>2, <2>1
  <1> QED
    BY <1>2, <1>3, <1>4, <1>5, <1>6

\* What no value crosses in the buffer no value crosses in what is to come.
LEMMA CutIsClean ==
  ASSUME patterns \in PatternLists, NEW t \in Text
  PROVE  Clean(FirstOf(t, SafeCutoff(t)), RestOf(t, SafeCutoff(t)))
  <1>1. CASE patterns = << >>
    BY <1>1 DEF Clean, Apart
  <1>2. CASE patterns # << >>
    <2>1. PICK cut, u, v : /\ cut = SafeCutoff(t) /\ u = FirstOf(t, cut) /\ v = RestOf(t, cut)
      OBVIOUS
    <2>2. PICK top : top = Latest(t)
      OBVIOUS
    <2>3. cut \in 0..Len(t) /\ \A i \in DOMAIN patterns : Split(patterns[i], t, cut) = {}
      BY <2>1, CutSplitsNoValue DEF Text
    <2>4. /\ u \in Text /\ Len(u) = cut /\ v \in Text /\ u \o v = t
          /\ Len(t) \in Nat /\ cut \in Nat
      <3>1. /\ FirstOf(t, cut) \in Text /\ Len(FirstOf(t, cut)) = cut
            /\ RestOf(t, cut) \in Text /\ FirstOf(t, cut) \o RestOf(t, cut) = t
        BY <2>3, CutText
      <3>2. Len(t) \in Nat
        BY TextFacts
      <3>3. cut \in Nat
        BY <2>3, <3>2
      <3> QED
        BY <2>1, <3>1, <3>2, <3>3
    <2>5. cut \in 0..top /\ Longest \in Nat
      BY <1>2, <2>1, <2>2, CutoffEnds, LongestIsFirst
    <2>6. top = IF Len(t) - Longest + 1 > 0 THEN Len(t) - Longest + 1 ELSE 0
      <3>1. Len(t) - Longest + 1 \in Int
        BY <2>4, <2>5
      <3> QED
        BY <2>2, <3>1, MaxOfTwo DEF Latest
    <2>7. ASSUME NEW x \in Text, NEW i \in DOMAIN patterns, NEW at \in 0..Len(u) - 1,
                 Occurs(patterns[i], u \o (v \o x), at), at + Len(patterns[i]) > Len(u)
          PROVE  FALSE
      <3>1. PICK q, h : q = patterns[i] /\ h = Len(q)
        OBVIOUS
      <3>2. q \in Text /\ h \in Nat /\ h <= Longest
        BY <3>1, PatternFacts, TextFacts, LongestIsFirst
      <3>3. at \in Nat /\ at < cut /\ at + h <= Len(t)
        BY <2>4, <2>5, <2>6, <3>2
      <3>4. u \o (v \o x) = t \o x /\ t \o x \in Text
        <4>1. (u \o v) \o x = u \o (v \o x)
          BY <2>4, JoinAssociative, ZenonT(60)
        <4>2. t \o x \in Text
          BY Joined
        <4> QED
          BY <2>4, <4>1, <4>2
      <3>5. \A k \in 1..h : (t \o x)[at + k] = q[k]
        <4>1. Occurs(q, t \o x, at)
          BY <2>7, <3>1, <3>4
        <4> HIDE DEF Occurs
        <4> QED
          BY <3>1, <3>2, <3>3, <3>4, <4>1, OccursAt, ZenonT(60)
      <3>6. ASSUME NEW k \in 1..h PROVE t[at + k] = q[k]
        <4>1. at + k \in 1..Len(t)
          BY <2>4, <3>2, <3>3
        <4>2. (t \o x)[at + k] = t[at + k]
          BY <4>1, Joined
        <4> QED
          BY <3>5, <4>2
      <3>7. Occurs(q, t, at)
        BY <3>1, <3>2, <3>3, <3>6, OccursAt
      <3> HIDE DEF Occurs
      <3>8. at \in Split(q, t, cut)
        BY <2>4, <2>7, <3>1, <3>3, <3>7 DEF Split
      <3> QED
        BY <2>3, <3>1, <3>8
    <2> HIDE DEF Occurs
    <2>8. Clean(u, v)
      BY <2>7 DEF Clean, Apart, Crosses
    <2> QED
      BY <2>1, <2>8
  <1> QED
    BY <1>1, <1>2

\* The next cut after a clean one.
LEMMA CleanNext ==
  ASSUME patterns \in PatternLists,
         NEW c \in Text, NEW y \in Text, NEW z \in Text, NEW u \in Text, NEW v \in Text,
         Clean(c, y), Clean(u, v), y \o z = u \o v
  PROVE  Clean(c \o u, v)
  <1> SUFFICES ASSUME NEW x \in Text, NEW i \in DOMAIN patterns,
                      NEW at \in 0..Len(c \o u) - 1,
                      Occurs(patterns[i], (c \o u) \o (v \o x), at),
                      at + Len(patterns[i]) > Len(c \o u)
               PROVE  FALSE
    <2> HIDE DEF Occurs
    <2> QED
      BY DEF Clean, Apart, Crosses
  <1>1. PICK q, h, w : q = patterns[i] /\ h = Len(q) /\ w = u \o (v \o x)
    OBVIOUS
  <1>2. /\ v \o x \in Text /\ w \in Text /\ c \o u \in Text /\ c \o w \in Text /\ z \o x \in Text
        /\ q \in Text
    BY <1>1, Joined, PatternFacts
  <1>3. /\ Len(c \o u) = Len(c) + Len(u) /\ Len(c \o w) = Len(c) + Len(w)
        /\ Len(c) \in Nat /\ Len(u) \in Nat /\ Len(w) \in Nat /\ h \in Nat
    <2>1. Len(c \o u) = Len(c) + Len(u)
      BY Joined
    <2>2. Len(c \o w) = Len(c) + Len(w)
      BY <1>2, Joined
    <2>3. Len(c) \in Nat /\ Len(u) \in Nat /\ Len(w) \in Nat /\ h \in Nat
      BY <1>1, <1>2, TextFacts
    <2> QED
      BY <2>1, <2>2, <2>3
  <1>4. (c \o u) \o (v \o x) = c \o w
    <2>1. \A r, s, t \in Text : (r \o s) \o t = r \o (s \o t)
      BY JoinAssociative, Zenon
    <2>2. (c \o u) \o (v \o x) = c \o (u \o (v \o x))
      <3>1. c \in Text /\ u \in Text /\ v \o x \in Text
        BY <1>2
      <3> QED
        BY <2>1, <3>1, ZenonT(60)
    <2> QED
      BY <1>1, <2>2
  <1>5. w = y \o (z \o x)
    <2>1. w = (u \o v) \o x
      BY <1>1, JoinAssociative
    <2>2. (y \o z) \o x = y \o (z \o x)
      BY JoinAssociative, ZenonT(60)
    <2> QED
      BY <2>1, <2>2
  <1>6. /\ Occurs(q, c \o w, at) /\ at \in Nat /\ at < Len(c) + Len(u) /\ at + h > Len(c) + Len(u)
    BY <1>1, <1>3, <1>4
  <1> HIDE DEF Occurs
  <1>7. CASE at < Len(c)
    <2>1. at \in 0..Len(c) - 1 /\ at + Len(q) > Len(c)
      BY <1>1, <1>3, <1>6, <1>7
    <2>2. Crosses(q, c, y \o (z \o x))
      BY <1>5, <1>6, <2>1 DEF Crosses
    <2> QED
      BY <1>1, <1>2, <2>2 DEF Clean, Apart
  <1>8. CASE ~ (at < Len(c))
    <2>1. PICK a : a = at - Len(c)
      OBVIOUS
    <2>2. /\ a \in Nat /\ a \in 0..Len(u) - 1 /\ a + h > Len(u) /\ at = Len(c) + a
      BY <1>3, <1>6, <1>8, <2>1
    <2>3. at + h <= Len(c \o w) /\ \A k \in 1..h : (c \o w)[at + k] = q[k]
      <3>1. /\ at + Len(q) <= Len(c \o w)
            /\ \A k \in 1..Len(q) : (c \o w)[at + k] = q[k]
        BY <1>2, <1>6, OccursAt, ZenonT(60)
      <3> QED
        BY <1>1, <3>1
    <2>4. a + h <= Len(w)
      BY <1>3, <2>2, <2>3
    <2>5. ASSUME NEW k \in 1..h PROVE w[a + k] = q[k]
      <3>1. a + k \in 1..Len(w) /\ at + k = Len(c) + (a + k)
        BY <1>3, <2>2, <2>4
      <3>2. \A j \in 1..Len(w) : (c \o w)[Len(c) + j] = w[j]
        BY <1>2, Joined
      <3>3. (c \o w)[Len(c) + (a + k)] = w[a + k]
        BY <3>1, <3>2
      <3> QED
        BY <2>3, <3>1, <3>3
    <2>6. Occurs(q, w, a)
      BY <1>1, <1>2, <2>2, <2>4, <2>5, OccursAt
    <2>7. Crosses(q, u, v \o x)
      BY <1>1, <2>2, <2>6 DEF Crosses
    <2> QED
      BY <1>1, <2>7 DEF Clean, Apart
  <1> QED
    BY <1>7, <1>8

LEMMA LesserOfTwo ==
  ASSUME NEW a \in Nat, NEW b \in Nat
  PROVE  Min({a, b}) = IF a <= b THEN a ELSE b
  <1>1. Min({a, b}) \in {a, b} /\ \A n \in {a, b} : Min({a, b}) <= n
    <2>1. {a, b} \subseteq Nat /\ {a, b} # {}
      OBVIOUS
    <2> QED
      BY <2>1, LeastNumber
  <1> QED
    BY <1>1

\* The log of a text that continues: full at once, or continued.
LEMMA LoggedJoined ==
  ASSUME NEW r \in Text, NEW s \in Text
  PROVE  LET part(t) == FirstOf(t, Min({LogLimit, Len(t)}))
         IN  /\ part(r) \in Text /\ Len(part(r)) = Min({LogLimit, Len(r)})
             /\ Len(part(r)) >= LogLimit => part(r \o s) = part(r)
             /\ Len(part(r)) < LogLimit =>
                  /\ part(r) = r
                  /\ part(r \o s)
                       = r \o FirstOf(s, Min({LogLimit - Len(part(r)), Len(s)}))
  <1>1. PICK a, b, l, w : a = Len(r) /\ b = Len(s) /\ l = LogLimit /\ w = r \o s
    OBVIOUS
  <1>2. /\ a \in Nat /\ b \in Nat /\ l \in Nat /\ w \in Text /\ Len(w) = a + b
        /\ \A k \in 1..a : w[k] = r[k]
        /\ \A k \in 1..b : w[a + k] = s[k]
    <2>1. /\ r \o s \in Text /\ Len(r \o s) = Len(r) + Len(s)
          /\ \A k \in 1..Len(r) : (r \o s)[k] = r[k]
          /\ \A k \in 1..Len(s) : (r \o s)[Len(r) + k] = s[k]
      BY Joined
    <2>2. a \in Nat /\ b \in Nat /\ l \in Nat
      BY <1>1, TextFacts, SizesAssumption
    <2> QED
      BY <1>1, <2>1, <2>2
  <1>3. PICK m, n : m = Min({l, a}) /\ n = Min({l, a + b})
    OBVIOUS
  <1>4. m = (IF l <= a THEN l ELSE a) /\ n = (IF l <= a + b THEN l ELSE a + b)
    BY <1>2, <1>3, LesserOfTwo
  <1>5. m \in 0..a /\ n \in 0..a + b
    BY <1>2, <1>4
  <1>6. PICK x, z : x = FirstOf(r, m) /\ z = FirstOf(w, n)
    OBVIOUS
  <1>7. /\ x \in Text /\ Len(x) = m /\ \A k \in 1..m : x[k] = r[k]
        /\ z \in Text /\ Len(z) = n /\ \A k \in 1..n : z[k] = w[k]
    BY <1>1, <1>2, <1>5, <1>6, CutText, ZenonT(60)
  <1>8. ASSUME m >= l PROVE z = x
    <2>1. m = n /\ \A k \in 1..m : k \in 1..a /\ k \in 1..n
      BY <1>2, <1>4, <1>8
    <2>2. \A k \in 1..m : z[k] = x[k]
      BY <1>2, <1>7, <2>1
    <2> QED
      BY <1>7, <2>1, <2>2, SameText
  <1>9. ASSUME m < l PROVE x = r /\ z = r \o FirstOf(s, Min({l - m, b}))
    <2>1. m = a
      BY <1>2, <1>4, <1>9
    <2>2. x = r
      BY <1>1, <1>7, <2>1, SameText
    <2>3. PICK e : e = Min({l - m, b})
      OBVIOUS
    <2>4. e = IF l - m <= b THEN l - m ELSE b
      <3>1. l - m \in Nat
        BY <1>2, <1>9, <2>1
      <3> QED
        BY <1>2, <2>3, <3>1, LesserOfTwo
    <2>5. e \in 0..b /\ n = a + e
      BY <1>2, <1>4, <1>9, <2>1, <2>4
    <2>6. PICK f, g : f = FirstOf(s, e) /\ g = r \o f
      OBVIOUS
    <2>7. f \in Text /\ Len(f) = e /\ \A k \in 1..e : f[k] = s[k]
      BY <1>1, <2>5, <2>6, CutText
    <2>8. /\ g \in Text /\ Len(g) = a + e /\ \A k \in 1..a : g[k] = r[k]
          /\ \A k \in 1..e : g[a + k] = f[k]
      <3>1. /\ r \o f \in Text /\ Len(r \o f) = Len(r) + Len(f)
            /\ \A k \in 1..Len(r) : (r \o f)[k] = r[k]
            /\ \A k \in 1..Len(f) : (r \o f)[Len(r) + k] = f[k]
        BY <2>7, Joined
      <3> QED
        BY <1>1, <2>6, <2>7, <3>1
    <2>9. ASSUME NEW k \in 1..n PROVE z[k] = g[k]
      <3>1. CASE k <= a
        <4>1. k \in 1..a
          BY <3>1
        <4> QED
          BY <1>2, <1>7, <2>8, <4>1
      <3>2. CASE ~ (k <= a)
        <4>1. PICK j : j = k - a
          OBVIOUS
        <4>2. j \in 1..e /\ j \in 1..b /\ k = a + j
          BY <1>2, <2>5, <3>2, <4>1
        <4>3. z[k] = w[a + j] /\ g[k] = f[j]
          BY <1>7, <2>8, <4>2
        <4>4. w[a + j] = s[j]
          BY <1>2, <4>2
        <4>5. f[j] = s[j]
          BY <2>7, <4>2
        <4> QED
          BY <4>3, <4>4, <4>5
      <3> QED
        BY <3>1, <3>2
    <2>10. z = g
      BY <1>7, <2>5, <2>8, <2>9, SameText
    <2> QED
      BY <2>2, <2>3, <2>6, <2>10
  <1> QED
    BY <1>1, <1>2, <1>3, <1>6, <1>7, <1>8, <1>9

------------------------------------------------------------------------------
\* The output read so far is c, which has been redacted, what is pending, and d,
\* which came when the log was full.
Divided(c, d) ==
  /\ source = c \o (pending \o d)
  /\ Clean(c, pending)
  /\ d # << >> => Len(logged) >= LogLimit
  /\ logged = Logged(c)
  /\ truncated = (Len(Redact(c)) > LogLimit \/ d # << >>)

RedactInv ==
  /\ patterns \in PatternLists
  /\ {source, pending, logged} \subseteq Text
  /\ truncated \in BOOLEAN
  /\ Maskless =>
       IF stream = "done"
       THEN logged = Logged(source) /\ truncated = (Len(Redact(source)) > LogLimit)
       ELSE \E c, d \in Text : Divided(c, d)

LEMMA LoggedType ==
  ASSUME patterns \in PatternLists, NEW t \in Text
  PROVE  /\ Redact(t) \in Text /\ Logged(t) \in Text
         /\ Len(Logged(t)) = Min({LogLimit, Len(Redact(t))})
         /\ Len(Logged(t)) = IF LogLimit <= Len(Redact(t)) THEN LogLimit ELSE Len(Redact(t))
         /\ \A k \in 1..Len(Logged(t)) : Logged(t)[k] = Redact(t)[k]
  <1>1. PICK r, m : r = Redact(t) /\ m = Min({LogLimit, Len(r)})
    OBVIOUS
  <1>2. r \in Text /\ Len(r) \in Nat /\ LogLimit \in Nat
    BY <1>1, AfterIsText, TextFacts, SizesAssumption
  <1>3. m = IF LogLimit <= Len(r) THEN LogLimit ELSE Len(r)
    BY <1>1, <1>2, LesserOfTwo
  <1>4. m \in 0..Len(r)
    BY <1>2, <1>3
  <1>5. Logged(t) = FirstOf(r, m)
    BY <1>1 DEF Logged
  <1>6. /\ FirstOf(r, m) \in Text /\ Len(FirstOf(r, m)) = m
        /\ \A k \in 1..m : FirstOf(r, m)[k] = r[k]
    BY <1>2, <1>4, CutText
  <1> QED
    BY <1>1, <1>2, <1>3, <1>5, <1>6

\* The log is the beginning of the redacted output.
LEMMA LoggedBegins ==
  ASSUME patterns \in PatternLists, NEW t \in Text, NEW u \in Text, NEW v \in Text,
         Redact(t) = u \o v, NEW n \in 0..Len(u)
  PROVE  IsPrefix(FirstOf(u, n), Redact(t))
  <1>1. PICK r, f : r = u \o v /\ f = FirstOf(u, n)
    OBVIOUS
  <1>2. /\ f \in Text /\ Len(f) = n /\ \A k \in 1..n : f[k] = u[k]
    BY <1>1, CutText
  <1>3. /\ r \in Text /\ Len(r) = Len(u) + Len(v) /\ \A k \in 1..Len(u) : r[k] = u[k]
    BY <1>1, Joined
  <1>4. Len(u) \in Nat /\ Len(v) \in Nat /\ n \in 0..Len(f) /\ n \in 0..Len(r)
    <2>1. Len(u) \in Nat /\ Len(v) \in Nat
      BY TextFacts
    <2> QED
      BY <1>2, <1>3, <2>1
  <1>5. /\ FirstOf(f, n) \in Text /\ Len(FirstOf(f, n)) = n
        /\ \A k \in 1..n : FirstOf(f, n)[k] = f[k]
    BY <1>2, <1>4, CutText
  <1>6. /\ FirstOf(r, n) \in Text /\ Len(FirstOf(r, n)) = n
        /\ \A k \in 1..n : FirstOf(r, n)[k] = r[k]
    BY <1>3, <1>4, CutText
  <1>7. ASSUME NEW k \in 1..n PROVE FirstOf(f, n)[k] = FirstOf(r, n)[k]
    <2>1. k \in 1..Len(u)
      BY <1>4
    <2> QED
      BY <1>2, <1>3, <1>5, <1>6, <2>1
  <1>8. FirstOf(f, n) = FirstOf(r, n)
    BY <1>5, <1>6, <1>7, SameText
  <1>9. n <= Len(r)
    BY <1>4
  <1> QED
    BY <1>1, <1>2, <1>8, <1>9 DEF IsPrefix, FirstOf

LEMMA RedactInitially == StreamInit => RedactInv
  <1> SUFFICES ASSUME StreamInit PROVE RedactInv
    OBVIOUS
  <1>1. /\ patterns \in PatternLists /\ source = << >> /\ pending = << >> /\ logged = << >>
        /\ truncated = FALSE /\ stream = "reading"
    BY DEF StreamInit
  <1>2. << >> \in Text /\ Len(<< >>) = 0
    BY TextFacts
  <1>3. Redact(<< >>) = << >>
    BY <1>1, <1>2, RedactNonEmpty
  <1>4. Logged(<< >>) \in Text /\ Len(Logged(<< >>)) = 0
    <2>1. PICK e : e = << >>
      OBVIOUS
    <2>2. Len(Redact(e)) = 0 /\ LogLimit \in Nat \ {0}
      BY <1>2, <1>3, <2>1, SizesAssumption
    <2>3. /\ Logged(e) \in Text
          /\ Len(Logged(e)) = IF LogLimit <= Len(Redact(e)) THEN LogLimit ELSE Len(Redact(e))
      BY <1>1, <1>2, <2>1, LoggedType
    <2>4. Len(Logged(e)) = 0
      BY <2>2, <2>3
    <2> QED
      BY <2>1, <2>3, <2>4
  <1>5. Logged(<< >>) = << >>
    BY <1>4, TextFacts
  <1>6. Clean(<< >>, << >>)
    <2>1. 0..Len(<< >>) - 1 = {}
      BY <1>2
    <2> QED
      BY <2>1 DEF Clean, Apart, Crosses
  <1>7. << >> \o (<< >> \o << >>) = << >>
    BY <1>2, ConcatEmptySeq DEF Text
  <1>8. ~ (Len(Redact(<< >>)) > LogLimit)
    BY <1>2, <1>3, SizesAssumption
  <1>9. Divided(<< >>, << >>)
    BY <1>1, <1>5, <1>6, <1>7, <1>8 DEF Divided
  <1> QED
    BY <1>1, <1>2, <1>9 DEF RedactInv

\* As long as the values stay the same, so does what is made with them.
LEMMA RedactRigid ==
  ASSUME patterns' = patterns
  PROVE  /\ \A t : Redact(t)' = Redact(t) /\ Logged(t)' = Logged(t)
         /\ Maskless' = Maskless
  <1>1. ASSUME NEW t PROVE Redact(t)' = Redact(t)
    BY DEF Redact
  <1>2. ASSUME NEW t PROVE Logged(t)' = Logged(t)
    BY <1>1 DEF Logged
  <1>3. Maskless' = Maskless
    BY DEF Maskless
  <1> QED
    BY <1>1, <1>2, <1>3

\* What Emit does with a log that is not full.
LEMMA EmitFacts ==
  ASSUME logged \in Text, Len(logged) < LogLimit, NEW s \in Text, Emit(s)
  PROVE  /\ logged' = logged \o FirstOf(s, Min({LogLimit - Len(logged), Len(s)}))
         /\ truncated' = (truncated \/ Len(s) > LogLimit - Len(logged))
         /\ logged' \in Text
  <1>1. PICK l, n, m : l = LogLimit - Len(logged) /\ n = Len(s) /\ m = Min({l, n})
    OBVIOUS
  <1>2. l \in Nat /\ n \in Nat
    BY <1>1, TextFacts, SizesAssumption
  <1>3. m \in 0..n
    <2>1. m = IF l <= n THEN l ELSE n
      BY <1>1, <1>2, LesserOfTwo
    <2> QED
      BY <1>2, <2>1
  <1>4. FirstOf(s, m) \in Text
    BY <1>1, <1>3, CutText
  <1>5. /\ logged' = logged \o FirstOf(s, m)
        /\ truncated' = (truncated \/ Len(s) > l)
    BY <1>1 DEF Emit
  <1>6. logged \o FirstOf(s, m) \in Text
    BY <1>4, Joined
  <1> QED
    BY <1>1, <1>5, <1>6

\* A log that is not full goes on with what follows.
LEMMA EmitContinues ==
  ASSUME patterns \in PatternLists, Maskless, NEW c \in Text, NEW u \in Text, Apart(c, u),
         logged = Logged(c), Len(logged) < LogLimit, ~truncated, Emit(Redact(u))
  PROVE  /\ logged' = Logged(c \o u)
         /\ truncated' = (Len(Redact(c \o u)) > LogLimit)
  <1>1. PICK r, s : r = Redact(c) /\ s = Redact(u)
    OBVIOUS
  <1>2. r \in Text /\ s \in Text /\ logged \in Text
    BY <1>1, AfterIsText, LoggedType
  <1>3. Redact(c \o u) = r \o s
    BY <1>1, RedactJoined
  <1>4. /\ logged' = logged \o FirstOf(s, Min({LogLimit - Len(logged), Len(s)}))
        /\ truncated' = (truncated \/ Len(s) > LogLimit - Len(logged))
    BY <1>1, <1>2, EmitFacts
  <1>5. logged = FirstOf(r, Min({LogLimit, Len(r)}))
    BY <1>1 DEF Logged
  <1>6. /\ logged = r
        /\ FirstOf(r \o s, Min({LogLimit, Len(r \o s)}))
             = r \o FirstOf(s, Min({LogLimit - Len(logged), Len(s)}))
    BY <1>2, <1>5, LoggedJoined, ZenonT(60)
  <1>7. logged' = Logged(c \o u)
    BY <1>3, <1>4, <1>6 DEF Logged
  <1>8. truncated' = (Len(r \o s) > LogLimit)
    <2>1. Len(r \o s) = Len(r) + Len(s) /\ Len(r) \in Nat /\ Len(s) \in Nat /\ LogLimit \in Nat
      BY <1>2, Joined, TextFacts, SizesAssumption
    <2>2. Len(s) > LogLimit - Len(logged) <=> Len(r) + Len(s) > LogLimit
      BY <1>6, <2>1
    <2> QED
      BY <1>4, <2>1, <2>2
  <1> QED
    BY <1>3, <1>7, <1>8

\* A value that crosses a border within a text crosses it in a longer one.
LEMMA ApartBefore ==
  ASSUME patterns \in PatternLists, NEW c \in Text, NEW u \in Text, NEW v \in Text,
         Apart(c, u \o v)
  PROVE  Apart(c, u)
  <1> SUFFICES ASSUME NEW i \in DOMAIN patterns, NEW at \in 0..Len(c) - 1,
                      Occurs(patterns[i], c \o u, at), at + Len(patterns[i]) > Len(c)
               PROVE  FALSE
    <2> HIDE DEF Occurs
    <2> QED
      BY DEF Apart, Crosses
  <1>1. PICK q, w, x : q = patterns[i] /\ w = c \o u /\ x = c \o (u \o v)
    OBVIOUS
  <1>2. q \in Text /\ w \in Text /\ u \o v \in Text
    BY <1>1, PatternFacts, Joined
  <1>3. x \in Text /\ x = w \o v
    <2>1. \A r, s, t \in Text : (r \o s) \o t = r \o (s \o t)
      BY JoinAssociative, Zenon
    <2>2. (c \o u) \o v = c \o (u \o v)
      BY <2>1
    <2>3. c \o (u \o v) \in Text
      BY <1>2, Joined
    <2> QED
      BY <1>1, <2>2, <2>3
  <1>4. Len(x) = Len(w) + Len(v) /\ \A k \in 1..Len(w) : x[k] = w[k]
    BY <1>2, <1>3, Joined
  <1>5. Len(c) \in Nat /\ Len(w) \in Nat /\ Len(v) \in Nat /\ Len(q) \in Nat /\ at \in Nat
    BY <1>2, TextFacts
  <1>6. at + Len(q) <= Len(w) /\ \A k \in 1..Len(q) : w[at + k] = q[k]
    <2>1. Occurs(q, w, at)
      BY <1>1
    <2> HIDE DEF Occurs
    <2> QED
      BY <1>2, <1>5, <2>1, OccursAt
  <1>7. ASSUME NEW k \in 1..Len(q) PROVE x[at + k] = q[k]
    <2>1. at + k \in 1..Len(w)
      BY <1>5, <1>6
    <2> QED
      BY <1>4, <1>6, <2>1
  <1>8. at + Len(q) <= Len(x)
    BY <1>4, <1>5, <1>6
  <1>9. Occurs(q, x, at)
    BY <1>2, <1>3, <1>5, <1>7, <1>8, OccursAt
  <1> HIDE DEF Occurs
  <1> QED
    BY <1>1, <1>9 DEF Apart, Crosses

\* One turn of the loop, with what a read has returned.
LEMMA RedactTurn ==
  ASSUME RedactInv, UNCHANGED patterns, stream # "done", stream' # "done",
         NEW chunk \in Text, chunk # << >>, Turn(chunk)
  PROVE  RedactInv'
  <1>1. /\ patterns \in PatternLists /\ patterns' = patterns
        /\ source \in Text /\ pending \in Text /\ logged \in Text /\ truncated \in BOOLEAN
        /\ source' = source \o chunk /\ source' \in Text
    <2>1. source \in Text /\ source' = source \o chunk
      BY DEF RedactInv, Turn
    <2>2. source \o chunk \in Text
      BY <2>1, Joined
    <2> QED
      BY <2>1, <2>2 DEF RedactInv
  <1>2. ASSUME Maskless PROVE \E c, d \in Text : Divided(c, d)
    BY <1>2 DEF RedactInv
  <1>3. SUFFICES /\ pending' \in Text /\ logged' \in Text /\ truncated' \in BOOLEAN
                 /\ Maskless => \E c, d \in Text : Divided(c, d)'
    <2>1. Maskless' = Maskless
      BY <1>1, RedactRigid
    <2> HIDE DEF Divided
    <2> QED
      BY <1>1, <1>3, <2>1 DEF RedactInv
  <1>4. CASE Len(logged) >= LogLimit
    <2>1. truncated' = TRUE /\ pending' = pending /\ logged' = logged
      <3>1. ~ (Len(logged) < LogLimit)
        BY <1>1, <1>4, TextFacts, SizesAssumption
      <3> QED
        BY <3>1 DEF Turn
    <2>2. ASSUME Maskless PROVE \E c, d \in Text : Divided(c, d)'
      <3>1. PICK c \in Text, d \in Text : Divided(c, d)
        BY <1>2, <2>2
      <3>2. PICK e : e = d \o chunk
        OBVIOUS
      <3>3. e \in Text /\ Len(e) = Len(d) + Len(chunk) /\ pending \o d \in Text
        BY <1>1, <3>2, Joined
      <3>4. e # << >>
        <4>1. Len(d) \in Nat /\ Len(chunk) >= 1 /\ Len(chunk) \in Nat
          BY TextFacts
        <4> QED
          BY <3>3, <4>1, TextFacts
      <3>5. source' = c \o (pending' \o e)
        <4>1. \A r, s, t \in Text : (r \o s) \o t = r \o (s \o t)
          BY JoinAssociative, Zenon
        <4>2. source = c \o (pending \o d)
          BY <3>1 DEF Divided
        <4>3. (c \o (pending \o d)) \o chunk = c \o ((pending \o d) \o chunk)
          BY <3>3, <4>1
        <4>4. (pending \o d) \o chunk = pending \o (d \o chunk)
          BY <1>1, <4>1, SMTT(30)
        <4> QED
          BY <1>1, <2>1, <3>2, <4>2, <4>3, <4>4
      <3>6. Clean(c, pending)'
        BY <1>1, <2>1, <3>1 DEF Divided, Clean, Apart
      <3>7. logged' = Logged(c)'
        BY <1>1, <2>1, <3>1, RedactRigid DEF Divided
      <3>8. Divided(c, e)'
        BY <1>4, <2>1, <3>4, <3>5, <3>6, <3>7 DEF Divided
      <3> QED
        BY <3>3, <3>8
    <2> QED
      BY <1>1, <2>1, <2>2
  <1>5. CASE Len(logged) < LogLimit
    <2>1. PICK buffer, cut, u, v :
            /\ buffer = pending \o chunk /\ cut = SafeCutoff(buffer)
            /\ u = FirstOf(buffer, cut) /\ v = RestOf(buffer, cut)
      OBVIOUS
    <2>2. pending' = v /\ Emit(Redact(u))
      <3>1. ~ (Len(logged) >= LogLimit)
        BY <1>1, <1>5, TextFacts, SizesAssumption
      <3> QED
        BY <2>1, <3>1 DEF Turn
    <2>3. buffer \in Text /\ cut \in 0..Len(buffer)
      <3>1. buffer \in Text
        BY <1>1, <2>1, Joined
      <3> QED
        BY <1>1, <2>1, <3>1, CutSplitsNoValue DEF Text
    <2>4. u \in Text /\ v \in Text /\ u \o v = buffer
      BY <2>1, <2>3, CutText
    <2>5. /\ logged' \in Text
          /\ truncated' = (truncated \/ Len(Redact(u)) > LogLimit - Len(logged))
      BY <1>1, <1>5, <2>2, <2>4, AfterIsText, EmitFacts
    <2>6. ASSUME Maskless PROVE \E c, d \in Text : Divided(c, d)'
      <3>1. PICK c \in Text, d \in Text : Divided(c, d)
        BY <1>2, <2>6
      <3>2. d = << >>
        <4>1. ~ (Len(logged) >= LogLimit)
          BY <1>1, <1>5, TextFacts, SizesAssumption
        <4> QED
          BY <3>1, <4>1 DEF Divided
      <3>3. /\ source = c \o (pending \o << >>) /\ Clean(c, pending) /\ logged = Logged(c)
            /\ truncated = (Len(Redact(c)) > LogLimit)
        BY <3>1, <3>2 DEF Divided
      <3>4. ~truncated
        <4>1. Len(logged) = IF LogLimit <= Len(Redact(c)) THEN LogLimit ELSE Len(Redact(c))
          BY <1>1, <3>3, LoggedType
        <4>2. Len(Redact(c)) \in Nat /\ LogLimit \in Nat
          BY <1>1, AfterIsText, TextFacts, SizesAssumption
        <4>3. ~ (Len(Redact(c)) > LogLimit)
          BY <1>5, <4>1, <4>2
        <4> QED
          BY <3>3, <4>3
      <3>5. Apart(c, u)
        <4>1. Apart(c, pending \o chunk)
          BY <3>3 DEF Clean
        <4>2. Apart(c, u \o v)
          BY <2>1, <2>4, <4>1
        <4> QED
          BY <1>1, <2>4, <4>2, ApartBefore
      <3>6. PICK e : e = c \o u
        OBVIOUS
      <3>7. logged' = Logged(e) /\ truncated' = (Len(Redact(e)) > LogLimit)
        BY <1>1, <1>5, <2>2, <2>4, <2>6, <3>3, <3>4, <3>5, <3>6, EmitContinues
      <3>8. Clean(e, v)
        <4>1. Clean(u, v)
          BY <1>1, <2>1, <2>3, CutIsClean
        <4> QED
          BY <1>1, <2>1, <2>4, <3>3, <3>6, <4>1, CleanNext
      <3>9. e \in Text /\ << >> \in Text
        BY <2>4, <3>6, Joined, TextFacts
      <3>10. source' = e \o (v \o << >>)
        <4>1. \A r, s, t \in Text : (r \o s) \o t = r \o (s \o t)
          BY JoinAssociative, Zenon
        <4>2. v \o << >> = v /\ pending \o << >> = pending
          BY <1>1, <2>4, ConcatEmptySeq DEF Text
        <4>3. (c \o pending) \o chunk = c \o (pending \o chunk)
          BY <1>1, <4>1, SMTT(30)
        <4>4. (c \o u) \o v = c \o (u \o v)
          BY <2>4, <4>1
        <4> QED
          BY <1>1, <2>1, <2>4, <3>3, <3>6, <4>2, <4>3, <4>4
      <3>11. Clean(e, pending)'
        BY <1>1, <2>2, <3>8 DEF Clean, Apart
      <3>12. logged' = Logged(e)' /\ truncated' = (Len(Redact(e)') > LogLimit)
        BY <1>1, <3>7, RedactRigid
      <3>13. Divided(e, << >>)'
        BY <2>2, <3>10, <3>11, <3>12 DEF Divided
      <3> QED
        BY <3>9, <3>13
    <2> QED
      BY <1>1, <2>2, <2>4, <2>5, <2>6
  <1> QED
    BY <1>1, <1>4, <1>5, TextFacts, SizesAssumption

\* An empty read.
LEMMA RedactEnd ==
  ASSUME RedactInv, EndOfOutput
  PROVE  RedactInv'
  <1>1. /\ patterns \in PatternLists /\ patterns' = patterns
        /\ source \in Text /\ pending \in Text /\ logged \in Text /\ truncated \in BOOLEAN
        /\ source' = source /\ pending' = pending
        /\ stream # "done" /\ stream' = "done"
    BY DEF RedactInv, EndOfOutput
  <1>2. ASSUME Maskless PROVE \E c, d \in Text : Divided(c, d)
    BY <1>1, <1>2 DEF RedactInv
  <1>3. SUFFICES /\ logged' \in Text /\ truncated' \in BOOLEAN
                 /\ Maskless => /\ logged' = Logged(source)
                                /\ truncated' = (Len(Redact(source)) > LogLimit)
    <2>1. /\ Maskless' = Maskless
          /\ Logged(source)' = Logged(source)
          /\ Redact(source)' = Redact(source)
      <3>1. PICK s : s = source
        OBVIOUS
      <3>2. Maskless' = Maskless /\ Logged(s)' = Logged(s) /\ Redact(s)' = Redact(s)
        BY <1>1, RedactRigid
      <3>3. s = source'
        BY <1>1, <3>1
      <3>4. Redact(source)' = Redact(s)'
        BY <3>3 DEF Redact
      <3>5. Logged(source)' = Logged(s)'
        BY <3>4 DEF Logged
      <3> QED
        BY <3>1, <3>2, <3>4, <3>5
    <2> QED
      BY <1>1, <1>3, <2>1 DEF RedactInv
  <1>4. CASE Len(logged) < LogLimit
    <2>1. Emit(Redact(pending))
      <3>1. ~ (Len(logged) >= LogLimit)
        BY <1>1, <1>4, TextFacts, SizesAssumption
      <3> QED
        BY <3>1 DEF EndOfOutput
    <2>2. /\ logged' \in Text
          /\ truncated' = (truncated \/ Len(Redact(pending)) > LogLimit - Len(logged))
      BY <1>1, <1>4, <2>1, AfterIsText, EmitFacts
    <2>3. ASSUME Maskless
          PROVE  /\ logged' = Logged(source)
                 /\ truncated' = (Len(Redact(source)) > LogLimit)
      <3>1. PICK c \in Text, d \in Text : Divided(c, d)
        BY <1>2, <2>3
      <3>2. d = << >>
        <4>1. ~ (Len(logged) >= LogLimit)
          BY <1>1, <1>4, TextFacts, SizesAssumption
        <4> QED
          BY <3>1, <4>1 DEF Divided
      <3>3. /\ source = c \o (pending \o << >>) /\ Clean(c, pending) /\ logged = Logged(c)
            /\ truncated = (Len(Redact(c)) > LogLimit)
        BY <3>1, <3>2 DEF Divided
      <3>4. ~truncated
        <4>1. Len(logged) = IF LogLimit <= Len(Redact(c)) THEN LogLimit ELSE Len(Redact(c))
          BY <1>1, <3>3, LoggedType
        <4>2. Len(Redact(c)) \in Nat /\ LogLimit \in Nat
          BY <1>1, AfterIsText, TextFacts, SizesAssumption
        <4>3. ~ (Len(Redact(c)) > LogLimit)
          BY <1>4, <4>1, <4>2
        <4> QED
          BY <3>3, <4>3
      <3>5. pending \o << >> = pending /\ << >> \in Text
        BY <1>1, ConcatEmptySeq, TextFacts DEF Text
      <3>6. Apart(c, pending)
        BY <3>3, <3>5 DEF Clean
      <3> QED
        BY <1>1, <1>4, <2>1, <2>3, <3>3, <3>4, <3>5, <3>6, EmitContinues
    <2> QED
      BY <1>1, <2>2, <2>3
  <1>5. CASE Len(logged) >= LogLimit
    <2>1. logged' = logged /\ truncated' = (truncated \/ pending # << >>)
      <3>1. ~ (Len(logged) < LogLimit)
        BY <1>1, <1>5, TextFacts, SizesAssumption
      <3> QED
        BY <3>1 DEF EndOfOutput
    <2>2. ASSUME Maskless
          PROVE  /\ logged' = Logged(source)
                 /\ truncated' = (Len(Redact(source)) > LogLimit)
      <3>1. PICK c \in Text, d \in Text : Divided(c, d)
        BY <1>2, <2>2
      <3>2. PICK e, r, s : e = pending \o d /\ r = Redact(c) /\ s = Redact(e)
        OBVIOUS
      <3>3. /\ source = c \o e /\ Apart(c, e) /\ logged = Logged(c)
            /\ truncated = (Len(r) > LogLimit \/ d # << >>)
        BY <3>1, <3>2 DEF Divided, Clean
      <3>4. e \in Text /\ r \in Text /\ s \in Text
        BY <1>1, <3>2, Joined, AfterIsText
      <3>5. Redact(source) = r \o s
        BY <1>1, <2>2, <3>2, <3>3, <3>4, RedactJoined
      <3>6. logged = FirstOf(r, Min({LogLimit, Len(r)}))
        BY <3>2, <3>3 DEF Logged
      <3>7. FirstOf(r \o s, Min({LogLimit, Len(r \o s)})) = logged
        BY <1>5, <3>4, <3>6, LoggedJoined
      <3>8. logged' = Logged(source)
        BY <2>1, <3>5, <3>7 DEF Logged
      <3>9. Len(r) >= LogLimit
        <4>1. Len(logged) = IF LogLimit <= Len(r) THEN LogLimit ELSE Len(r)
          BY <1>1, <3>2, <3>3, LoggedType
        <4>2. Len(r) \in Nat /\ LogLimit \in Nat
          BY <3>4, TextFacts, SizesAssumption
        <4> QED
          BY <1>5, <4>1, <4>2
      <3>10. e = << >> <=> pending = << >> /\ d = << >>
        <4>1. Len(e) = Len(pending) + Len(d)
          BY <1>1, <3>2, Joined
        <4>2. \A t \in Text : Len(t) \in Nat /\ (t = << >> <=> Len(t) = 0)
          BY TextFacts
        <4>3. Len(e) = 0 <=> Len(pending) = 0 /\ Len(d) = 0
          <5>1. Len(pending) \in Nat /\ Len(d) \in Nat
            BY <1>1, <4>2
          <5> QED
            BY <4>1, <5>1
        <4> QED
          BY <1>1, <3>4, <4>2, <4>3
      <3>11. Len(s) = 0 <=> e = << >>
        BY <1>1, <3>2, <3>4, RedactNonEmpty, TextFacts
      <3>12. truncated' = (Len(r \o s) > LogLimit)
        <4>1. Len(r \o s) = Len(r) + Len(s) /\ Len(r) \in Nat /\ Len(s) \in Nat /\ LogLimit \in Nat
          BY <3>4, Joined, TextFacts, SizesAssumption
        <4>2. Len(r) + Len(s) > LogLimit <=> Len(r) > LogLimit \/ Len(s) # 0
          BY <3>9, <4>1
        <4>3. Len(r \o s) > LogLimit <=> Len(r) > LogLimit \/ d # << >> \/ pending # << >>
          BY <3>10, <3>11, <4>1, <4>2
        <4>4. truncated' = (Len(r) > LogLimit \/ d # << >> \/ pending # << >>)
          BY <2>1, <3>3
        <4> QED
          BY <4>3, <4>4
      <3> QED
        BY <3>5, <3>8, <3>12
    <2> QED
      BY <1>1, <2>1, <2>2
  <1> QED
    BY <1>1, <1>4, <1>5, TextFacts, SizesAssumption

LEMMA RedactStep == RedactInv /\ [StreamNext]_streamvars => RedactInv'
  <1> SUFFICES ASSUME RedactInv, [StreamNext]_streamvars PROVE RedactInv'
    OBVIOUS
  <1>1. ASSUME NEW n \in Nat \ {0}, NEW chunk \in [1..n -> Bytes], Turn(chunk),
               UNCHANGED patterns, stream # "done", stream' # "done"
        PROVE  RedactInv'
    <2>1. chunk \in Seq(Bytes) /\ Len(chunk) = n
      BY FunctionIsSeq
    <2>2. chunk \in Text
      BY <2>1, SeqMonotonic DEF Text
    <2>3. chunk # << >>
      BY <2>1, TextFacts
    <2> QED
      BY <1>1, <2>2, <2>3, RedactTurn
  <1>2. CASE ReadBuffer
    <2>1. ReadSize \in Nat \ {0}
      BY SizesAssumption
    <2> QED
      BY <1>1, <1>2, <2>1 DEF ReadBuffer
  <1>3. CASE ReadLast
    <2>1. \A n \in 1..ReadSize - 1 : n \in Nat \ {0}
      BY SizesAssumption
    <2> QED
      BY <1>1, <1>3, <2>1 DEF ReadLast
  <1>4. CASE EndOfOutput
    BY <1>4, RedactEnd
  <1>5. CASE UNCHANGED streamvars
    <2>1. /\ patterns' = patterns /\ source' = source /\ pending' = pending
          /\ logged' = logged /\ truncated' = truncated /\ stream' = stream
      BY <1>5 DEF streamvars
    <2>2. Maskless' = Maskless
      BY <2>1, RedactRigid
    <2>3. PICK s : s = source
      OBVIOUS
    <2>4. Redact(source)' = Redact(source) /\ Logged(source)' = Logged(source)
      <3>1. Redact(source)' = Redact(source)
        BY <2>1 DEF Redact
      <3> QED
        BY <3>1 DEF Logged
    <2>5. ASSUME NEW c, NEW d, Divided(c, d) PROVE Divided(c, d)'
      <3>1. Clean(c, pending)'
        BY <2>1, <2>5 DEF Divided, Clean, Apart
      <3>2. Redact(c)' = Redact(c) /\ Logged(c)' = Logged(c)
        BY <2>1, RedactRigid
      <3> QED
        BY <2>1, <2>5, <3>1, <3>2 DEF Divided
    <2> QED
      BY <2>1, <2>2, <2>4, <2>5 DEF RedactInv
  <1> QED
    BY <1>2, <1>3, <1>4, <1>5 DEF StreamNext

\* The log is always the beginning of the redacted output.
LEMMA LogBegins ==
  ASSUME RedactInv, Maskless
  PROVE  /\ IsPrefix(logged, Redact(source))
         /\ \A k \in 1..Len(logged) : logged[k] = Redact(source)[k] /\ k \in 1..Len(Redact(source))
  <1>1. /\ patterns \in PatternLists /\ source \in Text /\ pending \in Text
        /\ logged \in Text
    BY DEF RedactInv
  <1>2. \E u, v \in Text, t \in Text :
          Redact(source) = u \o v /\ u = Redact(t) /\ logged = Logged(t)
    <2>1. CASE stream = "done"
      <3>1. logged = Logged(source)
        BY <2>1 DEF RedactInv
      <3>2. Redact(source) \in Text /\ << >> \in Text
        BY <1>1, AfterIsText, TextFacts
      <3>3. Redact(source) = Redact(source) \o << >>
        BY <3>2, ConcatEmptySeq DEF Text
      <3> QED
        BY <1>1, <3>1, <3>2, <3>3
    <2>2. CASE stream # "done"
      <3>1. PICK c \in Text, d \in Text : Divided(c, d)
        BY <2>2 DEF RedactInv
      <3>2. PICK e : e = pending \o d
        OBVIOUS
      <3>3. e \in Text /\ source = c \o e /\ Apart(c, e) /\ logged = Logged(c)
        BY <1>1, <3>1, <3>2, Joined DEF Divided, Clean
      <3>4. Redact(source) = Redact(c) \o Redact(e)
        BY <1>1, <3>3, RedactJoined
      <3>5. Redact(c) \in Text /\ Redact(e) \in Text
        BY <1>1, <3>3, AfterIsText
      <3> QED
        BY <3>3, <3>4, <3>5
    <2> QED
      BY <2>1, <2>2
  <1>3. PICK u \in Text, v \in Text, t \in Text :
          Redact(source) = u \o v /\ u = Redact(t) /\ logged = Logged(t)
    BY <1>2
  <1>4. PICK n : n = Min({LogLimit, Len(u)})
    OBVIOUS
  <1>5. n \in 0..Len(u) /\ logged = FirstOf(u, n)
    <2>1. Len(u) \in Nat /\ LogLimit \in Nat
      BY TextFacts, SizesAssumption
    <2>2. n = IF LogLimit <= Len(u) THEN LogLimit ELSE Len(u)
      BY <1>4, <2>1, LesserOfTwo
    <2>3. n \in 0..Len(u)
      BY <2>1, <2>2
    <2> QED
      BY <1>3, <1>4, <2>3 DEF Logged
  <1>6. IsPrefix(logged, Redact(source))
    BY <1>1, <1>3, <1>5, LoggedBegins
  <1>7. ASSUME NEW k \in 1..Len(logged)
        PROVE  logged[k] = Redact(source)[k] /\ k \in 1..Len(Redact(source))
    <2>1. Len(logged) = n /\ \A j \in 1..n : logged[j] = u[j]
      BY <1>5, CutText
    <2>2. Len(u \o v) = Len(u) + Len(v) /\ \A j \in 1..Len(u) : (u \o v)[j] = u[j]
      BY Joined
    <2>3. Len(u) \in Nat /\ Len(v) \in Nat
      BY TextFacts
    <2>4. k \in 1..n /\ k \in 1..Len(u) /\ k \in 1..Len(u) + Len(v)
      BY <1>5, <2>1, <2>3
    <2> QED
      BY <1>3, <2>1, <2>2, <2>4
  <1> QED
    BY <1>6, <1>7

(***************************************************************************)
(* The redaction of a task's output holds at every moment of every run,    *)
(* for any values without the byte of the mask.                            *)
(***************************************************************************)
THEOREM RedactInductive == StreamSpec => []RedactInv
  BY RedactInitially, RedactStep, PTL DEF StreamSpec

(***************************************************************************)
(* Streaming makes no difference: however the output was cut into reads,   *)
(* the log is the redaction of all of it, cut at the limit, and called     *)
(* truncated exactly if something is missing (build_image.py 477-519).     *)
(***************************************************************************)
THEOREM StreamIsRedacted == StreamSpec => []OutputIsRedacted
  <1>1. RedactInv => OutputIsRedacted
    <2> SUFFICES ASSUME RedactInv, Maskless
                 PROVE  /\ IsPrefix(logged, Redact(source))
                        /\ stream = "done" =>
                             /\ Len(logged) = Min({LogLimit, Len(Redact(source))})
                             /\ truncated = (Len(Redact(source)) > LogLimit)
      BY DEF OutputIsRedacted
    <2>1. IsPrefix(logged, Redact(source))
      BY LogBegins
    <2>2. patterns \in PatternLists /\ source \in Text
      BY DEF RedactInv
    <2>3. ASSUME stream = "done"
          PROVE  /\ Len(logged) = Min({LogLimit, Len(Redact(source))})
                 /\ truncated = (Len(Redact(source)) > LogLimit)
      <3>1. logged = Logged(source) /\ truncated = (Len(Redact(source)) > LogLimit)
        BY <2>3 DEF RedactInv
      <3> QED
        BY <2>2, <3>1, LoggedType
    <2> QED
      BY <2>1, <2>3
  <1> QED
    BY <1>1, RedactInductive, PTL

(***************************************************************************)
(* No value without the byte of the mask is in the log of a task at any    *)
(* time, whatever the task writes and however its writes are read          *)
(* (build_image.py 477-519, README "exact managed-variable values are      *)
(* replaced").                                                             *)
(***************************************************************************)
THEOREM LogHoldsNoValue == StreamSpec => []NoValueInLog
  <1>1. RedactInv => NoValueInLog
    <2> SUFFICES ASSUME RedactInv, Maskless, NEW i \in DOMAIN patterns,
                        NEW at \in 0..Len(logged), Occurs(patterns[i], logged, at)
                 PROVE  FALSE
      <3> HIDE DEF Occurs
      <3> QED
        BY DEF NoValueInLog
    <2>1. PICK q, r : q = patterns[i] /\ r = Redact(source)
      OBVIOUS
    <2>2. patterns \in PatternLists /\ source \in Text /\ logged \in Text
      BY DEF RedactInv
    <2>3. q \in Text /\ r \in Text
      BY <2>1, <2>2, PatternFacts, AfterIsText
    <2>4. Len(q) \in Nat /\ Len(r) \in Nat /\ Len(logged) \in Nat /\ at \in Nat
      BY <2>2, <2>3, TextFacts
    <2>5. at + Len(q) <= Len(logged) /\ \A k \in 1..Len(q) : logged[at + k] = q[k]
      <3>1. Occurs(q, logged, at)
        BY <2>1
      <3> HIDE DEF Occurs
      <3> QED
        BY <2>2, <2>3, <2>4, <3>1, OccursAt
    <2>6. \A k \in 1..Len(logged) : logged[k] = r[k] /\ k \in 1..Len(r)
      BY <2>1, LogBegins
    <2>7. ASSUME NEW k \in 1..Len(q) PROVE r[at + k] = q[k]
      <3>1. at + k \in 1..Len(logged)
        BY <2>4, <2>5
      <3> QED
        BY <2>5, <2>6, <3>1
    <2>8. at + Len(q) <= Len(r)
      <3>1. CASE Len(logged) = 0
        BY <2>4, <2>5, <3>1
      <3>2. CASE Len(logged) # 0
        <4>1. Len(logged) \in 1..Len(logged)
          BY <2>4, <3>2
        <4>2. Len(logged) \in 1..Len(r)
          BY <2>6, <4>1
        <4> QED
          BY <2>4, <2>5, <4>2
      <3> QED
        BY <3>1, <3>2
    <2>9. Occurs(q, r, at)
      BY <2>3, <2>4, <2>7, <2>8, OccursAt
    <2> HIDE DEF Occurs
    <2> QED
      BY <2>1, <2>2, <2>4, <2>9, RedactFree
  <1> QED
    BY <1>1, RedactInductive, PTL

=============================================================================
