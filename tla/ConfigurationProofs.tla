-------------------------- MODULE ConfigurationProofs --------------------------
(***************************************************************************)
(* For every file, of any length and with any sections and names: what the  *)
(* parser finds in the lists of rlIniFile is what the file says last, and   *)
(* what is started is what the file asks for.                               *)
(***************************************************************************)
EXTENDS Configuration, WellFoundedInduction, TLAPS

SecNames == {NoSection} \cup {file[k].section : k \in 1 .. Len(file)}
EntryNames == {Nameless} \cup {file[k].name : k \in 1 .. Len(file)}
Texts == {Word("")} \cup {file[k].text : k \in 1 .. Len(file)}

EntryType == [name : EntryNames, text : Texts]
SectionType == [name : SecNames, entries : Seq(EntryType)]

\* The lists have every section once, the one without a header first, and in it every
\* name once, with the text the first n lines say last.
Shape(n, list) ==
    /\ list \in Seq(SectionType) /\ Len(list) >= 1
    /\ list[1].name = NoSection
    /\ \A i, j \in 1 .. Len(list) : list[i].name = list[j].name => i = j
    /\ \A sec : (\E k \in 1 .. Len(list) : list[k].name = sec)
                   <=> sec \in HeadersIn(n) \cup {NoSection}

EntriesHold(n, sec, entries) ==
    /\ \A i, j \in 1 .. Len(entries) :
          entries[i].name = entries[j].name /\ entries[i].name # Nameless => i = j
    /\ \A name : name # Nameless =>
          ((\E j \in 1 .. Len(entries) : entries[j].name = name) <=> Says(n, sec, name))
    /\ \A j \in 1 .. Len(entries) :
          entries[j].name # Nameless => entries[j].text = Saying(n, sec, entries[j].name)

Holds(n, list, sect) ==
    /\ Shape(n, list)
    /\ \A k \in 1 .. Len(list) : EntriesHold(n, list[k].name, list[k].entries)
    /\ sect = SectionAt(n)
    /\ \A k \in 0 .. n : SectionAt(k) \in HeadersIn(n) \cup {NoSection}

\* The inductive invariant.
IInv ==
    file # NoFile => /\ Len(file) \in Nat
                     /\ place \in 1 .. (Len(file) + 1)
                     /\ Holds(place - 1, ini, section)

-----------------------------------------------------------------------------
\* What one line more adds to what the lines say.

LEMMA HeaderGoesOn ==
    ASSUME NEW n \in Nat, file[n + 1].is = "header"
    PROVE  /\ SectionAt(n + 1) = file[n + 1].section
           /\ HeadersIn(n + 1) = HeadersIn(n) \cup {file[n + 1].section}
           /\ \A sec, name : WrittenAt(n + 1, sec, name) = WrittenAt(n, sec, name)
<1>1. HeadersUpTo(n + 1) = HeadersUpTo(n) \cup {n + 1}
  BY DEF HeadersUpTo
<1>2. LastIn(HeadersUpTo(n + 1)) = n + 1
  <2>1. \A j \in HeadersUpTo(n + 1) : n + 1 >= j
    BY DEF HeadersUpTo
  <2>2. \A k \in HeadersUpTo(n + 1) : (\A j \in HeadersUpTo(n + 1) : k >= j) => k = n + 1
    BY <1>1, <2>1 DEF HeadersUpTo
  <2>3. QED
    BY <1>1, <2>1, <2>2 DEF LastIn
<1>3. SectionAt(n + 1) = file[n + 1].section
  BY <1>1, <1>2 DEF SectionAt
<1>4. HeadersIn(n + 1) = HeadersIn(n) \cup {file[n + 1].section}
  BY <1>1 DEF HeadersIn
<1>5. \A sec, name : WrittenAt(n + 1, sec, name) = WrittenAt(n, sec, name)
  BY DEF WrittenAt
<1>6. QED
  BY <1>3, <1>4, <1>5

LEMMA OtherGoesOn ==
    ASSUME NEW n \in Nat, file[n + 1].is # "header"
    PROVE  SectionAt(n + 1) = SectionAt(n) /\ HeadersIn(n + 1) = HeadersIn(n)
<1>1. HeadersUpTo(n + 1) = HeadersUpTo(n)
  BY DEF HeadersUpTo
<1>2. QED
  BY <1>1 DEF SectionAt, HeadersIn

LEMMA CommentGoesOn ==
    ASSUME NEW n \in Nat, file[n + 1].is = "comment"
    PROVE  \A sec, name : WrittenAt(n + 1, sec, name) = WrittenAt(n, sec, name)
BY DEF WrittenAt

LEMMA SettingGoesOn ==
    ASSUME NEW n \in Nat, file[n + 1].is = "setting"
    PROVE  /\ Says(n + 1, SectionAt(n), file[n + 1].name)
           /\ Saying(n + 1, SectionAt(n), file[n + 1].name) = file[n + 1].text
           /\ \A sec, name : sec # SectionAt(n) \/ name # file[n + 1].name =>
                 WrittenAt(n + 1, sec, name) = WrittenAt(n, sec, name)
<1> DEFINE W == WrittenAt(n + 1, SectionAt(n), file[n + 1].name)
<1>1. SectionAt(n + 1) = SectionAt(n)
  BY OtherGoesOn
<1>2. n + 1 \in W
  BY <1>1 DEF WrittenAt
<1>3. LastIn(W) = n + 1
  <2>1. \A j \in W : n + 1 >= j
    BY DEF WrittenAt
  <2>2. \A k \in W : (\A j \in W : k >= j) => k = n + 1
    BY <1>2, <2>1 DEF WrittenAt
  <2> HIDE DEF W
  <2>3. QED
    BY <1>2, <2>1, <2>2 DEF LastIn
<1>4. \A sec, name : sec # SectionAt(n) \/ name # file[n + 1].name =>
         WrittenAt(n + 1, sec, name) = WrittenAt(n, sec, name)
  BY <1>1 DEF WrittenAt
<1>5. QED
  BY <1>2, <1>3, <1>4 DEF Says, Saying

-----------------------------------------------------------------------------
\* What the operations on the lists keep.

LEMMA FirstOfOne ==
    ASSUME NEW S, NEW k \in S, k \in Nat, \A j \in S : j = k
    PROVE  FirstIn(S) = k
<1>1. \A j \in S : k <= j
  OBVIOUS
<1>2. QED
  BY <1>1 DEF FirstIn

LEMMA EntriesStay ==
    ASSUME NEW n, NEW m, NEW sec, NEW entries, EntriesHold(n, sec, entries),
           \A name : WrittenAt(m, sec, name) = WrittenAt(n, sec, name)
    PROVE  EntriesHold(m, sec, entries)
<1>1. \A name : Says(m, sec, name) <=> Says(n, sec, name)
  BY DEF Says
<1>2. \A name : Saying(m, sec, name) = Saying(n, sec, name)
  BY DEF Saying
<1>3. QED
  BY <1>1, <1>2 DEF EntriesHold

LEMMA NamelessHolds ==
    ASSUME NEW n, NEW sec, NEW entries \in Seq(EntryType), EntriesHold(n, sec, entries)
    PROVE  LET more == Append(entries, Entry(Nameless, Word("")))
           IN  more \in Seq(EntryType) /\ EntriesHold(n, sec, more)
<1> DEFINE x == Entry(Nameless, Word(""))
           more == Append(entries, x)
<1>1. x \in EntryType /\ x.name = Nameless
  BY DEF Entry, EntryType, EntryNames, Texts
<1> HIDE DEF x
<1>2. more \in Seq(EntryType) /\ Len(more) = Len(entries) + 1 /\ more[Len(entries) + 1] = x
  BY <1>1
<1>3. \A j \in 1 .. Len(entries) : more[j] = entries[j]
  BY <1>1
<1>4. \A j \in 1 .. Len(more) : j \in 1 .. Len(entries) \/ more[j].name = Nameless
  BY <1>1, <1>2
<1> HIDE DEF more
<1>5. Len(entries) \in Nat
  OBVIOUS
<1>6. EntriesHold(n, sec, more)
  <2>1. \A i, j \in 1 .. Len(more) :
           more[i].name = more[j].name /\ more[i].name # Nameless => i = j
    BY <1>3, <1>4 DEF EntriesHold
  <2>2. \A name : name # Nameless =>
           ((\E j \in 1 .. Len(more) : more[j].name = name)
               <=> (\E j \in 1 .. Len(entries) : entries[j].name = name))
    BY <1>2, <1>3, <1>4, <1>5
  <2>3. \A j \in 1 .. Len(more) : more[j].name # Nameless =>
           more[j].text = Saying(n, sec, more[j].name)
    BY <1>3, <1>4 DEF EntriesHold
  <2>4. QED
    BY <2>1, <2>2, <2>3 DEF EntriesHold
<1>7. QED
  BY <1>2, <1>6 DEF more, x

LEMMA PutHolds ==
    ASSUME NEW n, NEW m, NEW sec, NEW entries \in Seq(EntryType), EntriesHold(n, sec, entries),
           NEW name \in EntryNames, NEW text \in Texts,
           Says(m, sec, name), Saying(m, sec, name) = text,
           \A other : other # name => WrittenAt(m, sec, other) = WrittenAt(n, sec, other)
    PROVE  LET more == PutEntry(entries, name, text)
           IN  more \in Seq(EntryType) /\ EntriesHold(m, sec, more)
<1> DEFINE x == Entry(name, text)
           more == PutEntry(entries, name, text)
           here == EntriesOf(entries, name)
<1>1. x \in EntryType /\ x.name = name /\ x.text = text
  BY DEF Entry, EntryType
<1>2. /\ \A other : other # name => (Says(m, sec, other) <=> Says(n, sec, other))
      /\ \A other : other # name => Saying(m, sec, other) = Saying(n, sec, other)
  BY DEF Says, Saying
<1>3. Len(entries) \in Nat /\ DOMAIN entries = 1 .. Len(entries)
  OBVIOUS
<1>4. CASE name # Nameless /\ here # {}
  <2>1. PICK k \in 1 .. Len(entries) : entries[k].name = name
    BY <1>3, <1>4 DEF EntriesOf
  <2>2. \A j \in here : j = k
    BY <1>3, <1>4, <2>1 DEF EntriesOf, EntriesHold
  <2>3. FirstIn(here) = k
    <3>1. k \in here /\ k \in Nat
      BY <1>3, <2>1 DEF EntriesOf
    <3> HIDE DEF here
    <3>2. QED
      BY <2>2, <3>1, FirstOfOne
  <2>4. more = [entries EXCEPT ![k].text = text]
    BY <1>4, <2>3 DEF PutEntry
  <2>5. /\ more \in Seq(EntryType) /\ Len(more) = Len(entries)
        /\ more[k].name = name /\ more[k].text = text
        /\ \A j \in 1 .. Len(entries) : j # k => more[j] = entries[j]
    <3>1. entries[k] \in EntryType
      BY <2>1
    <3>2. [entries[k] EXCEPT !.text = text] \in EntryType
      BY <3>1 DEF EntryType
    <3>3. QED
      BY <2>1, <2>4, <3>1, <3>2 DEF EntryType
  <2> HIDE DEF more
  <2>6. \A j \in 1 .. Len(entries) : more[j].name = entries[j].name
    BY <2>1, <2>5
  <2>7. \A j \in 1 .. Len(entries) : j # k => entries[j].name # name
    BY <1>4, <2>1 DEF EntriesHold
  <2>8. EntriesHold(m, sec, more)
    <3>1. \A i, j \in 1 .. Len(more) :
             more[i].name = more[j].name /\ more[i].name # Nameless => i = j
      BY <2>5, <2>6 DEF EntriesHold
    <3>2. \A other : other # Nameless =>
             ((\E j \in 1 .. Len(more) : more[j].name = other) <=> Says(m, sec, other))
      BY <1>2, <2>1, <2>5, <2>6 DEF EntriesHold
    <3>3. \A j \in 1 .. Len(more) : more[j].name # Nameless =>
             more[j].text = Saying(m, sec, more[j].name)
      BY <1>2, <2>5, <2>7 DEF EntriesHold
    <3>4. QED
      BY <3>1, <3>2, <3>3 DEF EntriesHold
  <2>9. QED
    BY <2>5, <2>8 DEF more
<1>5. CASE name = Nameless \/ here = {}
  <2>1. more = Append(entries, x)
    BY <1>5 DEF PutEntry
  <2> HIDE DEF x
  <2>2. /\ more \in Seq(EntryType) /\ Len(more) = Len(entries) + 1
        /\ more[Len(entries) + 1] = x
        /\ \A j \in 1 .. Len(entries) : more[j] = entries[j]
    BY <1>1, <2>1
  <2> HIDE DEF more
  <2>3. name = Nameless \/ \A j \in 1 .. Len(entries) : entries[j].name # name
    BY <1>3, <1>5 DEF EntriesOf
  <2>4. \A j \in 1 .. Len(more) : j \in 1 .. Len(entries) \/ j = Len(entries) + 1
    BY <1>3, <2>2
  <2>5. EntriesHold(m, sec, more)
    <3>1. \A i, j \in 1 .. Len(more) :
             more[i].name = more[j].name /\ more[i].name # Nameless => i = j
      BY <1>1, <2>2, <2>3, <2>4 DEF EntriesHold
    <3>2. \A other : other # Nameless =>
             ((\E j \in 1 .. Len(more) : more[j].name = other)
                 <=> (other = name \/ \E j \in 1 .. Len(entries) : entries[j].name = other))
      BY <1>1, <1>3, <2>2, <2>4
    <3>3. \A other : other # Nameless =>
             ((\E j \in 1 .. Len(more) : more[j].name = other) <=> Says(m, sec, other))
      BY <1>2, <3>2 DEF EntriesHold
    <3>4. \A j \in 1 .. Len(more) : more[j].name # Nameless =>
             more[j].text = Saying(m, sec, more[j].name)
      BY <1>1, <1>2, <2>2, <2>3, <2>4 DEF EntriesHold
    <3>5. QED
      BY <3>1, <3>3, <3>4 DEF EntriesHold
  <2>6. QED
    BY <2>2, <2>5 DEF more
<1>6. QED
  BY <1>4, <1>5

\* A section that is there is given other entries.
LEMMA SectionReplaced ==
    ASSUME NEW n \in Nat, NEW m \in Nat, Shape(n, ini), NEW at \in 1 .. Len(ini),
           HeadersIn(m) \cup {NoSection} = HeadersIn(n) \cup {NoSection},
           NEW entries \in Seq(EntryType), EntriesHold(m, ini[at].name, entries),
           \A k \in 1 .. Len(ini) : k # at => EntriesHold(m, ini[k].name, ini[k].entries)
    PROVE  LET list == [ini EXCEPT ![at].entries = entries]
           IN  /\ Shape(m, list)
               /\ \A k \in 1 .. Len(list) : EntriesHold(m, list[k].name, list[k].entries)
<1> DEFINE list == [ini EXCEPT ![at].entries = entries]
<1>1. ini \in Seq(SectionType) /\ ini[at] \in SectionType
  BY DEF Shape
<1>2. /\ list \in Seq(SectionType) /\ Len(list) = Len(ini)
      /\ list[at].name = ini[at].name /\ list[at].entries = entries
      /\ \A k \in 1 .. Len(ini) : k # at => list[k] = ini[k]
  <2>1. [ini[at] EXCEPT !.entries = entries] \in SectionType
    BY <1>1 DEF SectionType
  <2>2. QED
    BY <1>1, <2>1 DEF SectionType
<1> HIDE DEF list
<1>3. \A k \in 1 .. Len(ini) : list[k].name = ini[k].name
  BY <1>2
<1>4. Shape(m, list)
  <2>1. Len(ini) >= 1 /\ 1 \in 1 .. Len(ini)
    BY DEF Shape
  <2>2. list[1].name = NoSection
    BY <1>3, <2>1 DEF Shape
  <2>3. \A sec : (\E k \in 1 .. Len(list) : list[k].name = sec)
                   <=> sec \in HeadersIn(m) \cup {NoSection}
    BY <1>2, <1>3 DEF Shape
  <2>4. \A i, j \in 1 .. Len(list) : list[i].name = list[j].name => i = j
    BY <1>2, <1>3 DEF Shape
  <2>5. QED
    BY <1>2, <2>1, <2>2, <2>3, <2>4 DEF Shape
<1>5. \A k \in 1 .. Len(list) : EntriesHold(m, list[k].name, list[k].entries)
  BY <1>2
<1>6. QED
  BY <1>4, <1>5 DEF list

\* The loops of setText come to the one section so called.
LEMMA SectionFound ==
    ASSUME NEW n, Shape(n, ini), NEW at \in 1 .. Len(ini)
    PROVE  SectionsOf(ini, ini[at].name) # {} /\ FirstIn(SectionsOf(ini, ini[at].name)) = at
<1> DEFINE S == SectionsOf(ini, ini[at].name)
<1>1. ini \in Seq(SectionType) /\ DOMAIN ini = 1 .. Len(ini)
  BY DEF Shape
<1>2. at \in S /\ at \in Nat /\ \A j \in S : j = at
  BY <1>1 DEF SectionsOf, Shape
<1> HIDE DEF S
<1>3. FirstIn(S) = at
  BY <1>2, FirstOfOne
<1>4. QED
  BY <1>2, <1>3 DEF S

LEMMA SectionMissing ==
    ASSUME NEW n, Shape(n, ini), NEW sec, sec \notin HeadersIn(n) \cup {NoSection}
    PROVE  SectionsOf(ini, sec) = {}
BY DEF Shape, SectionsOf

\* A new section says nothing so far.
LEMMA SectionAdded ==
    ASSUME NEW n \in Nat, NEW m \in Nat, Shape(n, ini), NEW sec \in SecNames,
           sec \notin HeadersIn(n) \cup {NoSection}, HeadersIn(m) = HeadersIn(n) \cup {sec},
           \A name : ~Says(m, sec, name),
           \A k \in 1 .. Len(ini) : EntriesHold(m, ini[k].name, ini[k].entries)
    PROVE  LET list == Append(ini, [name |-> sec, entries |-> <<>>])
           IN  /\ Shape(m, list)
               /\ \A k \in 1 .. Len(list) : EntriesHold(m, list[k].name, list[k].entries)
<1> DEFINE x == [name |-> sec, entries |-> <<>>]
           list == Append(ini, x)
<1>1. ini \in Seq(SectionType) /\ x \in SectionType /\ x.name = sec /\ x.entries = <<>>
  BY DEF Shape, SectionType
<1> HIDE DEF x
<1>2. /\ list \in Seq(SectionType) /\ Len(list) = Len(ini) + 1 /\ list[Len(ini) + 1] = x
      /\ \A k \in 1 .. Len(ini) : list[k] = ini[k]
      /\ Len(ini) \in Nat
  BY <1>1
<1> HIDE DEF list
<1>3. \A k \in 1 .. Len(list) : k \in 1 .. Len(ini) \/ k = Len(ini) + 1
  BY <1>2
<1>4. \A k \in 1 .. Len(ini) : ini[k].name # sec
  BY DEF Shape
<1>5. Shape(m, list)
  <2>1. Len(list) >= 1 /\ list[1].name = NoSection
    BY <1>2 DEF Shape
  <2>2. \A i, j \in 1 .. Len(list) : list[i].name = list[j].name => i = j
    BY <1>1, <1>2, <1>3, <1>4 DEF Shape
  <2>3. \A other : (\E k \in 1 .. Len(list) : list[k].name = other)
                      <=> (other = sec \/ \E k \in 1 .. Len(ini) : ini[k].name = other)
    BY <1>1, <1>2, <1>3
  <2>4. \A other : (\E k \in 1 .. Len(list) : list[k].name = other)
                      <=> other \in HeadersIn(m) \cup {NoSection}
    BY <2>3 DEF Shape
  <2>5. QED
    BY <1>2, <2>1, <2>2, <2>4 DEF Shape
<1>6. EntriesHold(m, sec, <<>>)
  BY DEF EntriesHold
<1>7. QED
  BY <1>1, <1>2, <1>3, <1>5, <1>6 DEF list, x

-----------------------------------------------------------------------------
\* One line of each kind keeps what Holds says.

LEMMA SectionsGoOn ==
    ASSUME NEW n \in Nat, \A k \in 0 .. n : SectionAt(k) \in HeadersIn(n) \cup {NoSection},
           HeadersIn(n) \subseteq HeadersIn(n + 1),
           SectionAt(n + 1) \in HeadersIn(n + 1) \cup {NoSection}
    PROVE  \A k \in 0 .. (n + 1) : SectionAt(k) \in HeadersIn(n + 1) \cup {NoSection}
<1>1. \A k \in 0 .. (n + 1) : k \in 0 .. n \/ k = n + 1
  OBVIOUS
<1>2. QED
  BY <1>1

LEMMA HeaderHolds ==
    ASSUME NEW n \in Nat, Len(file) \in Nat, n < Len(file), Holds(n, ini, section),
           file[n + 1].is = "header"
    PROVE  Holds(n + 1, openSection(file[n + 1].section), file[n + 1].section)
<1> DEFINE sec == file[n + 1].section
           here == SectionsOf(ini, sec)
           list == openSection(sec)
<1>1. /\ SectionAt(n + 1) = sec
      /\ HeadersIn(n + 1) = HeadersIn(n) \cup {sec}
      /\ \A other, name : WrittenAt(n + 1, other, name) = WrittenAt(n, other, name)
  BY HeaderGoesOn
<1>2. sec \in SecNames
  BY DEF SecNames
<1>3. \A k \in 1 .. Len(ini) : EntriesHold(n + 1, ini[k].name, ini[k].entries)
  BY <1>1, EntriesStay DEF Holds
<1>4. Shape(n, ini) /\ n + 1 \in Nat
  BY DEF Holds
<1>5. /\ Shape(n + 1, list)
      /\ \A k \in 1 .. Len(list) : EntriesHold(n + 1, list[k].name, list[k].entries)
  <2>1. CASE sec \in HeadersIn(n) \cup {NoSection}
    <3>1. PICK at \in 1 .. Len(ini) : ini[at].name = sec
      BY <1>4, <2>1 DEF Shape
    <3>2. here # {} /\ FirstIn(here) = at
      BY <1>4, <3>1, SectionFound
    <3> DEFINE more == Append(ini[at].entries, Entry(Nameless, Word("")))
    <3>3. list = [ini EXCEPT ![at].entries = more]
      BY <3>2 DEF openSection
    <3>4. ini[at].entries \in Seq(EntryType)
      <4>1. ini[at] \in SectionType
        BY <1>4 DEF Shape
      <4>2. QED
        BY <4>1 DEF SectionType
    <3>5. more \in Seq(EntryType) /\ EntriesHold(n + 1, ini[at].name, more)
      BY <1>3, <3>4, NamelessHolds
    <3>6. HeadersIn(n + 1) \cup {NoSection} = HeadersIn(n) \cup {NoSection}
      BY <1>1, <2>1
    <3> HIDE DEF more, list, here, sec
    <3>7. QED
      BY <1>3, <1>4, <3>3, <3>5, <3>6, SectionReplaced
  <2>2. CASE sec \notin HeadersIn(n) \cup {NoSection}
    <3>1. here = {}
      BY <1>4, <2>2, SectionMissing
    <3>2. list = Append(ini, [name |-> sec, entries |-> <<>>])
      BY <3>1 DEF openSection
    <3>3. \A name : ~Says(n + 1, sec, name)
      <4>1. \A k \in 1 .. n : SectionAt(k) # sec
        BY <2>2 DEF Holds
      <4>2. \A name : WrittenAt(n, sec, name) = {}
        BY <4>1 DEF WrittenAt
      <4>3. QED
        BY <1>1, <4>2 DEF Says
    <3> HIDE DEF list, here, sec
    <3>4. QED
      BY <1>1, <1>2, <1>3, <1>4, <2>2, <3>2, <3>3, SectionAdded
  <2>3. QED
    BY <2>1, <2>2
<1>6. \A k \in 0 .. (n + 1) : SectionAt(k) \in HeadersIn(n + 1) \cup {NoSection}
  BY <1>1, SectionsGoOn DEF Holds
<1>7. QED
  BY <1>1, <1>5, <1>6 DEF Holds

\* A setting and a comment change the entries of the section they stand in.
LEMMA EntriesChange ==
    ASSUME NEW n \in Nat, Holds(n, ini, section), file[n + 1].is # "header",
           NEW entries, NEW at \in 1 .. Len(ini), ini[at].name = section,
           entries \in Seq(EntryType), EntriesHold(n + 1, section, entries),
           \A sec, name : sec # section => WrittenAt(n + 1, sec, name) = WrittenAt(n, sec, name)
    PROVE  Holds(n + 1, [ini EXCEPT ![at].entries = entries], section)
<1> DEFINE list == [ini EXCEPT ![at].entries = entries]
<1>1. SectionAt(n + 1) = SectionAt(n) /\ HeadersIn(n + 1) = HeadersIn(n)
  BY OtherGoesOn
<1>2. Shape(n, ini) /\ n + 1 \in Nat
  BY DEF Holds
<1>3. \A k \in 1 .. Len(ini) : k # at => ini[k].name # section
  BY <1>2 DEF Shape
<1>4. \A k \in 1 .. Len(ini) : k # at => EntriesHold(n + 1, ini[k].name, ini[k].entries)
  <2> SUFFICES ASSUME NEW k \in 1 .. Len(ini), k # at
               PROVE  EntriesHold(n + 1, ini[k].name, ini[k].entries)
    OBVIOUS
  <2>1. \A name : WrittenAt(n + 1, ini[k].name, name) = WrittenAt(n, ini[k].name, name)
    BY <1>3
  <2>2. EntriesHold(n, ini[k].name, ini[k].entries)
    BY DEF Holds
  <2>3. QED
    BY <2>1, <2>2, EntriesStay
<1>5. /\ Shape(n + 1, list)
      /\ \A k \in 1 .. Len(list) : EntriesHold(n + 1, list[k].name, list[k].entries)
  <2> HIDE DEF list
  <2>1. list = [ini EXCEPT ![at].entries = entries]
    BY DEF list
  <2>2. QED
    BY <1>1, <1>2, <1>4, <2>1, SectionReplaced
<1>6. \A k \in 0 .. (n + 1) : SectionAt(k) \in HeadersIn(n + 1) \cup {NoSection}
  <2>1. SectionAt(n + 1) \in HeadersIn(n + 1) \cup {NoSection}
    BY <1>1 DEF Holds
  <2>2. QED
    BY <1>1, <2>1, SectionsGoOn DEF Holds
<1>7. QED
  BY <1>1, <1>5, <1>6 DEF Holds

LEMMA SectionIsThere ==
    ASSUME NEW n \in Nat, Holds(n, ini, section)
    PROVE  \E at \in 1 .. Len(ini) : /\ ini[at].name = section
                                     /\ ini[at].entries \in Seq(EntryType)
                                     /\ EntriesHold(n, section, ini[at].entries)
                                     /\ SectionsOf(ini, section) # {}
                                     /\ FirstIn(SectionsOf(ini, section)) = at
<1>1. Shape(n, ini) /\ section \in HeadersIn(n) \cup {NoSection}
  BY DEF Holds
<1>2. PICK at \in 1 .. Len(ini) : ini[at].name = section
  BY <1>1 DEF Shape
<1>3. SectionsOf(ini, section) # {} /\ FirstIn(SectionsOf(ini, section)) = at
  BY <1>1, <1>2, SectionFound
<1>4. ini[at].entries \in Seq(EntryType)
  <2>1. ini[at] \in SectionType
    BY <1>1 DEF Shape
  <2>2. QED
    BY <2>1 DEF SectionType
<1>5. EntriesHold(n, section, ini[at].entries)
  BY <1>2 DEF Holds
<1>6. QED
  BY <1>2, <1>3, <1>4, <1>5

LEMMA SettingHolds ==
    ASSUME NEW n \in Nat, Len(file) \in Nat, n < Len(file), Holds(n, ini, section),
           file[n + 1].is = "setting"
    PROVE  Holds(n + 1, setText(section, file[n + 1].name, file[n + 1].text), section)
<1> DEFINE name == file[n + 1].name
           text == file[n + 1].text
<1>1. name \in EntryNames /\ text \in Texts /\ section = SectionAt(n)
  <2>1. n + 1 \in 1 .. Len(file)
    OBVIOUS
  <2>2. QED
    BY <2>1 DEF EntryNames, Texts, Holds
<1>2. /\ Says(n + 1, section, name) /\ Saying(n + 1, section, name) = text
      /\ \A sec, other : sec # section \/ other # name =>
            WrittenAt(n + 1, sec, other) = WrittenAt(n, sec, other)
  BY <1>1, SettingGoesOn
<1>3. PICK at \in 1 .. Len(ini) : /\ ini[at].name = section
                                 /\ ini[at].entries \in Seq(EntryType)
                                 /\ EntriesHold(n, section, ini[at].entries)
                                 /\ SectionsOf(ini, section) # {}
                                 /\ FirstIn(SectionsOf(ini, section)) = at
  BY SectionIsThere
<1> DEFINE more == PutEntry(ini[at].entries, name, text)
<1>4. more \in Seq(EntryType) /\ EntriesHold(n + 1, section, more)
  <2> HIDE DEF name, text
  <2>1. QED
    BY <1>1, <1>2, <1>3, PutHolds
<1>5. setText(section, name, text) = [ini EXCEPT ![at].entries = more]
  BY <1>3 DEF setText
<1>6. QED
  <2> HIDE DEF more
  <2>1. QED
    BY <1>2, <1>3, <1>4, <1>5, EntriesChange

LEMMA CommentHolds ==
    ASSUME NEW n \in Nat, Holds(n, ini, section), file[n + 1].is = "comment"
    PROVE  Holds(n + 1, setText(section, Nameless, Word("")), section)
<1>1. \A sec, name : WrittenAt(n + 1, sec, name) = WrittenAt(n, sec, name)
  BY CommentGoesOn
<1>2. PICK at \in 1 .. Len(ini) : /\ ini[at].name = section
                                 /\ ini[at].entries \in Seq(EntryType)
                                 /\ EntriesHold(n, section, ini[at].entries)
                                 /\ SectionsOf(ini, section) # {}
                                 /\ FirstIn(SectionsOf(ini, section)) = at
  BY SectionIsThere
<1> DEFINE more == Append(ini[at].entries, Entry(Nameless, Word("")))
<1>3. EntriesHold(n + 1, section, ini[at].entries)
  BY <1>1, <1>2, EntriesStay
<1>4. more \in Seq(EntryType) /\ EntriesHold(n + 1, section, more)
  BY <1>2, <1>3, NamelessHolds
<1>5. setText(section, Nameless, Word("")) = [ini EXCEPT ![at].entries = more]
  <2>1. PutEntry(ini[at].entries, Nameless, Word("")) = more
    BY DEF PutEntry
  <2>2. QED
    BY <1>2, <2>1 DEF setText
<1>6. file[n + 1].is # "header"
  OBVIOUS
<1>7. QED
  <2> HIDE DEF more
  <2>1. Holds(n + 1, [ini EXCEPT ![at].entries = more], section)
    BY <1>1, <1>2, <1>4, <1>6, EntriesChange
  <2>2. QED
    BY <1>5, <2>1

-----------------------------------------------------------------------------
LEMMA InitIInv == Init => IInv
<1> SUFFICES ASSUME Init, file # NoFile PROVE IInv
  BY DEF IInv
<1>1. Len(file) \in Nat /\ place = 1 /\ place - 1 = 0 /\ place \in 1 .. (Len(file) + 1)
  BY ConfigurationAssumption DEF Init
<1>2. HeadersUpTo(0) = {}
  BY DEF HeadersUpTo
<1>3. SectionAt(0) = NoSection /\ HeadersIn(0) = {}
  BY <1>2 DEF SectionAt, HeadersIn
<1> DEFINE x == [name |-> NoSection, entries |-> <<>>]
<1>4. x \in SectionType /\ x.name = NoSection /\ x.entries = <<>>
  BY DEF SectionType, SecNames
<1>5. ini = <<x>> /\ section = NoSection
  BY DEF Init
<1> HIDE DEF x
<1>6. /\ ini \in Seq(SectionType) /\ Len(ini) = 1 /\ ini[1] = x
      /\ \A k \in 1 .. Len(ini) : k = 1
  BY <1>4, <1>5
<1>7. Shape(0, ini)
  BY <1>3, <1>4, <1>6 DEF Shape
<1>8. EntriesHold(0, NoSection, <<>>)
  <2>1. \A name : ~Says(0, NoSection, name)
    BY DEF Says, WrittenAt
  <2>2. QED
    BY <2>1 DEF EntriesHold
<1>9. Holds(0, ini, section)
  BY <1>3, <1>4, <1>5, <1>6, <1>7, <1>8 DEF Holds
<1>10. QED
  BY <1>1, <1>9 DEF IInv

\* The lines stay, and what they say.
LEMMA LinesStay ==
    ASSUME file' = file
    PROVE  /\ \A n : SectionAt(n)' = SectionAt(n) /\ HeadersIn(n)' = HeadersIn(n)
           /\ \A n, sec, name : /\ Says(n, sec, name)' <=> Says(n, sec, name)
                                /\ Saying(n, sec, name)' = Saying(n, sec, name)
<1>1. \A n : HeadersUpTo(n)' = HeadersUpTo(n)
  BY DEF HeadersUpTo
<1>2. \A n : SectionAt(n)' = SectionAt(n) /\ HeadersIn(n)' = HeadersIn(n)
  BY <1>1 DEF SectionAt, HeadersIn
<1>3. \A n, sec, name : WrittenAt(n, sec, name)' = WrittenAt(n, sec, name)
  BY <1>2 DEF WrittenAt
<1>4. QED
  BY <1>2, <1>3 DEF Says, Saying

\* What holds of the new lists holds after the step.
LEMMA FileStays ==
    ASSUME NEW m, file' = file, Holds(m, ini', section')
    PROVE  Holds(m, ini, section)'
<1>1. \A n : SectionAt(n)' = SectionAt(n) /\ HeadersIn(n)' = HeadersIn(n)
  BY LinesStay
<1>2. \A n, sec, name : /\ Says(n, sec, name)' <=> Says(n, sec, name)
                        /\ Saying(n, sec, name)' = Saying(n, sec, name)
  BY LinesStay
<1>3. SectionType' = SectionType
  BY DEF SectionType, SecNames, EntryType, EntryNames, Texts
<1>4. Shape(m, ini)'
  BY <1>1, <1>3 DEF Holds, Shape
<1>5. \A k \in 1 .. Len(ini') : EntriesHold(m, ini[k].name, ini[k].entries)'
  BY <1>2 DEF Holds, EntriesHold
<1>6. QED
  BY <1>1, <1>4, <1>5 DEF Holds

\* Everything but ReadLine leaves the lists and the place alone.
LEMMA NextIInv == IInv /\ [Next]_vars => IInv'
<1> SUFFICES ASSUME IInv, [Next]_vars PROVE IInv'
  OBVIOUS
<1>1. ASSUME UNCHANGED <<file, place, section, ini>> PROVE IInv'
  <2> SUFFICES ASSUME file # NoFile PROVE IInv'
    BY <1>1 DEF IInv
  <2>1. /\ Len(file) \in Nat /\ place \in 1 .. (Len(file) + 1)
        /\ Holds(place - 1, ini, section)
    BY DEF IInv
  <2>2. PICK n \in Nat : n = place - 1
    BY <2>1
  <2>3. Holds(n, ini', section')
    BY <1>1, <2>1, <2>2
  <2>4. Holds(n, ini, section)'
    BY <1>1, <2>3, FileStays
  <2>5. place' - 1 = n
    BY <1>1, <2>2
  <2>6. QED
    BY <1>1, <2>1, <2>4, <2>5 DEF IInv
<1>2. CASE ReadLine
  <2>1. /\ file # NoFile /\ Len(file) \in Nat /\ place - 1 \in Nat /\ place - 1 < Len(file)
        /\ Holds(place - 1, ini, section)
    <3>1. file # NoFile /\ place <= Len(file)
      BY <1>2 DEF ReadLine
    <3>2. QED
      BY <3>1 DEF IInv
  <2>2. PICK n \in Nat : n = place - 1
    BY <2>1
  <2>3. place = n + 1 /\ n < Len(file) /\ Holds(n, ini, section)
    BY <2>1, <2>2 DEF IInv
  <2>4. file' = file /\ place' - 1 = n + 1 /\ place' \in 1 .. (Len(file) + 1)
    <3>1. file' = file /\ place' = place + 1
      BY <1>2 DEF ReadLine
    <3>2. QED
      BY <2>1, <2>3, <3>1
  <2>5. Holds(n + 1, ini', section')
    <3>1. CASE /\ file[place].is = "header" /\ section' = file[place].section
               /\ ini' = openSection(file[place].section)
      BY <2>1, <2>3, <3>1, HeaderHolds
    <3>2. CASE /\ file[place].is = "setting" /\ section' = section
               /\ ini' = setText(section, file[place].name, file[place].text)
      BY <2>1, <2>3, <3>2, SettingHolds
    <3>3. CASE /\ file[place].is = "comment" /\ section' = section
               /\ ini' = setText(section, Nameless, Word(""))
      BY <2>1, <2>3, <3>3, CommentHolds
    <3>4. QED
      BY <1>2, <3>1, <3>2, <3>3 DEF ReadLine
  <2>6. Holds(n + 1, ini, section)'
    BY <2>4, <2>5, FileStays
  <2>7. QED
    BY <2>1, <2>4, <2>6 DEF IInv
<1>3. CASE Unreadable \/ EndOfFile \/ ParseSection
  BY <1>1, <1>3 DEF Unreadable, EndOfFile, ParseSection, readVars
<1>4. CASE RefuseGates \/ CreateServers \/ CreateClient \/ CreateTtyGate
  BY <1>1, <1>4 DEF RefuseGates, CreateServers, CreateClient, CreateTtyGate, readVars
<1>5. CASE UNCHANGED vars
  BY <1>1, <1>5 DEF vars, readVars
<1>6. QED
  BY <1>2, <1>3, <1>4, <1>5 DEF Next

LEMMA ListsRead ==
    ASSUME IInv, file # NoFile, NEW sec
    PROVE  /\ sec # NoSection => (findSection(sec) <=> sec \in HeadersIn(place - 1))
           /\ \A name : name # Nameless =>
                 /\ HasName(sec, name) <=> Says(place - 1, sec, name)
                 /\ HasName(sec, name) => TextOf(sec, name) = Saying(place - 1, sec, name)
<1> DEFINE n == place - 1
<1>1. n \in Nat /\ Holds(n, ini, section) /\ Shape(n, ini)
  BY DEF IInv, Holds
<1> HIDE DEF n
<1>2. ini \in Seq(SectionType) /\ DOMAIN ini = 1 .. Len(ini) /\ Len(ini) \in Nat
  BY <1>1 DEF Shape
<1>3. ASSUME sec # NoSection PROVE findSection(sec) <=> sec \in HeadersIn(n)
  <2>1. (\E k \in 1 .. Len(ini) : ini[k].name = sec) <=> sec \in HeadersIn(n)
    BY <1>1, <1>3 DEF Shape
  <2>2. \A k \in 1 .. Len(ini) : ini[k].name = sec => k > 1
    BY <1>1, <1>2, <1>3 DEF Shape
  <2>3. QED
    BY <1>2, <2>1, <2>2 DEF findSection, SectionsOf
<1>4. ASSUME NEW name, name # Nameless
      PROVE  /\ HasName(sec, name) <=> Says(n, sec, name)
             /\ HasName(sec, name) => TextOf(sec, name) = Saying(n, sec, name)
  <2>1. name # Nameless
    BY <1>4
  <2>2. CASE sec \in HeadersIn(n) \cup {NoSection}
    <3>1. PICK at \in 1 .. Len(ini) : ini[at].name = sec
      BY <1>1, <2>2 DEF Shape
    <3>2. SectionsOf(ini, sec) # {} /\ FirstIn(SectionsOf(ini, sec)) = at
      BY <1>1, <3>1, SectionFound
    <3> DEFINE entries == ini[at].entries
    <3>3. entries \in Seq(EntryType) /\ DOMAIN entries = 1 .. Len(entries) /\ Len(entries) \in Nat
      <4>1. ini[at] \in SectionType
        BY <1>2
      <4>2. QED
        BY <4>1 DEF SectionType
    <3>4. EntriesHold(n, sec, entries)
      BY <1>1, <3>1 DEF Holds
    <3> HIDE DEF entries
    <3>5. HasName(sec, name) <=> \E j \in 1 .. Len(entries) : entries[j].name = name
      BY <3>2, <3>3 DEF HasName, EntriesOf, entries
    <3>6. HasName(sec, name) <=> Says(n, sec, name)
      BY <2>1, <3>4, <3>5 DEF EntriesHold
    <3>7. ASSUME HasName(sec, name) PROVE TextOf(sec, name) = Saying(n, sec, name)
      <4>1. PICK j \in 1 .. Len(entries) : entries[j].name = name
        BY <3>5, <3>7
      <4>2. \A i \in EntriesOf(entries, name) : i = j
        BY <2>1, <3>3, <3>4, <4>1 DEF EntriesOf, EntriesHold
      <4>3. j \in EntriesOf(entries, name) /\ j \in Nat
        BY <3>3, <4>1 DEF EntriesOf
      <4>4. FirstIn(EntriesOf(entries, name)) = j
        BY <4>2, <4>3, FirstOfOne
      <4>5. TextOf(sec, name) = entries[j].text
        BY <3>2, <4>4 DEF TextOf, entries
      <4>6. QED
        BY <2>1, <3>4, <4>1, <4>5 DEF EntriesHold
    <3>8. QED
      BY <3>6, <3>7
  <2>3. CASE sec \notin HeadersIn(n) \cup {NoSection}
    <3>1. SectionsOf(ini, sec) = {}
      BY <1>1, <2>3, SectionMissing
    <3>2. \A k \in 1 .. n : SectionAt(k) # sec
      BY <1>1, <2>3 DEF Holds
    <3>3. WrittenAt(n, sec, name) = {}
      BY <3>2 DEF WrittenAt
    <3>4. QED
      BY <3>1, <3>3 DEF HasName, Says
  <2>4. QED
    BY <2>2, <2>3
<1>5. QED
  BY <1>3, <1>4 DEF n

LEMMA IInvReads == IInv => ReadAsWritten
<1>1. \A name \in NamesGiven : name # Nameless
  BY DEF NamesGiven
<1>2. QED
  BY <1>1, ListsRead DEF ReadAsWritten

\* ReadAsWritten for every file: the parser finds a section exactly if the file has its
\* header, and under a name the text written last, wherever in the file, whatever stands
\* between and however often header and name have come before.
THEOREM ReadsTheLastText == Safety => []ReadAsWritten
<1>1. QED
  BY InitIInv, NextIInv, IInvReads, PTL DEF Safety

-----------------------------------------------------------------------------
\* The parser and what is built of it, once the file has been read.

\* The kinds of sections that have been looked for in each phase.
Past == [read |-> {}, ttyg |-> {}, common |-> {"ttyg"}, gate |-> {"ttyg", "common"},
         device |-> {"ttyg", "common", "gate"}, param |-> {"ttyg", "common", "gate", "device"},
         create |-> DOMAIN Names]

\* What the file gives for a section: the texts written last, converted.
Given(kind, i) ==
    [id |-> i,
     val |-> [name \in DOMAIN Names[kind] |-> IF Tells(kind, i, name) THEN Asked(kind, i, name) ELSE 0]]
GivenUpTo(kind, n) == [k \in 1 .. n |-> Given(kind, k - 1)]
Count(kind) == Len(parsed[kind])

\* The parameters taken so far are those of the sections from 0 on, all of them as the
\* file has them.
Counted(kind) ==
    /\ Count(kind) \in 0 .. Limit[kind]
    /\ parsed[kind] = GivenUpTo(kind, Count(kind))
    /\ \A i \in 0 .. (Count(kind) - 1) : <<kind, i>> \in HeadersIn(Len(file)) /\ TellsAll(kind, i)

\* The loop has ended because there may be no more, or the next is not there.
Finished(kind) ==
    Count(kind) = Limit[kind] \/ <<kind, Count(kind)>> \notin HeadersIn(Len(file))

Looked ==
    \A kind \in DOMAIN Names :
        /\ Counted(kind)
        /\ kind \in Past[phase] => Finished(kind)
        /\ kind \notin Past[phase] \cup {phase} => Count(kind) = 0

\* The k-th parameter with its device: is it the gate's, and the item made of it.
Mine(gate, k) == DeviceOf(parsed.param[k]).val.gate_id = gate.id
ItemAt(k) == [device |-> DeviceOf(parsed.param[k]), param |-> parsed.param[k]]
ItemType == {ItemAt(k) : k \in Nat}

\* What the first n parameters give: every one of them that is the gate's, and no other,
\* in their order.
IsPolled(gate, n, list) ==
    /\ list \in Seq(ItemType)
    /\ \A j \in 1 .. Len(list) : /\ \E k \in 1 .. n : Mine(gate, k) /\ list[j] = ItemAt(k)
                                 /\ list[j].param.id < n
    /\ \A k \in 1 .. n : Mine(gate, k) => \E j \in 1 .. Len(list) : list[j] = ItemAt(k)
    /\ \A i, j \in 1 .. Len(list) : i < j => list[i].param.id < list[j].param.id

StorageType == [gate : {Given("gate", i) : i \in Nat}, items : Seq(ItemType)]

\* The gates built so far are the first n of the file, and the devices of all parameters
\* are there.
BuiltUpTo(n) ==
    /\ storages \in Seq(StorageType) /\ Len(storages) = n
    /\ \A k \in 1 .. n : /\ storages[k].gate = parsed.gate[k]
                         /\ IsPolled(parsed.gate[k], Count("param"), storages[k].items)
                         /\ storages[k].items # <<>>
                         /\ \A p \in DOMAIN parsed.param : DeviceKnown(parsed.param[p])

Built ==
    /\ index \in 0 .. Count("gate")
    /\ BuiltUpTo(index)
    /\ mode = "run" /\ program = "client" => index = Count("gate")
    /\ mode = "init" => index < Count("gate") \/ Count("gate") = 0

\* The inductive invariant of the parser, beside the one of the lists.
PInv ==
    /\ program \in {"client", "emulation", "ttyg"}
    /\ file = NoFile \/ file \in Seq(Line)
    /\ phase \in DOMAIN Past
    /\ parsed = [kind \in DOMAIN Names |-> parsed[kind]]
    /\ phase = "read" => index = 0 /\ \A kind \in DOMAIN Names : parsed[kind] = <<>>
    /\ phase # "read" => file # NoFile /\ place = Len(file) + 1 /\ Looked
    /\ phase \in DOMAIN Names => index = Count(phase) /\ index < Limit[phase]
    /\ phase # "create" => storages = <<>> /\ mode # "run"
    /\ phase = "create" => Built
    /\ mode \in {"error", "exit"} => file = NoFile \/ ~Startable

LEMMA KindsAre ==
    /\ DOMAIN Names = {"ttyg", "common", "gate", "device", "param"}
    /\ DOMAIN Past = DOMAIN Names \cup {"read", "create"}
    /\ \A kind \in DOMAIN Names : Past[kind] \subseteq DOMAIN Names /\ kind \notin Past[kind]
    /\ Past["read"] = {} /\ Past["ttyg"] = {} /\ Past["create"] = DOMAIN Names
BY DEF Names, Past

LEMMA AfterIs ==
    ASSUME NEW kind \in DOMAIN Names
    PROVE  /\ After(kind) \in DOMAIN Past \ {"read"}
           /\ After(kind) # kind
           /\ Past[After(kind)] = Past[kind] \cup {kind}
           /\ After(kind) \in DOMAIN Names => After(kind) \notin Past[kind] \cup {kind}
<1>1. /\ After("ttyg") = "common" /\ After("common") = "gate" /\ After("gate") = "device"
      /\ After("device") = "param" /\ After("param") = "create"
  <2>1. DOMAIN Kinds = 1 .. 5
    BY DEF Kinds
  <2> DEFINE At(k) == CHOOSE j \in DOMAIN Kinds : Kinds[j] = k
  <2>2. At("ttyg") = 1
    BY <2>1 DEF Kinds
  <2>3. At("common") = 2
    BY <2>1 DEF Kinds
  <2>4. At("gate") = 3
    BY <2>1 DEF Kinds
  <2>5. At("device") = 4
    BY <2>1 DEF Kinds
  <2>6. QED
    BY <2>2, <2>3, <2>4, <2>5 DEF After, Kinds
<1>2. QED
  BY <1>1, KindsAre DEF Past

LEMMA LimitIs ==
    ASSUME NEW kind \in DOMAIN Names
    PROVE  Limit[kind] \in Nat \ {0}
BY ConfigurationAssumption, KindsAre DEF Limit

\* No name of the parser is the one of comments, and none of its sections the nameless.
LEMMA NamesAre ==
    ASSUME NEW kind \in DOMAIN Names
    PROVE  /\ \A name \in DOMAIN Names[kind] : name # Nameless
           /\ \A i : <<kind, i>> # NoSection
<1>1. CASE kind = "ttyg"
  BY <1>1 DEF Names, TtygNames, Nameless, NoSection
<1>2. CASE kind = "common"
  BY <1>2 DEF Names, CommonNames, Nameless, NoSection
<1>3. CASE kind = "gate"
  BY <1>3 DEF Names, GateNames, Nameless, NoSection
<1>4. CASE kind = "device"
  BY <1>4 DEF Names, DeviceNames, Nameless, NoSection
<1>5. CASE kind = "param"
  BY <1>5 DEF Names, ParamNames, Nameless, NoSection
<1>6. QED
  BY <1>1, <1>2, <1>3, <1>4, <1>5, KindsAre

LEMMA GateNamesAre ==
    /\ DOMAIN Names["gate"] = {"gate_type", "gate_addr", "addr", "request_periodicity",
                               "request_timeout"}
    /\ Names["gate"]["gate_type"] = "gateType"
BY DEF Names, GateNames

\* Once the whole file is read, the parser finds what the file says.
LEMMA ParserFinds ==
    ASSUME IInv, file # NoFile, place = Len(file) + 1, NEW kind \in DOMAIN Names, NEW i
    PROVE  /\ findSection(<<kind, i>>) <=> <<kind, i>> \in HeadersIn(Len(file))
           /\ \A name \in DOMAIN Names[kind] :
                 /\ HasName(<<kind, i>>, name) <=> Tells(kind, i, name)
                 /\ Tells(kind, i, name) => TextOf(<<kind, i>>, name) = Telling(kind, i, name)
<1>1. place - 1 = Len(file)
  BY DEF IInv
<1>2. <<kind, i>> # NoSection /\ \A name \in DOMAIN Names[kind] : name # Nameless
  BY NamesAre
<1>3. QED
  BY <1>1, <1>2, ListsRead DEF Tells, Telling

LEMMA ParsesWhatIsTold ==
    ASSUME IInv, file # NoFile, place = Len(file) + 1, NEW kind \in DOMAIN Names, NEW i
    PROVE  Parses(kind, <<kind, i>>) <=> TellsAll(kind, i)
<1> DEFINE sec == <<kind, i>>
           class(name) == Names[kind][name]
<1>1. \A name \in DOMAIN Names[kind] :
         /\ HasName(sec, name) <=> Tells(kind, i, name)
         /\ Tells(kind, i, name) => TextOf(sec, name) = Telling(kind, i, name)
  BY ParserFinds
<1> HIDE DEF sec
<1>2. CASE kind # "gate"
  <2>1. \A name : ~Optional(kind, name, TextOf(sec, "gate_type"))
    BY <1>2 DEF Optional
  <2>2. \A name \in DOMAIN Names[kind] :
           parseName(kind, sec, name) <=>
              IF Tells(kind, i, name)
              THEN Accepts(Names[kind][name], Telling(kind, i, name))
              ELSE kind = "gate" /\ name = "addr" /\ Telling(kind, i, "gate_type") = Word("m4")
    BY <1>1, <1>2, <2>1 DEF parseName
  <2>3. QED
    BY <2>2 DEF Parses, TellsAll, sec
<1>3. CASE kind = "gate"
  <2> DEFINE type == Telling(kind, i, "gate_type")
             Typed == Tells(kind, i, "gate_type") /\ Accepts("gateType", type)
  <2>1. "gate_type" \in DOMAIN Names[kind] /\ Names[kind]["gate_type"] = "gateType"
    BY <1>3, GateNamesAre
  <2>2. ASSUME Typed PROVE TextOf(sec, "gate_type") = type /\ (type = Word("m4") <=> type # Word("sps"))
    <3>1. type \in GateTypes
      BY <2>2 DEF Accepts, Choice
    <3>2. Word("m4") # Word("sps")
      BY DEF Word
    <3>3. QED
      BY <1>1, <2>1, <2>2, <3>1, <3>2 DEF GateTypes
  <2>3. ASSUME Typed
        PROVE  \A name \in DOMAIN Names[kind] :
                 parseName(kind, sec, name) <=>
                    IF Tells(kind, i, name)
                    THEN Accepts(Names[kind][name], Telling(kind, i, name))
                    ELSE kind = "gate" /\ name = "addr" /\ type = Word("m4")
    BY <1>1, <1>3, <2>2, <2>3 DEF parseName, Optional
  <2>4. Parses(kind, sec) => Typed
    <3>1. Parses(kind, sec) => parseName(kind, sec, "gate_type")
      BY <2>1 DEF Parses
    <3>2. ~Optional(kind, "gate_type", TextOf(sec, "gate_type"))
      BY DEF Optional
    <3>3. QED
      BY <1>1, <2>1, <3>1, <3>2 DEF parseName
  <2>5. TellsAll(kind, i) => Typed
    BY <2>1 DEF TellsAll
  <2>6. QED
    BY <2>3, <2>4, <2>5 DEF Parses, TellsAll, sec
<1>4. QED
  BY <1>2, <1>3

LEMMA ParametersAreGiven ==
    ASSUME IInv, file # NoFile, place = Len(file) + 1, NEW kind \in DOMAIN Names, NEW i
    PROVE  Parameters(kind, <<kind, i>>) = Given(kind, i)
<1>1. \A name \in DOMAIN Names[kind] :
         /\ HasName(<<kind, i>>, name) <=> Tells(kind, i, name)
         /\ Tells(kind, i, name) => TextOf(<<kind, i>>, name) = Telling(kind, i, name)
  BY ParserFinds
<1>2. [name \in DOMAIN Names[kind] |->
          IF HasName(<<kind, i>>, name) THEN Value(Names[kind][name], TextOf(<<kind, i>>, name)) ELSE 0]
      = [name \in DOMAIN Names[kind] |-> IF Tells(kind, i, name) THEN Asked(kind, i, name) ELSE 0]
  BY <1>1 DEF Asked
<1>3. QED
  BY <1>2 DEF Parameters, Given

-----------------------------------------------------------------------------
\* Induction over the places of a list, with sets.

LEMMA LeastExists ==
    ASSUME NEW T, T \subseteq Nat, T # {}
    PROVE  \E x \in T : \A y \in T : x <= y
<1>1. PICK x \in T : \A y \in T : <<y, x>> \notin OpToRel(<, Nat)
  BY NatLessThanWellFounded, WFMin
<1>2. ASSUME NEW y \in T PROVE x <= y
  <2>1. x \in Nat /\ y \in Nat
    BY <1>1
  <2>2. ~(y < x)
    BY <1>1, <2>1 DEF OpToRel
  <2>3. QED
    BY <2>1, <2>2
<1>3. QED
  BY <1>2

LEMMA SetInduction ==
    ASSUME NEW S, 0 \in S, \A n \in Nat : n \in S => n + 1 \in S
    PROVE  Nat \subseteq S
<1> SUFFICES ASSUME Nat \ S # {} PROVE FALSE
  OBVIOUS
<1>1. PICK x \in Nat \ S : \A y \in Nat \ S : x <= y
  BY LeastExists
<1>2. x \in Nat /\ x # 0
  BY <1>1
<1>3. x - 1 \in Nat /\ x = (x - 1) + 1 /\ ~(x <= x - 1)
  BY <1>2
<1>4. x - 1 \notin S
  BY <1>1, <1>3
<1>5. QED
  BY <1>1, <1>3, <1>4

\* The last of some places is one of them.
LEMMA LastIsIn ==
    ASSUME NEW n \in Nat, NEW S, S \subseteq 1 .. n, S # {}
    PROVE  LastIn(S) \in S
<1> DEFINE T == {m \in Nat : \E k \in S : m = n - k}
<1>1. \A k \in S : n - k \in T
  OBVIOUS
<1>2. T # {}
  BY <1>1
<1>3. PICK x \in T : \A y \in T : x <= y
  <2> HIDE DEF T
  <2>1. T \subseteq Nat
    BY DEF T
  <2>2. QED
    BY <1>2, <2>1, LeastExists
<1>4. PICK k \in S : x = n - k
  BY <1>3
<1>5. \A j \in S : k >= j
  <2> SUFFICES ASSUME NEW j \in S PROVE k >= j
    OBVIOUS
  <2>1. n - k <= n - j
    BY <1>1, <1>3, <1>4
  <2>2. k \in 1 .. n /\ j \in 1 .. n
    OBVIOUS
  <2>3. QED
    BY <2>1, <2>2
<1>6. QED
  BY <1>4, <1>5 DEF LastIn

\* The loop of GateStorage::configure over the parameters.
Places(gate) == {k \in 1 .. Len(parsed.param) : Mine(gate, k)}

IsKept(gate, n, f) ==
    f = [k \in 0 .. n |-> IF k = 0 THEN <<>>
                          ELSE IF k \in Places(gate) THEN Append(f[k - 1], ItemAt(k))
                          ELSE f[k - 1]]

LEMMA KeptGrows ==
    ASSUME NEW gate, NEW n \in Nat, NEW f, IsKept(gate, n, f)
    PROVE  \E g : IsKept(gate, n + 1, g)
<1> DEFINE last == IF n + 1 \in Places(gate) THEN Append(f[n], ItemAt(n + 1)) ELSE f[n]
           g == [k \in 0 .. (n + 1) |-> IF k = n + 1 THEN last ELSE f[k]]
           h == [k \in 0 .. (n + 1) |-> IF k = 0 THEN <<>>
                                        ELSE IF k \in Places(gate) THEN Append(g[k - 1], ItemAt(k))
                                        ELSE g[k - 1]]
<1>1. \A k \in 0 .. (n + 1) : k = n + 1 \/ k \in 0 .. n
  OBVIOUS
<1>2. \A k \in 0 .. n : k \in 0 .. (n + 1) /\ k # n + 1
  OBVIOUS
<1>3. \A k \in 0 .. n : g[k] = f[k]
  BY <1>2
<1>4. g[n + 1] = last
  OBVIOUS
<1> HIDE DEF g
<1>5. h[n + 1] = last
  <2>1. n + 1 \in 0 .. (n + 1) /\ n + 1 # 0 /\ (n + 1) - 1 = n /\ n \in 0 .. n
    OBVIOUS
  <2>2. g[(n + 1) - 1] = f[n]
    BY <1>3, <2>1
  <2>3. QED
    BY <2>1, <2>2
<1>6. \A k \in 0 .. n : h[k] = f[k]
  <2> SUFFICES ASSUME NEW k \in 0 .. n PROVE h[k] = f[k]
    OBVIOUS
  <2>1. f[k] = IF k = 0 THEN <<>>
               ELSE IF k \in Places(gate) THEN Append(f[k - 1], ItemAt(k)) ELSE f[k - 1]
    BY DEF IsKept
  <2>2. h[k] = IF k = 0 THEN <<>>
               ELSE IF k \in Places(gate) THEN Append(g[k - 1], ItemAt(k)) ELSE g[k - 1]
    BY <1>2
  <2>3. k # 0 => k - 1 \in 0 .. n
    OBVIOUS
  <2>4. k # 0 => g[k - 1] = f[k - 1]
    BY <1>3, <2>3
  <2> HIDE DEF h
  <2>5. QED
    BY <2>1, <2>2, <2>4
<1>7. g = h
  <2>1. \A k \in 0 .. (n + 1) : g[k] = h[k]
    <3> HIDE DEF h, last
    <3>1. QED
      BY <1>1, <1>3, <1>4, <1>5, <1>6
  <2>2. g = [k \in 0 .. (n + 1) |-> g[k]] /\ h = [k \in 0 .. (n + 1) |-> h[k]]
    BY DEF g
  <2> HIDE DEF h
  <2>3. QED
    BY <2>1, <2>2
<1>8. QED
  BY <1>7 DEF IsKept

LEMMA KeptExists ==
    ASSUME NEW gate, NEW n \in Nat
    PROVE  \E f : IsKept(gate, n, f)
<1> DEFINE S == {m \in Nat : \E f : IsKept(gate, m, f)}
<1>1. 0 \in S
  <2>1. IsKept(gate, 0, [k \in 0 .. 0 |-> <<>>])
    BY DEF IsKept
  <2>2. QED
    BY <2>1
<1>2. \A m \in Nat : m \in S => m + 1 \in S
  BY KeptGrows
<1> HIDE DEF S
<1>3. Nat \subseteq S
  BY <1>1, <1>2, SetInduction
<1>4. QED
  BY <1>3 DEF S

LEMMA ItemPolled ==
    ASSUME NEW gate, NEW n \in Nat, NEW list, IsPolled(gate, n, list),
           parsed.param[n + 1].id = n, Mine(gate, n + 1),
           \A j \in 1 .. Len(list) : list[j].param.id \in Nat
    PROVE  IsPolled(gate, n + 1, Append(list, ItemAt(n + 1)))
<1> DEFINE more == Append(list, ItemAt(n + 1))
<1>1. list \in Seq(ItemType) /\ ItemAt(n + 1) \in ItemType
  BY DEF IsPolled, ItemType
<1>2. ItemAt(n + 1).param.id = n
  BY DEF ItemAt
<1>3. /\ more \in Seq(ItemType) /\ Len(more) = Len(list) + 1 /\ Len(list) \in Nat
      /\ more[Len(list) + 1] = ItemAt(n + 1)
      /\ \A j \in 1 .. Len(list) : more[j] = list[j]
  BY <1>1
<1> HIDE DEF more
<1>4. \A j \in 1 .. Len(more) : j \in 1 .. Len(list) \/ j = Len(list) + 1
  BY <1>3
<1>5. \A j \in 1 .. Len(list) : j \in 1 .. Len(more)
  BY <1>3
<1>6. \A k \in 1 .. n : k \in 1 .. (n + 1)
  OBVIOUS
<1>7. ASSUME NEW j \in 1 .. Len(more)
      PROVE  /\ \E k \in 1 .. (n + 1) : Mine(gate, k) /\ more[j] = ItemAt(k)
             /\ more[j].param.id < n + 1
  <2>1. CASE j \in 1 .. Len(list)
    <3>1. more[j] = list[j] /\ list[j].param.id < n /\ list[j].param.id \in Nat
      BY <1>3, <2>1 DEF IsPolled
    <3>2. \E k \in 1 .. n : Mine(gate, k) /\ list[j] = ItemAt(k)
      BY <2>1 DEF IsPolled
    <3>3. QED
      BY <1>6, <3>1, <3>2
  <2>2. CASE j = Len(list) + 1
    BY <1>2, <1>3, <2>2
  <2>3. QED
    BY <1>4, <2>1, <2>2
<1>8. ASSUME NEW k \in 1 .. (n + 1), Mine(gate, k)
      PROVE  \E j \in 1 .. Len(more) : more[j] = ItemAt(k)
  <2>1. CASE k = n + 1
    BY <1>3, <2>1
  <2>2. CASE k \in 1 .. n
    <3>1. PICK j \in 1 .. Len(list) : list[j] = ItemAt(k)
      BY <1>8, <2>2 DEF IsPolled
    <3>2. QED
      BY <1>3, <1>5, <3>1
  <2>3. QED
    BY <2>1, <2>2
<1>9. ASSUME NEW i \in 1 .. Len(more), NEW j \in 1 .. Len(more), i < j
      PROVE  more[i].param.id < more[j].param.id
  <2>1. i \in 1 .. Len(list) /\ more[i] = list[i]
    BY <1>3, <1>9
  <2>2. CASE j \in 1 .. Len(list)
    BY <1>3, <1>9, <2>1, <2>2 DEF IsPolled
  <2>3. CASE j = Len(list) + 1
    BY <1>2, <1>3, <2>1, <2>3 DEF IsPolled
  <2>4. QED
    BY <1>4, <2>2, <2>3
<1>10. QED
  BY <1>3, <1>7, <1>8, <1>9 DEF IsPolled, more

LEMMA ItemSkipped ==
    ASSUME NEW gate, NEW n \in Nat, NEW list, IsPolled(gate, n, list), ~Mine(gate, n + 1),
           \A j \in 1 .. Len(list) : list[j].param.id \in Nat
    PROVE  IsPolled(gate, n + 1, list)
<1>1. \A k \in 1 .. (n + 1) : k \in 1 .. n \/ k = n + 1
  OBVIOUS
<1>2. \A k \in 1 .. n : k \in 1 .. (n + 1)
  OBVIOUS
<1>3. \A j \in 1 .. Len(list) : /\ \E k \in 1 .. (n + 1) : Mine(gate, k) /\ list[j] = ItemAt(k)
                                /\ list[j].param.id < n + 1
  <2> SUFFICES ASSUME NEW j \in 1 .. Len(list)
               PROVE  /\ \E k \in 1 .. (n + 1) : Mine(gate, k) /\ list[j] = ItemAt(k)
                      /\ list[j].param.id < n + 1
    OBVIOUS
  <2>1. PICK k \in 1 .. n : Mine(gate, k) /\ list[j] = ItemAt(k)
    BY DEF IsPolled
  <2>2. k \in 1 .. (n + 1)
    BY <1>2
  <2>3. list[j].param.id \in Nat /\ list[j].param.id < n
    BY DEF IsPolled
  <2>4. list[j].param.id < n + 1
    BY <2>3
  <2>5. QED
    BY <2>1, <2>2, <2>4
<1>4. QED
  BY <1>1, <1>3 DEF IsPolled

\* Items, for every list of parameters whose numbers are their places.
LEMMA ItemsAre ==
    ASSUME NEW gate, Len(parsed.param) \in Nat,
           \A k \in 1 .. Len(parsed.param) : parsed.param[k].id = k - 1
    PROVE  IsPolled(gate, Len(parsed.param), Items(gate))
<1> DEFINE L == Len(parsed.param)
           F == CHOOSE f : IsKept(gate, L, f)
           S == {n \in Nat : n <= L => IsPolled(gate, n, F[n])}
<1>1. Items(gate) = F[L]
  BY DEF Items, Gathered, IsKept, Places, Mine, ItemAt
<1>2. IsKept(gate, L, F)
  BY KeptExists
<1> HIDE DEF F
<1>3. /\ F[0] = <<>>
      /\ \A k \in 1 .. L : F[k] = IF Mine(gate, k) THEN Append(F[k - 1], ItemAt(k)) ELSE F[k - 1]
  <2>1. \A k \in 0 .. L :
           F[k] = IF k = 0 THEN <<>>
                  ELSE IF k \in Places(gate) THEN Append(F[k - 1], ItemAt(k)) ELSE F[k - 1]
    BY <1>2, Zenon DEF IsKept
  <2>2. 0 \in 0 .. L /\ \A k \in 1 .. L : k \in 0 .. L /\ k # 0
    OBVIOUS
  <2>3. \A k \in 1 .. L : k \in Places(gate) <=> Mine(gate, k)
    BY DEF Places
  <2>4. QED
    BY <2>1, <2>2, <2>3
<1>4. 0 \in S
  <2>1. IsPolled(gate, 0, <<>>)
    BY DEF IsPolled
  <2>2. QED
    BY <1>3, <2>1
<1>5. ASSUME NEW n \in Nat, n \in S PROVE n + 1 \in S
  <2> SUFFICES ASSUME n + 1 <= L PROVE IsPolled(gate, n + 1, F[n + 1])
    OBVIOUS
  <2>1. n + 1 \in 1 .. L /\ (n + 1) - 1 = n
    OBVIOUS
  <2>2. IsPolled(gate, n, F[n])
    BY <1>5
  <2>3. F[n + 1] = IF Mine(gate, n + 1) THEN Append(F[n], ItemAt(n + 1)) ELSE F[n]
    BY <1>3, <2>1
  <2>4. parsed.param[n + 1].id = n
    BY <2>1
  <2>5. \A j \in 1 .. Len(F[n]) : F[n][j].param.id \in Nat
    <3> SUFFICES ASSUME NEW j \in 1 .. Len(F[n]) PROVE F[n][j].param.id \in Nat
      OBVIOUS
    <3>1. PICK k \in 1 .. n : F[n][j] = ItemAt(k)
      BY <2>2 DEF IsPolled
    <3>2. k \in 1 .. L
      BY <2>1
    <3>3. parsed.param[k].id = k - 1
      BY <3>2
    <3>4. F[n][j].param.id = k - 1
      BY <3>1, <3>3 DEF ItemAt
    <3>5. QED
      BY <3>4
  <2>6. QED
    BY <2>2, <2>3, <2>4, <2>5, ItemPolled, ItemSkipped
<1>6. Nat \subseteq S
  <2> HIDE DEF S
  <2>1. QED
    BY <1>4, <1>5, SetInduction
<1>7. QED
  BY <1>1, <1>6

-----------------------------------------------------------------------------
\* What an accepted file consists of.

LEMMA DeclaredIs ==
    ASSUME file \in Seq(Line), NEW kind, NEW i
    PROVE  i \in Declared(kind) <=> <<kind, i>> \in HeadersIn(Len(file))
<1>1. \A h \in HeadersIn(Len(file)) : h \in STRING \X Nat
  <2> SUFFICES ASSUME NEW k \in HeadersUpTo(Len(file)) PROVE file[k].section \in STRING \X Nat
    BY DEF HeadersIn
  <2>1. file[k] \in Line /\ file[k].is = "header"
    BY DEF HeadersUpTo
  <2>2. QED
    BY <2>1 DEF Line
<1>2. \A h \in HeadersIn(Len(file)) : h = <<h[1], h[2]>>
  BY <1>1
<1>3. i \in Declared(kind) <=> \E h \in HeadersIn(Len(file)) : h[1] = kind /\ h[2] = i
  BY DEF Declared
<1>4. QED
  BY <1>2, <1>3

LEMMA TextTold ==
    ASSUME file \in Seq(Line), NEW kind, NEW i, NEW name, Tells(kind, i, name)
    PROVE  Telling(kind, i, name) \in Text
<1> DEFINE W == WrittenAt(Len(file), <<kind, i>>, name)
<1>1. Len(file) \in Nat /\ W \subseteq 1 .. Len(file) /\ W # {}
  BY DEF WrittenAt, Tells, Says
<1>2. LastIn(W) \in W
  <2> HIDE DEF W
  <2>1. QED
    BY <1>1, LastIsIn
<1>3. file[LastIn(W)] \in Line /\ file[LastIn(W)].is = "setting"
  BY <1>2 DEF WrittenAt
<1>4. file[LastIn(W)].text \in Text
  <2> HIDE DEF W
  <2>1. QED
    BY <1>3 DEF Line
<1>5. QED
  BY <1>4 DEF Telling, Saying

LEMMA NumberIs ==
    ASSUME NEW text \in Text, IsNumber(text)
    PROVE  Value("number", text) \in Nat
<1>1. UIntSize \in Nat \ {0}
  BY ConfigurationAssumption
<1>2. CASE text \in {"dec", "tail", "hex"} \X Int
  <2>1. text[2] \in Int /\ text[1] \in {"dec", "tail", "hex"}
    BY <1>2
  <2>2. text[2] % UIntSize \in Nat
    BY <1>1, <2>1
  <2>3. QED
    BY <2>1, <2>2 DEF Value, Number, Plain
<1>3. CASE text \in {"ip"} \X [1 .. 5 -> Nat]
  <2>1. text[1] = "ip" /\ text[2][1] \in Nat
    BY <1>3
  <2>2. QED
    BY <2>1 DEF Value, Number, Plain
<1>4. CASE text \in {"word"} \X STRING
  BY <1>4 DEF IsNumber
<1>5. QED
  BY <1>2, <1>3, <1>4 DEF Text

\* A section other than of a gate tells all its names.
LEMMA ToldAll ==
    ASSUME NEW kind \in DOMAIN Names, kind # "gate", NEW i, TellsAll(kind, i),
           NEW name \in DOMAIN Names[kind]
    PROVE  Tells(kind, i, name) /\ Accepts(Names[kind][name], Telling(kind, i, name))
BY DEF TellsAll

LEMMA NumberTold ==
    ASSUME file \in Seq(Line), NEW kind \in DOMAIN Names, kind # "gate", NEW i, TellsAll(kind, i),
           NEW name \in DOMAIN Names[kind], Names[kind][name] = "number"
    PROVE  Asked(kind, i, name) \in Nat /\ Given(kind, i).val[name] = Asked(kind, i, name)
<1>1. Tells(kind, i, name) /\ Accepts("number", Telling(kind, i, name))
  BY ToldAll
<1>2. Telling(kind, i, name) \in Text
  BY <1>1, TextTold
<1>3. IsNumber(Telling(kind, i, name))
  BY <1>1 DEF Accepts, Choice
<1>4. QED
  BY <1>1, <1>2, <1>3, NumberIs DEF Asked, Given

LEMMA ReferencesAre ==
    /\ "device_id" \in DOMAIN Names["param"] /\ Names["param"]["device_id"] = "number"
    /\ "gate_id" \in DOMAIN Names["device"] /\ Names["device"]["gate_id"] = "number"
BY DEF Names, ParamNames, DeviceNames

LEMMA GivenUpToIs ==
    ASSUME NEW kind, NEW n \in Nat
    PROVE  /\ GivenUpTo(kind, n) \in Seq({Given(kind, i) : i \in Nat})
           /\ Len(GivenUpTo(kind, n)) = n
           /\ \A k \in 1 .. n : GivenUpTo(kind, n)[k] = Given(kind, k - 1)
           /\ Append(GivenUpTo(kind, n), Given(kind, n)) = GivenUpTo(kind, n + 1)
<1> DEFINE S == {Given(kind, i) : i \in Nat}
<1>1. \A m \in Nat : /\ GivenUpTo(kind, m) \in Seq(S) /\ Len(GivenUpTo(kind, m)) = m
                     /\ \A k \in 1 .. m : GivenUpTo(kind, m)[k] = Given(kind, k - 1)
  BY DEF GivenUpTo
<1> DEFINE a == Append(GivenUpTo(kind, n), Given(kind, n))
           b == GivenUpTo(kind, n + 1)
<1>2. Given(kind, n) \in S
  OBVIOUS
<1>3. n + 1 \in Nat
  OBVIOUS
<1> HIDE DEF S
<1>4. a \in Seq(S) /\ Len(a) = n + 1
  BY <1>1, <1>2
<1>5. b \in Seq(S) /\ Len(b) = n + 1
  BY <1>1, <1>3
<1>6. \A k \in 1 .. (n + 1) : a[k] = b[k]
  <2> SUFFICES ASSUME NEW k \in 1 .. (n + 1) PROVE a[k] = b[k]
    OBVIOUS
  <2>1. b[k] = Given(kind, k - 1) /\ (k \in 1 .. n \/ k = n + 1)
    BY <1>1, <1>3
  <2>2. CASE k \in 1 .. n
    <3>1. /\ GivenUpTo(kind, n) \in Seq(S) /\ Len(GivenUpTo(kind, n)) = n
          /\ GivenUpTo(kind, n)[k] = Given(kind, k - 1)
      BY <1>1, <2>2
    <3>2. a[k] = GivenUpTo(kind, n)[k]
      BY <1>2, <2>2, <3>1
    <3>3. QED
      BY <2>1, <3>1, <3>2
  <2>3. CASE k = n + 1
    <3>1. a[n + 1] = Given(kind, n)
      BY <1>1, <1>2
    <3>2. (n + 1) - 1 = n
      OBVIOUS
    <3>3. QED
      BY <2>1, <2>3, <3>1, <3>2
  <2> HIDE DEF a, b
  <2>4. QED
    BY <2>1, <2>2, <2>3
<1>7. a = b
  <2> HIDE DEF a, b
  <2>1. QED
    BY <1>4, <1>5, <1>6
<1>8. QED
  BY <1>1, <1>7 DEF S

\* Of an orderly file every section is taken.
LEMMA CountIsAll ==
    ASSUME file \in Seq(Line), NEW kind \in DOMAIN Names, Orderly, Counted(kind), Finished(kind)
    PROVE  Declared(kind) = 0 .. (Count(kind) - 1)
<1>1. PICK n \in 0 .. Limit[kind] : Declared(kind) = 0 .. (n - 1)
  BY DEF Orderly
<1>2. Limit[kind] \in Nat /\ Count(kind) \in 0 .. Limit[kind]
  BY LimitIs DEF Counted
<1>3. \A i \in 0 .. (Count(kind) - 1) : i \in 0 .. (n - 1)
  BY <1>1, DeclaredIs DEF Counted
<1>4. Count(kind) <= n
  <2>1. CASE Count(kind) = 0
    BY <1>1, <1>2, <2>1
  <2>2. CASE Count(kind) # 0
    <3>1. Count(kind) - 1 \in 0 .. (Count(kind) - 1)
      BY <1>2, <2>2
    <3>2. Count(kind) - 1 \in 0 .. (n - 1)
      BY <1>3, <3>1
    <3>3. QED
      BY <1>1, <1>2, <3>2
  <2>3. QED
    BY <2>1, <2>2
<1>5. n <= Count(kind)
  <2>1. CASE Count(kind) = Limit[kind]
    BY <1>1, <1>2, <2>1
  <2>2. CASE Count(kind) # Limit[kind]
    <3>1. Count(kind) \notin 0 .. (n - 1)
      BY <1>1, <2>2, DeclaredIs DEF Finished
    <3>2. QED
      BY <1>1, <1>2, <3>1
  <2>3. QED
    BY <2>1, <2>2
<1>6. n = Count(kind)
  BY <1>1, <1>2, <1>4, <1>5
<1>7. QED
  BY <1>1, <1>6

\* Everything has been looked for.
AllLooked ==
    /\ file \in Seq(Line)
    /\ \A kind \in DOMAIN Names : Counted(kind) /\ Finished(kind)

LEMMA SectionTaken ==
    ASSUME AllLooked, NEW kind \in DOMAIN Names
    PROVE  /\ Count(kind) \in Nat
           /\ parsed[kind] \in Seq({Given(kind, i) : i \in Nat})
           /\ \A k \in 1 .. Count(kind) : /\ parsed[kind][k] = Given(kind, k - 1)
                                          /\ k - 1 \in Declared(kind) /\ TellsAll(kind, k - 1)
<1>1. Counted(kind) /\ Limit[kind] \in Nat
  BY LimitIs DEF AllLooked
<1>2. Count(kind) \in Nat
  BY <1>1 DEF Counted
<1>3. \A k \in 1 .. Count(kind) : k - 1 \in 0 .. (Count(kind) - 1)
  BY <1>2
<1>4. QED
  BY <1>1, <1>2, <1>3, GivenUpToIs, DeclaredIs DEF Counted, AllLooked

\* What a parameter refers to.
LEMMA ParamIs ==
    ASSUME AllLooked, NEW k \in 1 .. Count("param")
    PROVE  LET prm == parsed.param[k]
               d == prm.val.device_id
           IN  /\ prm = Given("param", k - 1) /\ prm.id = k - 1
               /\ k - 1 \in Declared("param") /\ TellsAll("param", k - 1)
               /\ d \in Nat /\ d = Asked("param", k - 1, "device_id")
               /\ DeviceKnown(prm) <=> d < Count("device")
               /\ DeviceKnown(prm) =>
                     /\ DeviceOf(prm) = Given("device", d)
                     /\ d \in Declared("device") /\ TellsAll("device", d)
                     /\ DeviceOf(prm).val.gate_id = Asked("device", d, "gate_id")
                     /\ DeviceOf(prm).val.gate_id \in Nat
                     /\ GateOfParam(k - 1) = DeviceOf(prm).val.gate_id
<1> DEFINE prm == parsed.param[k]
           d == prm.val.device_id
<1>1. {"param", "device"} \subseteq DOMAIN Names /\ file \in Seq(Line)
  BY KindsAre DEF AllLooked
<1>2. /\ prm = Given("param", k - 1) /\ k - 1 \in Declared("param") /\ TellsAll("param", k - 1)
  BY <1>1, SectionTaken
<1>3. d \in Nat /\ d = Asked("param", k - 1, "device_id")
  BY <1>1, <1>2, ReferencesAre, NumberTold
<1>4. prm.id = k - 1
  BY <1>2 DEF Given
<1>5. DeviceKnown(prm) <=> d < Count("device")
  BY DEF DeviceKnown, Count
<1>6. ASSUME DeviceKnown(prm)
      PROVE  /\ DeviceOf(prm) = Given("device", d)
             /\ d \in Declared("device") /\ TellsAll("device", d)
             /\ DeviceOf(prm).val.gate_id = Asked("device", d, "gate_id")
             /\ DeviceOf(prm).val.gate_id \in Nat
             /\ GateOfParam(k - 1) = DeviceOf(prm).val.gate_id
  <2> HIDE DEF d
  <2>1. Count("device") \in Nat
    BY <1>1, SectionTaken
  <2>2. d + 1 \in 1 .. Count("device") /\ (d + 1) - 1 = d
    BY <1>3, <1>5, <1>6, <2>1
  <2>3. parsed.device[d + 1] = Given("device", d) /\ d \in Declared("device") /\ TellsAll("device", d)
    BY <1>1, <2>2, SectionTaken
  <2>4. DeviceOf(prm) = Given("device", d)
    BY <2>3 DEF DeviceOf, d
  <2>5. /\ Asked("device", d, "gate_id") \in Nat
        /\ Given("device", d).val["gate_id"] = Asked("device", d, "gate_id")
    BY <1>1, <2>3, ReferencesAre, NumberTold
  <2>6. GateOfParam(k - 1) = Asked("device", d, "gate_id")
    BY <1>2, <1>3, <2>3 DEF GateOfParam
  <2>7. QED
    BY <2>3, <2>4, <2>5, <2>6
<1>7. QED
  BY <1>2, <1>3, <1>4, <1>5, <1>6

\* Where the program stops, the file asks for what it cannot do.

LEMMA RefusedSection ==
    ASSUME file \in Seq(Line), NEW kind \in DOMAIN Names, NEW i,
           <<kind, i>> \in HeadersIn(Len(file)), ~TellsAll(kind, i)
    PROVE  ~Startable
BY DeclaredIs DEF Startable, Orderly

LEMMA NoneDeclared ==
    ASSUME AllLooked, Orderly, NEW kind \in DOMAIN Names, parsed[kind] = <<>>
    PROVE  Declared(kind) = {}
<1>1. Count(kind) = 0
  BY DEF Count
<1>2. Declared(kind) = 0 .. (0 - 1)
  BY <1>1, CountIsAll DEF AllLooked
<1>3. QED
  BY <1>2

LEMMA RefusedGates ==
    ASSUME AllLooked, program # "ttyg", NothingToRun
    PROVE  ~Startable
<1> SUFFICES ASSUME Startable PROVE FALSE
  OBVIOUS
<1>1. Orderly /\ Declared("common") # {} /\ Declared("gate") # {}
  BY DEF Startable
<1>2. {"common", "gate"} \subseteq DOMAIN Names
  BY KindsAre
<1>3. parsed.common # <<>> /\ parsed.gate # <<>>
  BY <1>1, <1>2, NoneDeclared
<1>4. Count("gate") \in 0 .. Limit["gate"]
  BY <1>2 DEF AllLooked, Counted
<1>5. Limit["gate"] = maxNumGates /\ maxNumGates \in Nat
  BY ConfigurationAssumption DEF Limit
<1>6. QED
  BY <1>3, <1>4, <1>5 DEF NothingToRun, Count

LEMMA RefusedTtyg ==
    ASSUME AllLooked, program = "ttyg", parsed.ttyg = <<>>
    PROVE  ~Startable
BY KindsAre, NoneDeclared DEF Startable

LEMMA ParamsNumbered ==
    ASSUME AllLooked
    PROVE  /\ Len(parsed.param) \in Nat /\ DOMAIN parsed.param = 1 .. Len(parsed.param)
           /\ \A k \in 1 .. Len(parsed.param) : parsed.param[k].id = k - 1
<1>1. "param" \in DOMAIN Names
  BY KindsAre
<1>2. parsed.param \in Seq({Given("param", i) : i \in Nat})
  BY <1>1, SectionTaken
<1>3. QED
  BY <1>2, ParamIs DEF Count

LEMMA RefusedClient ==
    ASSUME AllLooked, program = "client", NEW k \in 1 .. Count("gate"),
           ~Configures(parsed.gate[k])
    PROVE  ~Startable
<1> DEFINE gate == parsed.gate[k]
<1> SUFFICES ASSUME Startable PROVE FALSE
  OBVIOUS
<1>1. Orderly /\ ParamsOf(-1) = {} /\ \A g \in Declared("gate") : ParamsOf(g) # {}
  BY DEF Startable
<1>2. {"gate", "device", "param"} \subseteq DOMAIN Names
  BY KindsAre
<1>3. /\ Declared("param") = 0 .. (Count("param") - 1)
      /\ Declared("device") = 0 .. (Count("device") - 1)
  BY <1>1, <1>2, CountIsAll DEF AllLooked
<1>4. Count("param") \in Nat /\ Count("device") \in Nat
  BY <1>2, SectionTaken
<1>5. DOMAIN parsed.param = 1 .. Count("param")
  BY ParamsNumbered DEF Count
<1>6. ASSUME NEW p \in 1 .. Count("param"), ~DeviceKnown(parsed.param[p]) PROVE FALSE
  <2> DEFINE d == parsed.param[p].val.device_id
  <2>1. /\ p - 1 \in Declared("param") /\ d \in Nat /\ d = Asked("param", p - 1, "device_id")
        /\ ~(d < Count("device"))
    BY <1>6, ParamIs
  <2> HIDE DEF d
  <2>2. d \notin Declared("device")
    BY <1>3, <1>4, <2>1
  <2>3. GateOfParam(p - 1) = -1
    BY <2>1, <2>2 DEF GateOfParam
  <2>4. QED
    BY <1>1, <2>1, <2>3 DEF ParamsOf
<1>7. Items(gate) = <<>>
  BY <1>5, <1>6 DEF Configures
<1>8. gate.id \in Declared("gate")
  <2>1. gate = Given("gate", k - 1) /\ k - 1 \in Declared("gate")
    BY <1>2, SectionTaken
  <2>2. QED
    BY <2>1 DEF Given
<1>9. PICK p \in Declared("param") : GateOfParam(p) = gate.id
  BY <1>1, <1>8 DEF ParamsOf
<1>10. p \in Int /\ p + 1 \in 1 .. Count("param") /\ (p + 1) - 1 = p
  BY <1>3, <1>4
<1>11. DeviceOf(parsed.param[p + 1]).val.gate_id = gate.id
  BY <1>6, <1>9, <1>10, ParamIs
<1>12. IsPolled(gate, Count("param"), <<>>)
  BY <1>7, ParamsNumbered, ItemsAre DEF Count
<1>13. QED
  BY <1>10, <1>11, <1>12 DEF IsPolled, Mine

\* What StartsAsWritten says of the k-th gate of a gateway that runs.
PollsAsWritten(k, gate, items) ==
    LET polled == {items[j].param.id : j \in DOMAIN items}
    IN  /\ gate.id = k - 1 /\ AsAsked(gate, "gate")
        /\ \A i, j \in DOMAIN items : i < j => items[i].param.id < items[j].param.id
        /\ polled # {} /\ polled \subseteq ParamsOf(gate.id)
        /\ Orderly => polled = ParamsOf(gate.id)
        /\ \A j \in DOMAIN items :
              /\ AsAsked(items[j].param, "param")
              /\ AsAsked(items[j].device, "device")
              /\ items[j].device.id = items[j].param.val.device_id

LEMMA PolledAsWritten ==
    ASSUME AllLooked, NEW k \in 1 .. Count("gate"), NEW items,
           IsPolled(parsed.gate[k], Count("param"), items), items # <<>>,
           \A p \in DOMAIN parsed.param : DeviceKnown(parsed.param[p])
    PROVE  PollsAsWritten(k, parsed.gate[k], items)
<1> DEFINE gate == parsed.gate[k]
           polled == {items[j].param.id : j \in DOMAIN items}
<1>1. {"gate", "device", "param"} \subseteq DOMAIN Names
  BY KindsAre
<1>2. gate = Given("gate", k - 1) /\ TellsAll("gate", k - 1) /\ k - 1 \in Declared("gate")
  BY <1>1, SectionTaken
<1>3. \A kind \in DOMAIN Names : \A i : TellsAll(kind, i) => AsAsked(Given(kind, i), kind)
  BY DEF AsAsked, Given
<1>4. gate.id = k - 1 /\ AsAsked(gate, "gate")
  BY <1>1, <1>2, <1>3 DEF Given
<1>5. items \in Seq(ItemType) /\ DOMAIN items = 1 .. Len(items)
  BY DEF IsPolled
<1>6. DOMAIN parsed.param = 1 .. Count("param") /\ Count("param") \in Nat
  BY ParamsNumbered DEF Count
<1>7. ASSUME NEW j \in 1 .. Len(items)
      PROVE  /\ AsAsked(items[j].param, "param") /\ AsAsked(items[j].device, "device")
             /\ items[j].device.id = items[j].param.val.device_id
             /\ items[j].param.id \in ParamsOf(gate.id)
  <2>1. PICK p \in 1 .. Count("param") : Mine(gate, p) /\ items[j] = ItemAt(p)
    BY DEF IsPolled
  <2> DEFINE prm == parsed.param[p]
             d == prm.val.device_id
  <2>2. /\ prm = Given("param", p - 1) /\ prm.id = p - 1
        /\ p - 1 \in Declared("param") /\ TellsAll("param", p - 1)
        /\ DeviceOf(prm) = Given("device", d) /\ TellsAll("device", d)
        /\ GateOfParam(p - 1) = DeviceOf(prm).val.gate_id
    BY <1>6, ParamIs
  <2>3. items[j].param = prm /\ items[j].device = DeviceOf(prm) /\ DeviceOf(prm).val.gate_id = gate.id
    BY <2>1 DEF ItemAt, Mine
  <2>4. DeviceOf(prm).id = d
    BY <2>2 DEF Given
  <2> HIDE DEF prm, d, gate
  <2>5. AsAsked(prm, "param") /\ AsAsked(DeviceOf(prm), "device")
    BY <1>1, <1>3, <2>2
  <2>6. p - 1 \in ParamsOf(gate.id)
    BY <2>2, <2>3 DEF ParamsOf
  <2>7. QED
    BY <2>2, <2>3, <2>4, <2>5, <2>6 DEF d
<1>8. polled # {}
  <2>1. Len(items) # 0
    BY <1>5
  <2>2. Len(items) \in Nat
    BY <1>5
  <2>3. 1 \in DOMAIN items
    BY <1>5, <2>1, <2>2
  <2>4. QED
    BY <2>3
<1>9. polled \subseteq ParamsOf(gate.id)
  BY <1>5, <1>7
<1>10. ASSUME Orderly, NEW p \in ParamsOf(gate.id) PROVE p \in polled
  <2>1. p \in Declared("param") /\ GateOfParam(p) = gate.id
    BY DEF ParamsOf
  <2>2. Declared("param") = 0 .. (Count("param") - 1)
    BY <1>1, <1>10, CountIsAll DEF AllLooked
  <2>3. p \in Int /\ p + 1 \in 1 .. Count("param") /\ (p + 1) - 1 = p
    BY <1>6, <2>1, <2>2
  <2>4. Mine(gate, p + 1) /\ parsed.param[p + 1].id = p
    BY <1>6, <2>1, <2>3, ParamIs DEF Mine
  <2>5. PICK j \in 1 .. Len(items) : items[j] = ItemAt(p + 1)
    BY <2>3, <2>4 DEF IsPolled
  <2>6. items[j].param.id = p
    BY <2>4, <2>5 DEF ItemAt
  <2>7. QED
    BY <1>5, <2>5, <2>6
<1>11. \A i, j \in DOMAIN items : i < j => items[i].param.id < items[j].param.id
  BY <1>5 DEF IsPolled
<1>12. QED
  <2> HIDE DEF polled, gate
  <2>1. Orderly => polled = ParamsOf(gate.id)
    BY <1>9, <1>10
  <2>2. \A j \in DOMAIN items : /\ AsAsked(items[j].param, "param")
                                /\ AsAsked(items[j].device, "device")
                                /\ items[j].device.id = items[j].param.val.device_id
    BY <1>5, <1>7
  <2>3. QED
    BY <1>4, <1>8, <1>9, <1>11, <2>1, <2>2 DEF PollsAsWritten, polled, gate

LEMMA CreateLooked ==
    ASSUME PInv, phase = "create"
    PROVE  AllLooked
BY KindsAre DEF PInv, Looked, AllLooked

LEMMA PInvStarts == PInv => StartsAsWritten
<1> SUFFICES ASSUME PInv PROVE StartsAsWritten
  OBVIOUS
<1>1. mode \in {"error", "exit"} => file = NoFile \/ ~Startable
  BY DEF PInv
<1>2. ASSUME mode = "run" PROVE AllLooked /\ Built
  BY <1>2, CreateLooked DEF PInv
<1>3. ASSUME mode = "run" PROVE DOMAIN storages = 1 .. index /\ index \in 0 .. Count("gate")
  BY <1>2, <1>3 DEF Built, BuiltUpTo
<1>4. ASSUME mode = "run" PROVE Count("gate") \in Nat
  BY <1>2, <1>4, KindsAre, SectionTaken
<1>5. ASSUME mode = "run", NEW k \in DOMAIN storages
      PROVE  PollsAsWritten(k, storages[k].gate, storages[k].items)
  <2>1. k \in 1 .. index /\ k \in 1 .. Count("gate")
    BY <1>3, <1>4, <1>5
  <2> DEFINE items == storages[k].items
  <2>2. /\ storages[k].gate = parsed.gate[k]
        /\ IsPolled(parsed.gate[k], Count("param"), items) /\ items # <<>>
        /\ \A p \in DOMAIN parsed.param : DeviceKnown(parsed.param[p])
    BY <1>2, <1>5, <2>1 DEF Built, BuiltUpTo
  <2>3. AllLooked
    BY <1>2, <1>5
  <2>4. QED
    BY <2>1, <2>2, <2>3, PolledAsWritten
<1>6. ASSUME mode = "run", program = "client", Orderly
      PROVE  {storages[k].gate.id : k \in DOMAIN storages} = Declared("gate")
  <2>1. index = Count("gate")
    BY <1>2, <1>6 DEF Built
  <2>2. Declared("gate") = 0 .. (Count("gate") - 1)
    BY <1>2, <1>6, KindsAre, CountIsAll DEF AllLooked
  <2>3. \A k \in 1 .. Count("gate") : k \in DOMAIN storages /\ storages[k].gate.id = k - 1
    BY <1>3, <1>5, <1>6, <2>1 DEF PollsAsWritten
  <2>4. \A i \in Declared("gate") : i + 1 \in 1 .. Count("gate") /\ (i + 1) - 1 = i
    BY <1>4, <1>6, <2>2
  <2>5. \A i \in Declared("gate") : \E k \in DOMAIN storages : storages[k].gate.id = i
    BY <2>3, <2>4
  <2>6. \A k \in DOMAIN storages : storages[k].gate.id \in Declared("gate")
    BY <1>3, <1>4, <1>6, <2>1, <2>2, <2>3
  <2>7. QED
    BY <2>5, <2>6
<1>7. QED
  BY <1>1, <1>5, <1>6 DEF StartsAsWritten, PollsAsWritten

-----------------------------------------------------------------------------
\* The steps of the parser.

LEMMA AskedStays ==
    ASSUME file' = file
    PROVE  /\ \A kind, i : TellsAll(kind, i)' <=> TellsAll(kind, i)
           /\ \A kind, i : Given(kind, i)' = Given(kind, i)
           /\ \A kind : Declared(kind)' = Declared(kind)
           /\ \A kind, i, name : Asked(kind, i, name)' = Asked(kind, i, name)
<1>1. \A kind, i, name : /\ Tells(kind, i, name)' <=> Tells(kind, i, name)
                         /\ Telling(kind, i, name)' = Telling(kind, i, name)
  BY LinesStay DEF Tells, Telling
<1>2. \A kind, i, name : Asked(kind, i, name)' = Asked(kind, i, name)
  BY <1>1 DEF Asked
<1>3. \A kind, i : TellsAll(kind, i)' <=> TellsAll(kind, i)
  BY <1>1 DEF TellsAll
<1>4. \A kind, i : Given(kind, i)' = Given(kind, i)
  BY <1>1, <1>2 DEF Given
<1>5. \A kind : Declared(kind)' = Declared(kind)
  BY LinesStay DEF Declared
<1>6. QED
  BY <1>2, <1>3, <1>4, <1>5

LEMMA StartableStays ==
    ASSUME file' = file, program' = program
    PROVE  Startable' <=> Startable
<1>1. Orderly' <=> Orderly
  BY AskedStays DEF Orderly
<1>2. \A p : GateOfParam(p)' = GateOfParam(p)
  BY AskedStays DEF GateOfParam
<1>3. \A g : ParamsOf(g)' = ParamsOf(g)
  BY <1>2, AskedStays DEF ParamsOf
<1>4. QED
  BY <1>1, <1>3, AskedStays DEF Startable

LEMMA CountedStays ==
    ASSUME file' = file, NEW kind, parsed'[kind] = parsed[kind]
    PROVE  /\ Counted(kind)' <=> Counted(kind)
           /\ Finished(kind)' <=> Finished(kind)
           /\ Count(kind)' = Count(kind)
<1>1. Count(kind)' = Count(kind)
  BY DEF Count
<1>2. \A n : GivenUpTo(kind, n)' = GivenUpTo(kind, n)
  BY AskedStays DEF GivenUpTo
<1>3. \A n, i : TellsAll(kind, i)' <=> TellsAll(kind, i)
  BY AskedStays
<1>4. HeadersIn(Len(file))' = HeadersIn(Len(file))
  BY LinesStay
<1>5. QED
  BY <1>1, <1>2, <1>3, <1>4 DEF Counted, Finished

\* One section more.
LEMMA CountedGrows ==
    ASSUME file' = file, NEW kind \in DOMAIN Names, Counted(kind), Count(kind) < Limit[kind],
           parsed'[kind] = Append(parsed[kind], Given(kind, Count(kind))),
           <<kind, Count(kind)>> \in HeadersIn(Len(file)), TellsAll(kind, Count(kind))
    PROVE  /\ Counted(kind)'
           /\ Count(kind)' = Count(kind) + 1
<1>1. PICK n \in Nat : n = Count(kind)
  BY LimitIs DEF Counted
<1>2. parsed[kind] = GivenUpTo(kind, n) /\ n + 1 \in Nat
  BY <1>1 DEF Counted
<1>3. parsed'[kind] = GivenUpTo(kind, n + 1)
  BY <1>1, <1>2, GivenUpToIs
<1>4. Count(kind)' = n + 1
  BY <1>2, <1>3, GivenUpToIs DEF Count
<1>5. GivenUpTo(kind, n + 1)' = GivenUpTo(kind, n + 1)
  BY AskedStays DEF GivenUpTo
<1>6. \A i \in 0 .. n : <<kind, i>> \in HeadersIn(Len(file)) /\ TellsAll(kind, i)
  <2>1. \A i \in 0 .. n : i \in 0 .. (n - 1) \/ i = n
    OBVIOUS
  <2>2. QED
    BY <1>1, <2>1 DEF Counted
<1>7. \A i \in 0 .. n : /\ <<kind, i>> \in HeadersIn(Len(file))'
                        /\ TellsAll(kind, i)'
  BY <1>6, LinesStay, AskedStays
<1>8. n + 1 \in 0 .. Limit[kind] /\ (n + 1) - 1 = n
  BY <1>1, LimitIs
<1>9. QED
  BY <1>1, <1>3, <1>4, <1>5, <1>7, <1>8 DEF Counted

\* While nothing is built, what holds of the parameters is what matters.
LEMMA LookedStays ==
    ASSUME file' = file, parsed' = parsed, phase' = phase, Looked
    PROVE  Looked'
<1>1. \A kind : parsed'[kind] = parsed[kind]
  OBVIOUS
<1>2. QED
  BY <1>1, CountedStays DEF Looked

\* The search for sections of a kind is over.
LEMMA LookedGoesOn ==
    ASSUME file' = file, NEW kind \in DOMAIN Names, phase = kind, phase' = After(kind), Looked,
           \A other \in DOMAIN Names \ {kind} : parsed'[other] = parsed[other],
           Counted(kind)', Finished(kind)'
    PROVE  Looked' /\ (After(kind) \in DOMAIN Names => Count(After(kind))' = 0)
<1>1. \A other \in DOMAIN Names \ {kind} :
         /\ Counted(other)'
         /\ other \in Past[kind] => Finished(other)'
         /\ other \notin Past[kind] => Count(other)' = 0
  BY CountedStays DEF Looked
<1>2. Past[phase'] = Past[kind] \cup {kind}
  BY AfterIs
<1>3. After(kind) \in DOMAIN Names => Count(After(kind))' = 0
  BY <1>1, AfterIs
<1>4. \A other \in DOMAIN Names :
         /\ Counted(other)'
         /\ other \in Past[phase'] => Finished(other)'
         /\ other \notin Past[phase'] \cup {phase'} => Count(other)' = 0
  BY <1>1, <1>2
<1>5. QED
  BY <1>3, <1>4 DEF Looked

LEMMA LookedGrows ==
    ASSUME file' = file, NEW kind \in DOMAIN Names, phase = kind, phase' = kind, Looked,
           \A other \in DOMAIN Names \ {kind} : parsed'[other] = parsed[other],
           Counted(kind)'
    PROVE  Looked'
<1>1. \A other \in DOMAIN Names \ {kind} :
         /\ Counted(other)'
         /\ other \in Past[kind] => Finished(other)'
         /\ other \notin Past[kind] => Count(other)' = 0
  BY CountedStays DEF Looked
<1>2. kind \notin Past[kind]
  BY KindsAre
<1>3. \A other \in DOMAIN Names :
         /\ Counted(other)'
         /\ other \in Past[phase'] => Finished(other)'
         /\ other \notin Past[phase'] \cup {phase'} => Count(other)' = 0
  BY <1>1, <1>2
<1>4. QED
  BY <1>3 DEF Looked

\* What is built stays as long as the parameters do.
LEMMA PolledStays ==
    ASSUME parsed' = parsed
    PROVE  /\ \A gate, n, list : IsPolled(gate, n, list)' <=> IsPolled(gate, n, list)
           /\ \A k : DeviceKnown(parsed.param[k])' <=> DeviceKnown(parsed.param[k])
           /\ ItemType' = ItemType
<1>1. \A k : ItemAt(k)' = ItemAt(k)
  BY DEF ItemAt, DeviceOf
<1>2. \A gate, k : Mine(gate, k)' <=> Mine(gate, k)
  BY DEF Mine, DeviceOf
<1>3. ItemType' = ItemType
  BY <1>1 DEF ItemType
<1>4. \A gate, n, list : IsPolled(gate, n, list)' <=> IsPolled(gate, n, list)
  BY <1>1, <1>2, <1>3 DEF IsPolled
<1>5. \A k : DeviceKnown(parsed.param[k])' <=> DeviceKnown(parsed.param[k])
  BY DEF DeviceKnown
<1>6. QED
  BY <1>3, <1>4, <1>5

LEMMA StorageTypeStays ==
    ASSUME parsed' = parsed, file' = file
    PROVE  StorageType' = StorageType
BY PolledStays, AskedStays DEF StorageType

LEMMA BuiltBegins ==
    ASSUME storages' = <<>>, index' = 0, mode' = "init", Count("gate")' \in Nat
    PROVE  Built'
<1>1. \A S : <<>> \in Seq(S)
  OBVIOUS
<1>2. Len(<<>>) = 0
  OBVIOUS
<1>3. QED
  BY <1>1, <1>2 DEF Built, BuiltUpTo

LEMMA BuiltStays ==
    ASSUME parsed' = parsed, file' = file, storages' = storages, NEW n, BuiltUpTo(n)
    PROVE  BuiltUpTo(n)'
<1>1. Count("param")' = Count("param")
  BY DEF Count
<1>2. \A k \in 1 .. n : /\ storages[k].gate = parsed.gate[k]
                        /\ IsPolled(parsed.gate[k], Count("param"), storages[k].items)'
                        /\ storages[k].items # <<>>
                        /\ \A p \in DOMAIN parsed.param : DeviceKnown(parsed.param[p])'
  BY <1>1, PolledStays DEF BuiltUpTo
<1>3. QED
  BY <1>2, StorageTypeStays DEF BuiltUpTo

LEMMA BuiltGrows ==
    ASSUME AllLooked, parsed' = parsed, file' = file, NEW n \in Nat, BuiltUpTo(n),
           n + 1 \in 1 .. Count("gate"), Configures(parsed.gate[n + 1]),
           storages' = Append(storages, [gate |-> parsed.gate[n + 1],
                                         items |-> Items(parsed.gate[n + 1])])
    PROVE  BuiltUpTo(n + 1)'
<1> DEFINE gate == parsed.gate[n + 1]
           x == [gate |-> gate, items |-> Items(gate)]
<1>1. IsPolled(gate, Count("param"), Items(gate)) /\ Items(gate) \in Seq(ItemType)
  BY ParamsNumbered, ItemsAre DEF Count, IsPolled
<1>2. gate \in {Given("gate", i) : i \in Nat}
  <2>1. gate = Given("gate", (n + 1) - 1) /\ (n + 1) - 1 \in Nat
    BY KindsAre, SectionTaken
  <2>2. QED
    BY <2>1
<1>3. Items(gate) # <<>> /\ \A p \in DOMAIN parsed.param : DeviceKnown(parsed.param[p])
  BY DEF Configures
<1> HIDE DEF gate
<1>4. x \in StorageType /\ x.gate = gate /\ x.items = Items(gate)
  BY <1>1, <1>2 DEF StorageType
<1>5. storages' = Append(storages, x)
  BY DEF gate
<1> HIDE DEF x
<1>6. /\ storages' \in Seq(StorageType) /\ Len(storages') = n + 1 /\ storages'[n + 1] = x
      /\ \A k \in 1 .. n : storages'[k] = storages[k]
  BY <1>4, <1>5 DEF BuiltUpTo
<1>7. \A k \in 1 .. (n + 1) : k \in 1 .. n \/ k = n + 1
  OBVIOUS
<1>8. \A k \in 1 .. (n + 1) : /\ storages'[k].gate = parsed.gate[k]
                              /\ IsPolled(parsed.gate[k], Count("param"), storages'[k].items)
                              /\ storages'[k].items # <<>>
  <2> SUFFICES ASSUME NEW k \in 1 .. (n + 1)
               PROVE  /\ storages'[k].gate = parsed.gate[k]
                      /\ IsPolled(parsed.gate[k], Count("param"), storages'[k].items)
                      /\ storages'[k].items # <<>>
    OBVIOUS
  <2>1. CASE k \in 1 .. n
    BY <1>6, <2>1 DEF BuiltUpTo
  <2>2. CASE k = n + 1
    BY <1>1, <1>3, <1>4, <1>6, <2>2 DEF gate
  <2>3. QED
    BY <1>7, <2>1, <2>2
<1>9. Count("param")' = Count("param")
  BY DEF Count
<1>10. \A k \in 1 .. (n + 1) : /\ storages'[k].gate = parsed'.gate[k]
                               /\ IsPolled(parsed.gate[k], Count("param"), storages[k].items)'
                               /\ storages'[k].items # <<>>
                               /\ \A p \in DOMAIN parsed' .param : DeviceKnown(parsed.param[p])'
  BY <1>3, <1>8, <1>9, PolledStays
<1>11. QED
  BY <1>6, <1>10, StorageTypeStays DEF BuiltUpTo

LEMMA InitPInv == Init => PInv
<1> SUFFICES ASSUME Init PROVE PInv
  OBVIOUS
<1>1. PICK s \in Start : program = s.program /\ file = s.file
  BY DEF Init
<1>2. program \in {"client", "emulation", "ttyg"} /\ (file = NoFile \/ file \in Seq(Line))
  BY <1>1, ConfigurationAssumption
<1>3. /\ phase = "read" /\ index = 0 /\ parsed = [kind \in DOMAIN Names |-> <<>>]
      /\ storages = <<>> /\ mode = "init"
  BY DEF Init
<1>4. parsed = [kind \in DOMAIN Names |-> parsed[kind]]
  BY <1>3
<1>5. "read" \in DOMAIN Past /\ "read" \notin DOMAIN Names
  BY KindsAre
<1>6. QED
  BY <1>2, <1>3, <1>4, <1>5 DEF PInv

LEMMA ReadingPInv ==
    ASSUME IInv, PInv, Unreadable \/ ReadLine
    PROVE  PInv'
<1>1. /\ phase = "read" /\ UNCHANGED <<program, file, phase, index, parsed, storages>>
      /\ mode' \in {"init", "error", "exit"}
      /\ mode' \in {"error", "exit"} => file = NoFile
  BY DEF Unreadable, ReadLine, Refuse
<1>2. "read" \notin DOMAIN Names
  BY KindsAre
<1>3. QED
  BY <1>1, <1>2 DEF PInv

LEMMA EndOfFilePInv ==
    ASSUME IInv, PInv, EndOfFile
    PROVE  PInv'
<1>1. /\ phase = "read" /\ phase' = "ttyg" /\ file # NoFile /\ place = Len(file) + 1
      /\ UNCHANGED <<program, file, place, index, parsed, storages, mode>> /\ mode = "init"
  BY DEF EndOfFile, readVars
<1>2. index = 0 /\ \A kind \in DOMAIN Names : parsed[kind] = <<>>
  BY <1>1 DEF PInv
<1>3. \A kind \in DOMAIN Names : Counted(kind) /\ Count(kind) = 0
  <2> SUFFICES ASSUME NEW kind \in DOMAIN Names PROVE Counted(kind) /\ Count(kind) = 0
    OBVIOUS
  <2>1. Count(kind) = 0
    BY <1>2 DEF Count
  <2>2. GivenUpTo(kind, 0) = <<>>
    <3>1. GivenUpTo(kind, 0) \in Seq({Given(kind, i) : i \in Nat}) /\ Len(GivenUpTo(kind, 0)) = 0
      BY GivenUpToIs
    <3>2. QED
      BY <3>1
  <2>3. Limit[kind] \in Nat
    BY LimitIs
  <2>4. QED
    BY <1>2, <2>1, <2>2, <2>3 DEF Counted
<1>4. \A kind \in DOMAIN Names : Counted(kind)' /\ Count(kind)' = 0
  BY <1>1, <1>3, CountedStays
<1>5. Looked'
  BY <1>1, <1>4, KindsAre DEF Looked
<1>6. "ttyg" \in DOMAIN Names /\ "ttyg" \in DOMAIN Past /\ Limit["ttyg"] \in Nat \ {0}
      /\ "create" \notin DOMAIN Names
  BY KindsAre, LimitIs
<1>7. index' = Count("ttyg")' /\ index' < Limit["ttyg"]
  BY <1>1, <1>2, <1>4, <1>6
<1>8. QED
  BY <1>1, <1>5, <1>6, <1>7 DEF PInv

\* A section that is not there, or one more that parses and no more allowed, ends the
\* search for its kind.
LEMMA KindEnds ==
    ASSUME PInv, NEW kind \in DOMAIN Names, phase = kind, mode = "init",
           UNCHANGED <<program, file, place, storages, mode>>,
           phase' = After(kind), index' = 0,
           parsed' = [any \in DOMAIN Names |-> parsed'[any]],
           \A other \in DOMAIN Names \ {kind} : parsed'[other] = parsed[other],
           Counted(kind)', Finished(kind)'
    PROVE  PInv'
<1>1. file # NoFile /\ place = Len(file) + 1 /\ Looked /\ storages = <<>> /\ phase # "read"
  BY KindsAre DEF PInv
<1>2. Looked' /\ (After(kind) \in DOMAIN Names => Count(After(kind))' = 0)
  BY <1>1, LookedGoesOn
<1>3. phase' \in DOMAIN Past \ {"read"}
  BY AfterIs
<1>4. phase' \in DOMAIN Names => index' = Count(phase)' /\ index' < Limit[phase']
  <2>1. phase' \in DOMAIN Names => Count(phase)' = 0
    BY <1>2 DEF Count
  <2>2. QED
    BY <2>1, LimitIs
<1>5. "gate" \in DOMAIN Names
  BY KindsAre
<1>6. Count("gate")' \in Nat
  BY <1>2, <1>5, LimitIs DEF Looked, Counted
<1>7. Built'
  BY <1>1, <1>6, BuiltBegins
<1>8. QED
  BY <1>1, <1>2, <1>3, <1>4, <1>7 DEF PInv

LEMMA ParseSectionPInv ==
    ASSUME IInv, PInv, ParseSection
    PROVE  PInv'
<1> DEFINE sec == <<phase, index>>
<1>1. /\ phase \in DOMAIN Names /\ mode = "init"
      /\ UNCHANGED <<program, file, place, storages>>
  BY DEF ParseSection, readVars
<1>2. /\ file # NoFile /\ place = Len(file) + 1 /\ Looked /\ phase # "read" /\ phase # "create"
      /\ index = Count(phase) /\ index < Limit[phase] /\ storages = <<>>
      /\ file \in Seq(Line) /\ parsed = [kind \in DOMAIN Names |-> parsed[kind]]
  BY <1>1, KindsAre DEF PInv
<1>3. Counted(phase) /\ index \in Nat /\ Limit[phase] \in Nat
  BY <1>1, <1>2, LimitIs DEF Looked, Counted
<1>4. findSection(sec) <=> sec \in HeadersIn(Len(file))
  BY <1>1, <1>2, ParserFinds
<1>5. Parses(phase, sec) <=> TellsAll(phase, index)
  BY <1>1, <1>2, ParsesWhatIsTold
<1>6. Parameters(phase, sec) = Given(phase, index)
  BY <1>1, <1>2, ParametersAreGiven
<1> HIDE DEF sec
<1>7. CASE /\ ~findSection(sec) /\ phase' = After(phase) /\ index' = 0
           /\ UNCHANGED <<parsed, mode>>
  <2>1. Finished(phase)
    BY <1>2, <1>4, <1>7 DEF Finished, sec
  <2>2. PICK kind \in DOMAIN Names : kind = phase
    BY <1>1
  <2>3. Counted(kind)' /\ Finished(kind)'
    BY <1>1, <1>3, <1>7, <2>1, <2>2, CountedStays
  <2>4. QED
    BY <1>1, <1>2, <1>7, <2>2, <2>3, KindEnds
<1>8. CASE /\ findSection(sec) /\ Parses(phase, sec)
           /\ parsed' = [parsed EXCEPT ![phase] = Append(@, Parameters(phase, sec))]
           /\ IF More(phase, index + 1)
              THEN index' = index + 1 /\ UNCHANGED phase
              ELSE index' = 0 /\ phase' = After(phase)
           /\ UNCHANGED mode
  <2> DEFINE more == Append(parsed[phase], Given(phase, index))
  <2>1. parsed' = [parsed EXCEPT ![phase] = more]
    BY <1>6, <1>8
  <2> HIDE DEF more
  <2>2. /\ parsed' = [kind \in DOMAIN Names |-> parsed'[kind]] /\ parsed'[phase] = more
        /\ \A other \in DOMAIN Names \ {phase} : parsed'[other] = parsed[other]
    BY <1>1, <1>2, <2>1
  <2>3. PICK kind \in DOMAIN Names : kind = phase
    BY <1>1
  <2>4. Counted(kind)' /\ Count(kind)' = index + 1
    BY <1>1, <1>2, <1>3, <1>4, <1>5, <1>8, <2>2, <2>3, CountedGrows DEF more, sec
  <2>5. CASE More(phase, index + 1)
    <3>1. index' = index + 1 /\ phase' = phase /\ mode' = mode /\ index + 1 < Limit[phase]
      BY <1>8, <2>5 DEF More
    <3>2. Looked'
      BY <1>1, <1>2, <2>2, <2>3, <2>4, <3>1, LookedGrows
    <3>3. index' = Count(phase)' /\ index' < Limit[phase']
      BY <2>3, <2>4, <3>1 DEF Count
    <3>4. QED
      BY <1>1, <1>2, <2>2, <3>1, <3>2, <3>3 DEF PInv
  <2>6. CASE ~More(phase, index + 1)
    <3>1. index' = 0 /\ phase' = After(phase) /\ mode' = mode /\ ~(index + 1 < Limit[phase])
      BY <1>8, <2>6 DEF More
    <3>2. Count(kind)' = Limit[kind]
      BY <1>2, <1>3, <2>3, <2>4, <3>1
    <3>3. Finished(kind)'
      BY <3>2 DEF Finished
    <3>4. QED
      BY <1>1, <2>2, <2>3, <2>4, <3>1, <3>3, KindEnds
  <2>7. QED
    BY <2>5, <2>6
<1>9. CASE /\ findSection(sec) /\ ~Parses(phase, sec) /\ Refuse
           /\ UNCHANGED <<phase, index, parsed>>
  <2>1. ~Startable
    BY <1>1, <1>2, <1>4, <1>5, <1>9, RefusedSection DEF sec
  <2>2. ~Startable'
    BY <1>1, <2>1, StartableStays
  <2>3. mode' \in {"error", "exit"}
    BY <1>9 DEF Refuse
  <2>4. Looked'
    BY <1>1, <1>2, <1>9, LookedStays
  <2>5. Count(phase)' = Count(phase)
    BY <1>9 DEF Count
  <2>6. QED
    BY <1>1, <1>2, <1>9, <2>2, <2>3, <2>4, <2>5 DEF PInv
<1>10. QED
  BY <1>7, <1>8, <1>9 DEF ParseSection, sec

\* A step of createGates or of the constructor of TtyGate that builds no gateway.
LEMMA NoGateBuilt ==
    ASSUME PInv, phase = "create", UNCHANGED <<program, file, place, phase, index, parsed, storages>>,
           \/ mode' \in {"error", "exit"} /\ ~Startable
           \/ mode' = "run" /\ program # "client"
    PROVE  PInv'
<1>1. /\ file # NoFile /\ place = Len(file) + 1 /\ Looked /\ Built
      /\ phase \notin DOMAIN Names
  BY KindsAre DEF PInv
<1>2. Looked'
  BY <1>1, LookedStays
<1>3. ~Startable => ~Startable'
  BY StartableStays
<1>4. PICK n : n = index /\ BuiltUpTo(n)
  BY <1>1 DEF Built
<1>5. BuiltUpTo(n)'
  BY <1>4, BuiltStays
<1>6. Count("gate")' = Count("gate") /\ index' = n
  BY <1>4 DEF Count
<1>7. BuiltUpTo(index)'
  BY <1>5, <1>6 DEF BuiltUpTo
<1>8. Built'
  BY <1>1, <1>6, <1>7 DEF Built
<1>9. mode' \in {"error", "exit"} => ~Startable'
  BY <1>3
<1>10. QED
  BY <1>1, <1>2, <1>8, <1>9 DEF PInv

LEMMA CreatePInv ==
    ASSUME PInv, RefuseGates \/ CreateServers \/ CreateTtyGate
    PROVE  PInv'
<1>1. phase = "create" /\ UNCHANGED <<program, file, place, phase, index, parsed, storages>>
  BY DEF RefuseGates, CreateServers, CreateTtyGate, readVars
<1>2. AllLooked
  BY <1>1, CreateLooked
<1>3. CASE RefuseGates
  <2>1. mode' = "error" /\ ~Startable
    BY <1>2, <1>3, RefusedGates DEF RefuseGates
  <2>2. QED
    BY <1>1, <2>1, NoGateBuilt
<1>4. CASE CreateServers
  BY <1>1, <1>4, NoGateBuilt DEF CreateServers
<1>5. CASE CreateTtyGate
  <2>1. CASE parsed.ttyg = <<>>
    <3>1. mode' = "exit" /\ ~Startable
      BY <1>2, <1>5, <2>1, RefusedTtyg DEF CreateTtyGate
    <3>2. QED
      BY <1>1, <3>1, NoGateBuilt
  <2>2. CASE parsed.ttyg # <<>>
    <3>1. mode' = "run" /\ program # "client"
      BY <1>5, <2>2 DEF CreateTtyGate
    <3>2. QED
      BY <1>1, <3>1, NoGateBuilt
  <2>3. QED
    BY <2>1, <2>2
<1>6. QED
  BY <1>3, <1>4, <1>5

LEMMA CreateClientPInv ==
    ASSUME PInv, CreateClient
    PROVE  PInv'
<1>1. /\ phase = "create" /\ mode = "init" /\ program = "client" /\ ~NothingToRun
      /\ UNCHANGED <<program, file, place, phase, parsed>>
  BY DEF CreateClient, readVars
<1>2. AllLooked
  BY <1>1, CreateLooked
<1>3. /\ file # NoFile /\ place = Len(file) + 1 /\ Looked /\ Built
      /\ phase \notin DOMAIN Names
  BY <1>1, KindsAre DEF PInv
<1>4. Count("gate") \in Nat /\ Count("gate") # 0
  <2>1. Count("gate") \in Nat /\ parsed.gate \in Seq({Given("gate", i) : i \in Nat})
    BY <1>2, KindsAre, SectionTaken
  <2>2. parsed.gate # <<>>
    BY <1>1 DEF NothingToRun
  <2>3. QED
    BY <2>1, <2>2 DEF Count
<1>5. PICK n \in Nat : n = index
  BY <1>3, <1>4 DEF Built
<1>6. BuiltUpTo(n) /\ n < Count("gate") /\ n + 1 \in 1 .. Count("gate")
  BY <1>1, <1>3, <1>4, <1>5 DEF Built
<1> DEFINE gate == parsed.gate[n + 1]
<1>7. CASE /\ Configures(gate)
           /\ storages' = Append(storages, [gate |-> gate, items |-> Items(gate)])
           /\ index' = index + 1
           /\ mode' = IF index + 1 = Len(parsed.gate) THEN "run" ELSE "init"
  <2>1. BuiltUpTo(n + 1)'
    BY <1>1, <1>2, <1>6, <1>7, BuiltGrows
  <2>2. Count("gate")' = Count("gate") /\ index' = n + 1
    BY <1>1, <1>5, <1>7 DEF Count
  <2>3. BuiltUpTo(index)'
    BY <2>1, <2>2 DEF BuiltUpTo
  <2>4. /\ mode' = "run" => n + 1 = Count("gate")
        /\ mode' = "init" => n + 1 # Count("gate")
        /\ mode' \in {"run", "init"}
    BY <1>5, <1>7 DEF Count
  <2>5. Built'
    BY <1>4, <1>6, <2>2, <2>3, <2>4 DEF Built
  <2>6. Looked'
    BY <1>1, <1>3, LookedStays
  <2>7. QED
    BY <1>1, <1>3, <2>4, <2>5, <2>6 DEF PInv
<1>8. CASE /\ ~Configures(gate) /\ mode' = "exit" /\ UNCHANGED <<storages, index>>
  <2>1. ~Startable
    BY <1>1, <1>2, <1>6, <1>8, RefusedClient
  <2>2. QED
    BY <1>1, <1>8, <2>1, NoGateBuilt
<1>9. QED
  BY <1>5, <1>7, <1>8 DEF CreateClient

LEMMA NextPInv == IInv /\ PInv /\ [Next]_vars => PInv'
<1> SUFFICES ASSUME IInv, PInv, [Next]_vars PROVE PInv'
  OBVIOUS
<1>1. CASE UNCHANGED vars
  <2>1. UNCHANGED <<program, file, place, phase, index, parsed, storages, mode>>
    BY <1>1 DEF vars, readVars
  <2>2. Looked => Looked'
    BY <2>1, LookedStays
  <2>3. Startable' <=> Startable
    BY <2>1, StartableStays
  <2>4. \A kind : Count(kind)' = Count(kind)
    BY <2>1 DEF Count
  <2>5. Built => Built'
    <3> SUFFICES ASSUME Built PROVE Built'
      OBVIOUS
    <3>1. PICK n : n = index /\ BuiltUpTo(n)
      BY DEF Built
    <3>2. BuiltUpTo(n)'
      BY <2>1, <3>1, BuiltStays
    <3>3. BuiltUpTo(index)'
      BY <2>1, <3>1, <3>2 DEF BuiltUpTo
    <3>4. QED
      BY <2>1, <2>4, <3>3 DEF Built
  <2>6. Count(phase)' = Count(phase)
    BY <2>1 DEF Count
  <2>7. QED
    BY <2>1, <2>2, <2>3, <2>5, <2>6 DEF PInv
<1>2. QED
  BY <1>1, ReadingPInv, EndOfFilePInv, ParseSectionPInv, CreatePInv, CreateClientPInv DEF Next

\* StartsAsWritten for every file, of any length and with any sections, and any limits on
\* their numbers: ParamParser, GateStorage and BusGate start what the file asks for and
\* refuse only what they cannot do; every gate polls parameters the file gives it, each
\* once, and none that is made up.  It polls all of them if the numbering is orderly.
THEOREM StartsWhatIsWritten == Safety => []StartsAsWritten
<1>1. Init => IInv /\ PInv
  BY InitIInv, InitPInv
<1>2. IInv /\ PInv /\ [Next]_vars => IInv' /\ PInv'
  BY NextIInv, NextPInv
<1>3. QED
  BY <1>1, <1>2, PInvStarts, PTL DEF Safety
===============================================================================
