------------------------------ MODULE HideSecret ------------------------------
(***************************************************************************)
(* HideSecretData of diff.go: the values of a Secret that is shown, with   *)
(* the manifest, the live object and the configuration that was applied    *)
(* last, are replaced by signs that still tell equal values from different *)
(* ones.  The keys come from Go maps, so they are taken in any order.      *)
(***************************************************************************)
EXTENDS Integers, FiniteSets

CONSTANTS
    Keys,           \* keys of data and stringData
    Annotations,    \* keys of metadata.annotations, without the last-applied one
    Values,         \* plain values
    Secrets,        \* [data, stringData, annotations]: what an object may hold
    Absent, Null, None

Empty == ""

\* Values are tagged: encoded in data, plain in stringData and annotations.
Encode(v) == <<"base64", v>>
Plain(v) == <<"plain", v>>

Data == [Keys -> {Encode(v) : v \in Values} \cup {Null, Absent}]
StringData == [Keys -> Values \cup {Absent}]
Notes == [Annotations -> {Plain(v) : v \in Values} \cup {Absent}]

\* The objects in the order in which the code goes over them; the last one is
\* read from an annotation of the live object.
Objs == 1..3
Live == 2
Orig == 3

\* A hidden value is one of as many signs as there are objects.
SignSet == {<<"sign", n>> : n \in Objs}

Holdings == [data : [Keys -> {Encode(v) : v \in Values} \cup {Null, Absent} \cup SignSet],
             stringData : StringData,
             annotations : [Annotations -> {Plain(v) : v \in Values} \cup {Absent} \cup SignSet]]

\* What the constants have to be.
HideSecretAssumption ==
    /\ Empty \in Values
    /\ Secrets \subseteq [data : Data, stringData : StringData, annotations : Notes]
    /\ Absent \notin SignSet /\ None \notin Holdings

VARIABLES
    given,      \* history: the objects as they came, or None
    objs,       \* the copies the function works on
    hidden,     \* hideAnnotations
    keepsOrig,  \* whether the last-applied annotation is not in hideAnnotations
    normalized, \* the objects whose data is normalized
    keys,       \* keys of data still to be hidden
    annotations,\* annotations still to be hidden
    shown       \* the last-applied annotation of the result, or None

vars == <<given, objs, hidden, keepsOrig, normalized, keys, annotations, shown>>

Init ==
    /\ given \in [Objs -> Secrets \cup {None}]
    /\ given[Live] = None => given[Orig] = None
    /\ objs = given
    /\ hidden \in SUBSET Annotations /\ keepsOrig \in BOOLEAN
    /\ normalized = {} /\ keys = {} /\ annotations = hidden
    /\ shown = None

-----------------------------------------------------------------------------
\* NormalizeSecret: stringData wins over data, and null is the empty value.
FaultyNormalizeSecret(s) ==
    [s EXCEPT !.data = [k \in Keys |-> IF s.stringData[k] # Absent /\ s.data[k] = Absent
                                       THEN Encode(s.stringData[k]) ELSE s.data[k]],
              !.stringData = [k \in Keys |-> Absent]]
NormalizeSecret(s) ==
    [s EXCEPT !.data = [k \in Keys |-> IF s.stringData[k] # Absent THEN Encode(s.stringData[k])
                                       ELSE IF s.data[k] = Null THEN Encode(Empty) ELSE s.data[k]],
              !.stringData = [k \in Keys |-> Absent]]

Next3 == Cardinality(normalized) + 1

\* The first loop: normalize an object and collect its keys.
Collect ==
    /\ normalized # Objs
    /\ normalized' = normalized \cup {Next3}
    /\ IF objs[Next3] = None THEN UNCHANGED <<objs, keys>>
       ELSE /\ objs' = [objs EXCEPT ![Next3] = NormalizeSecret(@)]
            /\ keys' = keys \cup {k \in Keys : objs'[Next3].data[k] # Absent}
    /\ UNCHANGED <<given, hidden, keepsOrig, annotations, shown>>

\* The sign of an object's value among those of its key: the values take longer
\* and longer signs as they are met.
Sign(values, i) ==
    LET first == CHOOSE j \in DOMAIN values :
                    /\ values[j] = values[i]
                    /\ \A h \in DOMAIN values : values[h] = values[i] => j <= h
    IN <<"sign", Cardinality({values[j] : j \in {h \in DOMAIN values : h <= first}})>>

Signs(column) == [i \in DOMAIN column |-> Sign(column, i)]

\* hide, for one key of data.
HideData(k) ==
    /\ normalized = Objs /\ k \in keys
    /\ LET has == {i \in Objs : objs[i] # None /\ objs[i].data[k] # Absent}
           signs == Signs([i \in has |-> objs[i].data[k]])
       IN objs' = [i \in Objs |-> IF i \in has THEN [objs[i] EXCEPT !.data[k] = signs[i]]
                                 ELSE objs[i]]
    /\ keys' = keys \ {k}
    /\ UNCHANGED <<given, hidden, keepsOrig, normalized, annotations, shown>>

\* hide, for one annotation, when the data is hidden.
HideAnnotation(a) ==
    /\ normalized = Objs /\ keys = {} /\ a \in annotations
    /\ LET has == {i \in Objs : objs[i] # None /\ objs[i].annotations[a] # Absent}
           signs == Signs([i \in has |-> objs[i].annotations[a]])
       IN objs' = [i \in Objs |-> IF i \in has THEN [objs[i] EXCEPT !.annotations[a] = signs[i]]
                                  ELSE objs[i]]
    /\ annotations' = annotations \ {a}
    /\ UNCHANGED <<given, hidden, keepsOrig, normalized, keys, shown>>

Hidden == normalized = Objs /\ keys = {} /\ annotations = {}

\* The last-applied configuration goes back to where it was read, as changed.
Restore ==
    /\ Hidden /\ shown = None /\ objs[Orig] # None
    /\ shown' = IF keepsOrig THEN objs[Orig] ELSE <<"sign", 1>>
    /\ UNCHANGED <<given, objs, hidden, keepsOrig, normalized, keys, annotations>>

Next ==
    \/ Collect \/ Restore
    \/ \E k \in Keys : HideData(k)
    \/ \E a \in Annotations : HideAnnotation(a)

Spec == Init /\ [][Next]_vars

-----------------------------------------------------------------------------
(* Properties                                                               *)

Done == Hidden /\ (objs[Orig] # None => shown # None)

\* What an object says a key is, by the rules of the API server: stringData is
\* written over data, and no value is an empty value.
Said(i, k) ==
    LET s == given[i]
    IN IF s = None THEN Absent
       ELSE IF s.stringData[k] # Absent THEN Encode(s.stringData[k])
       ELSE IF s.data[k] = Null THEN Encode(Empty) ELSE s.data[k]

\* The result differs between manifest, live object and last-applied
\* configuration exactly where the values did: equal values have equal signs and
\* different values different ones, whatever the order of the keys.
DifferencesKept ==
    Done => \A i, j \in Objs : given[i] # None /\ given[j] # None =>
        /\ \A k \in Keys : (objs[i].data[k] = objs[j].data[k]) <=> (Said(i, k) = Said(j, k))
        /\ \A a \in Annotations : (objs[i].annotations[a] = objs[j].annotations[a])
                                    <=> (given[i].annotations[a] = given[j].annotations[a])

=============================================================================
