----------------------------- MODULE ShellProofs -----------------------------
(***************************************************************************)
(* Proofs about Shell, for any commands, scripts and env files: a task the *)
(* loop comes to has its object, a device shows its variable, and what was *)
(* saved is there after a restart.                                         *)
(***************************************************************************)
EXTENDS Shell, TLAPS, SequenceTheorems, FiniteSetTheorems, WellFoundedInduction

(***************************************************************************)
(* The operations on stores.                                               *)
(***************************************************************************)
StoreFields == {"vars", "callbacks", "signals", "shown", "behind", "raised"}
VarFields   == {"type", "text", "system", "hooked"}

VarOK(v) ==
    /\ DOMAIN v = VarFields
    /\ v.type \in Types /\ IsText(v.text)
    /\ v.system \in BOOLEAN /\ v.hooked \in BOOLEAN
    /\ ~ v.system => Saveable(v.type, v.text)

VarsOK(s) ==
    /\ DOMAIN s = StoreFields
    /\ IsFiniteSet(DOMAIN s.vars)
    /\ \A k \in DOMAIN s.vars : VarOK(s.vars[k])

HooksOK(s) ==
    /\ \A k \in DOMAIN s.vars : s.vars[k].hooked <=> k \in DOMAIN s.callbacks
    /\ DOMAIN s.shown = DOMAIN s.callbacks
    /\ DOMAIN s.callbacks \subseteq DOMAIN s.vars
    /\ s.behind \subseteq DOMAIN s.callbacks

Shows(s, k) == s.vars[k].text = Convert(s.vars[k].type, s.shown[k])
ShowsAll(s) == \A k \in DOMAIN s.callbacks \ s.behind : Shows(s, k)

StoreOK(s) == VarsOK(s) /\ HooksOK(s) /\ ShowsAll(s)

LEMMA TruncatedTwice ==
    ASSUME NEW h \in Int
    PROVE  Truncated(h) \in Int /\ Truncated(Truncated(h)) = Truncated(h)
<1>1. CASE h >= 0
  <2>1. PICK d \in Int : d = h \div 2
    OBVIOUS
  <2>2. Truncated(h) = d * 2 /\ d >= 0
    BY <1>1, <2>1 DEF Truncated
  <2>3. (d * 2) \div 2 = d /\ d * 2 >= 0
    BY <2>2
  <2>. QED  BY <2>2, <2>3 DEF Truncated
<1>2. CASE ~ (h >= 0)
  <2>1. PICK d \in Int : d = (-h) \div 2
    OBVIOUS
  <2>2. Truncated(h) = -d * 2 /\ d >= 0
    BY <1>2, <2>1 DEF Truncated
  <2>3. CASE d = 0
    BY <2>2, <2>3 DEF Truncated
  <2>4. CASE d # 0
    <3>1. ~ (-d * 2 >= 0) /\ (-(-d * 2)) \div 2 = d
      BY <2>2, <2>4
    <3>. QED  BY <2>2, <3>1 DEF Truncated
  <2>. QED  BY <2>3, <2>4
<1>. QED  BY <1>1, <1>2

LEMMA TruncatedInt ==
    ASSUME NEW h \in Int, h % 2 = 0
    PROVE  Truncated(h) = h
<1>1. PICK d \in Int : h = 2 * d
  OBVIOUS
<1>2. CASE h >= 0
  BY <1>1, <1>2 DEF Truncated
<1>3. CASE ~ (h >= 0)
  <2>1. (-h) \div 2 = -d
    BY <1>1
  <2>. QED  BY <1>1, <1>3, <2>1 DEF Truncated
<1>. QED  BY <1>2, <1>3

LEMMA ConvertText ==
    ASSUME NEW type \in Types, NEW t, IsText(t)
    PROVE  /\ IsText(Convert(type, t))
           /\ type # "LINEAR" => Saveable(type, Convert(type, t))
<1>1. t.halves \in Int
  BY DEF IsText
<1>2. CASE type = "STRING"
  BY <1>1, <1>2 DEF Convert, AsString, Saveable, IsText
<1>3. CASE type = "INT"
  <2>1. Convert(type, t) = Num(Truncated(t.halves)) /\ IsText(Num(Truncated(t.halves)))
    BY <1>1, <1>3, TruncatedTwice DEF Convert, AsInt, Num, IsText
  <2>2. Convert(type, Num(Truncated(t.halves))) = Num(Truncated(t.halves))
    BY <1>1, <1>3, TruncatedTwice DEF Convert, AsInt, Num
  <2>. QED  BY <1>3, <2>1, <2>2 DEF Saveable
<1>4. CASE type = "FLOAT"
  BY <1>1, <1>4 DEF Convert, AsFloat, Saveable, Num, IsText
<1>5. CASE type = "BOOL"
  <2>1. \A u : Convert(type, u) = AsBool(u)
    BY <1>5 DEF Convert
  <2>2. AsBool(True) = True
    BY DEF AsBool
  <2>3. False # True /\ False # Num(2)
    <3>1. False.word = "false" /\ True.word = "true" /\ Num(2).halves = 2 /\ False.halves = 0
      BY DEF False, True, Word, Num
    <3>. QED  BY <3>1
  <2>4. AsBool(False) = False
    BY <2>3 DEF AsBool
  <2>5. IsText(True) /\ IsText(False)
    BY DEF True, False, Word, IsText
  <2>6. AsBool(t) = True \/ AsBool(t) = False
    BY DEF AsBool
  <2>. QED  BY <1>5, <2>1, <2>2, <2>4, <2>5, <2>6 DEF Saveable
<1>6. CASE type = "LINEAR"
  <2>1. Convert(type, t) = Num(2 * t.halves + 1)
    BY <1>6 DEF Convert, AsLinear
  <2>2. 2 * t.halves + 1 \in Int
    BY <1>1
  <2>3. IsText(Num(2 * t.halves + 1))
    BY <2>2 DEF Num, IsText
  <2>. QED  BY <1>6, <2>1, <2>3
<1>. QED  BY <1>2, <1>3, <1>4, <1>5, <1>6 DEF Types

LEMMA HoldsKeeps ==
    ASSUME NEW s, VarsOK(s), NEW k \in DOMAIN s.vars, NEW t, IsText(t)
    PROVE  /\ VarsOK(Holds(s, k, t))
           /\ DOMAIN Holds(s, k, t).vars = DOMAIN s.vars
           /\ Holds(s, k, t).vars[k].text = Convert(s.vars[k].type, t)
           /\ \A j \in DOMAIN s.vars :
                 /\ j # k => Holds(s, k, t).vars[j] = s.vars[j]
                 /\ Holds(s, k, t).vars[j].type = s.vars[j].type
                 /\ Holds(s, k, t).vars[j].hooked = s.vars[j].hooked
                 /\ Holds(s, k, t).vars[j].system = s.vars[j].system
           /\ \A f \in StoreFields \ {"vars"} : Holds(s, k, t)[f] = s[f]
<1>1. PICK v : v = [s.vars[k] EXCEPT !.text = Convert(s.vars[k].type, t)]
  OBVIOUS
<1>2. PICK r : r = Holds(s, k, t)
  OBVIOUS
<1>3. r = [s EXCEPT !.vars = [s.vars EXCEPT ![k] = v]]
  BY <1>1, <1>2 DEF Holds
<1>4. /\ DOMAIN r = StoreFields
      /\ r.vars = [s.vars EXCEPT ![k] = v]
      /\ \A f \in StoreFields \ {"vars"} : r[f] = s[f]
  BY <1>3 DEF VarsOK, StoreFields
<1>5. /\ DOMAIN v = VarFields
      /\ v.text = Convert(s.vars[k].type, t)
      /\ v.type = s.vars[k].type /\ v.hooked = s.vars[k].hooked /\ v.system = s.vars[k].system
  BY <1>1 DEF VarsOK, VarOK, VarFields
<1>6. VarOK(v)
  BY <1>5, ConvertText DEF VarsOK, VarOK, Saveable
<1>7. DOMAIN r.vars = DOMAIN s.vars
  BY <1>4
<1>8. \A j \in DOMAIN s.vars : r.vars[j] = IF j = k THEN v ELSE s.vars[j]
  BY <1>4
<1>9. VarsOK(r)
  BY <1>4, <1>6, <1>7, <1>8 DEF VarsOK
<1>. QED  BY <1>2, <1>4, <1>5, <1>7, <1>8, <1>9

\* what the callback of k leaves behind
LEMMA CalledKeeps ==
    ASSUME NEW s, VarsOK(s), HooksOK(s), NEW k, NEW t
    PROVE  /\ DOMAIN Called(s, k, t) = StoreFields
           /\ \A f \in {"vars", "callbacks", "signals", "raised"} : Called(s, k, t)[f] = s[f]
           /\ VarsOK(Called(s, k, t)) /\ HooksOK(Called(s, k, t))
           /\ \A j \in DOMAIN s.callbacks \ {k} :
                 /\ Called(s, k, t).shown[j] = s.shown[j]
                 /\ j \in Called(s, k, t).behind <=> j \in s.behind
           /\ k \in DOMAIN s.callbacks /\ Agrees(s.callbacks[k], t) =>
                 Called(s, k, t).shown[k] = t
           /\ k \in DOMAIN s.callbacks /\ ~ Agrees(s.callbacks[k], t) =>
                 \/ k \in Called(s, k, t).behind
                 \/ Called(s, k, t) = s
<1>1. PICK r : r = Called(s, k, t)
  OBVIOUS
<1>2. CASE ~ (k \in DOMAIN s.callbacks /\ ActsOn(s.callbacks[k], t))
  <2>1. r = s
    BY <1>1, <1>2 DEF Called
  <2>2. k \in DOMAIN s.callbacks => ~ Agrees(s.callbacks[k], t)
    BY <1>2 DEF ActsOn
  <2>. QED  BY <1>1, <2>1, <2>2 DEF VarsOK
<1>3. CASE k \in DOMAIN s.callbacks /\ ActsOn(s.callbacks[k], t)
  <2>1. PICK b : b = IF Agrees(s.callbacks[k], t) THEN s.behind \ {k} ELSE s.behind \cup {k}
    OBVIOUS
  <2>2. r = [[s EXCEPT !.shown = [s.shown EXCEPT ![k] = t]] EXCEPT !.behind = b]
    BY <1>1, <1>3, <2>1 DEF Called, VarsOK, StoreFields
  <2>3. /\ DOMAIN r = StoreFields
        /\ \A f \in {"vars", "callbacks", "signals", "raised"} : r[f] = s[f]
        /\ r.shown = [s.shown EXCEPT ![k] = t]
        /\ r.behind = b
    BY <2>2 DEF VarsOK, StoreFields
  <2>4. r.vars = s.vars /\ r.callbacks = s.callbacks
    BY <2>3
  <2>5. VarsOK(r)
    BY <2>3, <2>4 DEF VarsOK
  <2>6. DOMAIN r.shown = DOMAIN s.shown /\ b \subseteq s.behind \cup {k}
    BY <2>1, <2>3
  <2>7. HooksOK(r)
    BY <1>3, <2>3, <2>4, <2>6 DEF HooksOK
  <2>8. /\ r.shown[k] = t
        /\ \A j \in DOMAIN s.callbacks \ {k} : r.shown[j] = s.shown[j]
    BY <1>3, <2>3 DEF HooksOK
  <2>. QED  BY <1>1, <2>1, <2>3, <2>5, <2>7, <2>8
<1>. QED  BY <1>2, <1>3

LEMMA RaisedKeeps ==
    ASSUME NEW s, VarsOK(s), NEW k
    PROVE  /\ DOMAIN Raised(s, k) = StoreFields
           /\ \A f \in StoreFields \ {"raised"} : Raised(s, k)[f] = s[f]
BY DEF Raised, VarsOK, StoreFields

LEMMA SetVariableKeeps ==
    ASSUME NEW s, StoreOK(s), NEW k, NEW t, IsText(t)
    PROVE  /\ StoreOK(SetVariable(s, k, t).store)
           /\ DOMAIN SetVariable(s, k, t).store.vars = DOMAIN s.vars
<1>1. PICK c : c = Called(s, k, t)
  OBVIOUS
<1>2. /\ DOMAIN c = StoreFields
      /\ c.vars = s.vars /\ c.callbacks = s.callbacks
      /\ VarsOK(c) /\ HooksOK(c)
      /\ \A j \in DOMAIN s.callbacks \ {k} :
            c.shown[j] = s.shown[j] /\ (j \in c.behind <=> j \in s.behind)
      /\ k \in DOMAIN s.callbacks /\ Agrees(s.callbacks[k], t) => c.shown[k] = t
      /\ k \in DOMAIN s.callbacks /\ ~ Agrees(s.callbacks[k], t) => k \in c.behind \/ c = s
  BY <1>1, CalledKeeps DEF StoreOK
<1>3. CASE Refuses(s, k, t)
  <2>1. SetVariable(s, k, t).store = c
    BY <1>1, <1>3 DEF SetVariable
  <2>2. k \in c.behind \/ c = s
    BY <1>2, <1>3 DEF Refuses
  <2>3. ShowsAll(c)
    BY <1>2, <2>2 DEF ShowsAll, Shows, StoreOK, HooksOK
  <2>. QED  BY <1>2, <2>1, <2>3 DEF StoreOK
<1>4. CASE ~ Refuses(s, k, t) /\ ~ Has(s, k)
  <2>1. SetVariable(s, k, t).store = c
    BY <1>1, <1>4 DEF SetVariable
  <2>2. k \notin DOMAIN s.callbacks
    BY <1>4 DEF Has, StoreOK, HooksOK
  <2>3. ShowsAll(c)
    BY <1>2, <2>2 DEF ShowsAll, Shows, StoreOK, HooksOK
  <2>. QED  BY <1>2, <2>1, <2>3 DEF StoreOK
<1>5. CASE ~ Refuses(s, k, t) /\ Has(s, k) /\ ~ Takes(s.vars[k].type, t)
  <2>1. PICK r : r = [c EXCEPT !.behind = c.behind \cup ({k} \cap DOMAIN s.callbacks)]
    OBVIOUS
  <2>2. SetVariable(s, k, t).store = r
    BY <1>1, <1>5, <2>1 DEF SetVariable
  <2>3. /\ DOMAIN r = StoreFields
        /\ r.vars = s.vars /\ r.callbacks = s.callbacks /\ r.shown = c.shown
        /\ r.behind = c.behind \cup ({k} \cap DOMAIN s.callbacks)
    BY <1>2, <2>1 DEF StoreFields
  <2>4. VarsOK(r)
    BY <2>3 DEF VarsOK, StoreOK
  <2>5. HooksOK(r)
    BY <1>2, <2>3 DEF HooksOK
  <2>6. ShowsAll(r)
    BY <1>2, <2>3 DEF ShowsAll, Shows, StoreOK
  <2>. QED  BY <2>2, <2>3, <2>4, <2>5, <2>6 DEF StoreOK
<1>6. CASE ~ Refuses(s, k, t) /\ Has(s, k) /\ Takes(s.vars[k].type, t)
  <2>1. PICK d : d = Raised(c, k)
    OBVIOUS
  <2>2. DOMAIN d = StoreFields /\ \A f \in StoreFields \ {"raised"} : d[f] = c[f]
    BY <1>2, <2>1, RaisedKeeps
  <2>3. /\ d.vars = s.vars /\ d.callbacks = s.callbacks /\ d.shown = c.shown
        /\ d.behind = c.behind
    BY <1>2, <2>2 DEF StoreFields
  <2>4. VarsOK(d)
    BY <2>2, <2>3 DEF VarsOK, StoreOK
  <2>5. PICK r : r = Holds(d, k, t)
    OBVIOUS
  <2>6. SetVariable(s, k, t).store = r
    BY <1>1, <1>6, <2>1, <2>5 DEF SetVariable
  <2>7. k \in DOMAIN d.vars
    BY <1>6, <2>3 DEF Has
  <2>8. /\ VarsOK(r)
        /\ DOMAIN r.vars = DOMAIN s.vars
        /\ r.vars[k].text = Convert(s.vars[k].type, t)
        /\ \A j \in DOMAIN s.vars :
              /\ j # k => r.vars[j] = s.vars[j]
              /\ r.vars[j].type = s.vars[j].type
              /\ r.vars[j].hooked = s.vars[j].hooked
        /\ \A f \in StoreFields \ {"vars"} : r[f] = d[f]
    BY <2>3, <2>4, <2>5, <2>7, HoldsKeeps
  <2>9. r.callbacks = s.callbacks /\ r.shown = c.shown /\ r.behind = c.behind
    BY <2>3, <2>8 DEF StoreFields
  <2>10. HooksOK(r)
    BY <1>2, <2>8, <2>9 DEF HooksOK
  <2>11. ShowsAll(r)
    BY <1>2, <1>6, <2>8, <2>9 DEF ShowsAll, Shows, StoreOK, HooksOK, Refuses
  <2>. QED  BY <2>6, <2>8, <2>10, <2>11 DEF StoreOK
<1>. QED  BY <1>3, <1>4, <1>5, <1>6

\* also what it does to the variables, for a key without a callback
LEMMA SetDirectlyKeeps ==
    ASSUME NEW s, StoreOK(s), NEW k \in DOMAIN s.vars, NEW t, IsText(t)
    PROVE  /\ StoreOK(SetDirectly(s, k, t))
           /\ DOMAIN SetDirectly(s, k, t).vars = DOMAIN s.vars
           /\ \A j \in DOMAIN s.vars \ {k} : SetDirectly(s, k, t).vars[j] = s.vars[j]
           /\ SetDirectly(s, k, t).callbacks = s.callbacks
           /\ SetDirectly(s, k, t).vars[k].type = s.vars[k].type
           /\ ~ s.vars[k].hooked /\ Takes(s.vars[k].type, t) =>
                 SetDirectly(s, k, t).vars[k].text = Convert(s.vars[k].type, t)
<1>1. PICK old : old = s.vars[k].text
  OBVIOUS
<1>2. PICK c : c = IF s.vars[k].hooked THEN Called(Raised(s, k), k, old) ELSE s
  OBVIOUS
<1>3. PICK d : d = Raised(s, k)
  OBVIOUS
<1>4. /\ DOMAIN d = StoreFields
      /\ d.vars = s.vars /\ d.callbacks = s.callbacks /\ d.shown = s.shown /\ d.behind = s.behind
  BY <1>3, RaisedKeeps DEF StoreOK, StoreFields
<1>5. VarsOK(d) /\ HooksOK(d) /\ ShowsAll(d)
  BY <1>4 DEF StoreOK, VarsOK, HooksOK, ShowsAll, Shows
<1>6. /\ DOMAIN c = StoreFields
      /\ c.vars = s.vars /\ c.callbacks = s.callbacks
      /\ VarsOK(c) /\ HooksOK(c)
      /\ \A j \in DOMAIN s.callbacks \ {k} :
            c.shown[j] = s.shown[j] /\ (j \in c.behind <=> j \in s.behind)
      /\ s.vars[k].hooked /\ Refuses(s, k, old) => ShowsAll(c)
  <2>1. CASE s.vars[k].hooked
    <3>1. c = Called(d, k, old)
      BY <1>2, <1>3, <2>1
    <3>2. /\ DOMAIN c = StoreFields
          /\ c.vars = d.vars /\ c.callbacks = d.callbacks
          /\ VarsOK(c) /\ HooksOK(c)
          /\ \A j \in DOMAIN d.callbacks \ {k} :
                c.shown[j] = d.shown[j] /\ (j \in c.behind <=> j \in d.behind)
          /\ k \in DOMAIN d.callbacks /\ ~ Agrees(d.callbacks[k], old) => k \in c.behind \/ c = d
      BY <1>5, <3>1, CalledKeeps
    <3>3. Refuses(s, k, old) => ShowsAll(c)
      BY <1>4, <1>5, <3>2 DEF Refuses, ShowsAll, Shows, HooksOK
    <3>. QED  BY <1>4, <3>2, <3>3
  <2>2. CASE ~ s.vars[k].hooked
    BY <1>2, <2>2 DEF StoreOK, VarsOK
  <2>. QED  BY <2>1, <2>2
<1>7. CASE ~ Takes(s.vars[k].type, t)
  BY <1>7 DEF SetDirectly
<1>8. CASE Takes(s.vars[k].type, t) /\ s.vars[k].hooked /\ Refuses(s, k, old)
  <2>1. SetDirectly(s, k, t) = c
    BY <1>1, <1>2, <1>8 DEF SetDirectly
  <2>. QED  BY <1>6, <1>8, <2>1 DEF StoreOK
<1>9. CASE Takes(s.vars[k].type, t) /\ ~ (s.vars[k].hooked /\ Refuses(s, k, old))
  <2>1. PICK h : h = Holds(c, k, t)
    OBVIOUS
  <2>2. /\ VarsOK(h)
        /\ DOMAIN h.vars = DOMAIN s.vars
        /\ h.vars[k].text = Convert(s.vars[k].type, t)
        /\ \A j \in DOMAIN s.vars :
              /\ j # k => h.vars[j] = s.vars[j]
              /\ h.vars[j].type = s.vars[j].type
              /\ h.vars[j].hooked = s.vars[j].hooked
        /\ \A f \in StoreFields \ {"vars"} : h[f] = c[f]
    BY <1>6, <2>1, HoldsKeeps
  <2>3. /\ DOMAIN h = StoreFields
        /\ h.callbacks = s.callbacks /\ h.shown = c.shown /\ h.behind = c.behind
    BY <1>6, <2>2 DEF StoreFields, VarsOK
  <2>4. PICK b : b = IF k \in DOMAIN s.callbacks THEN c.behind \cup {k} ELSE c.behind
    OBVIOUS
  <2>5. PICK r : r = [h EXCEPT !.behind = b]
    OBVIOUS
  <2>6. SetDirectly(s, k, t) = r
    BY <1>1, <1>2, <1>9, <2>1, <2>3, <2>4, <2>5 DEF SetDirectly
  <2>7. /\ DOMAIN r = StoreFields
        /\ r.vars = h.vars /\ r.callbacks = s.callbacks /\ r.shown = c.shown /\ r.behind = b
    BY <2>3, <2>5 DEF StoreFields
  <2>8. VarsOK(r)
    BY <2>2, <2>7 DEF VarsOK
  <2>9. HooksOK(r)
    BY <1>6, <2>2, <2>4, <2>7 DEF HooksOK
  <2>10. ShowsAll(r)
    BY <1>6, <2>2, <2>4, <2>7 DEF ShowsAll, Shows, StoreOK, HooksOK
  <2>. QED  BY <2>2, <2>6, <2>7, <2>8, <2>9, <2>10 DEF StoreOK
<1>. QED  BY <1>7, <1>8, <1>9

\* the store is in order, and no variable is gone
Grows(s, r) == StoreOK(r) /\ DOMAIN s.vars \subseteq DOMAIN r.vars

\* a variable that was not there
LEMMA NewVariableKeeps ==
    ASSUME NEW s, StoreOK(s), NEW k, ~ Has(s, k), NEW v, VarOK(v), ~ v.hooked
    PROVE  Grows(s, [s EXCEPT !.vars = With(s.vars, k, v)])
<1>1. PICK r : r = [s EXCEPT !.vars = With(s.vars, k, v)]
  OBVIOUS
<1>2. /\ DOMAIN r = StoreFields
      /\ r.vars = With(s.vars, k, v) /\ r.callbacks = s.callbacks
      /\ r.shown = s.shown /\ r.behind = s.behind
  BY <1>1 DEF StoreOK, VarsOK, StoreFields
<1>3. /\ DOMAIN r.vars = DOMAIN s.vars \cup {k}
      /\ r.vars[k] = v
      /\ \A j \in DOMAIN s.vars : r.vars[j] = s.vars[j] /\ j # k
  BY <1>2 DEF With, Has
<1>4. IsFiniteSet(DOMAIN r.vars)
  BY <1>3, FS_AddElement DEF StoreOK, VarsOK
<1>5. VarsOK(r)
  BY <1>2, <1>3, <1>4 DEF VarsOK, StoreOK
<1>6. HooksOK(r)
  BY <1>2, <1>3 DEF HooksOK, StoreOK, Has
<1>7. ShowsAll(r)
  BY <1>2, <1>3 DEF ShowsAll, Shows, StoreOK, HooksOK
<1>. QED  BY <1>1, <1>3, <1>5, <1>6, <1>7 DEF Grows, StoreOK

LEMMA NewOK ==
    ASSUME NEW type \in Types \ {"LINEAR"}, NEW t, IsText(t)
    PROVE  VarOK(New(type, t, FALSE)) /\ ~ New(type, t, FALSE).hooked
<1>1. PICK v : v = New(type, t, FALSE)
  OBVIOUS
<1>2. /\ DOMAIN v = VarFields /\ v.type = type /\ v.text = Convert(type, t)
      /\ v.system = FALSE /\ v.hooked = FALSE
  BY <1>1 DEF New, VarFields
<1>3. IsText(v.text) /\ Saveable(type, v.text)
  BY <1>2, ConvertText
<1>. QED  BY <1>1, <1>2, <1>3 DEF VarOK

LEMMA AddVariableKeeps ==
    ASSUME NEW s, StoreOK(s), NEW k, NEW type \in Types \ {"LINEAR"}, NEW t, IsText(t)
    PROVE  Grows(s, AddVariable(s, k, type, t)) /\ k \in DOMAIN AddVariable(s, k, type, t).vars
<1>1. CASE Has(s, k)
  BY <1>1, SetVariableKeeps DEF AddVariable, Has, Grows
<1>2. CASE ~ Has(s, k)
  <2>1. PICK v : v = New(type, t, FALSE)
    OBVIOUS
  <2>2. AddVariable(s, k, type, t) = [s EXCEPT !.vars = With(s.vars, k, v)]
    BY <1>2, <2>1 DEF AddVariable
  <2>3. Grows(s, [s EXCEPT !.vars = With(s.vars, k, v)])
    BY <1>2, <2>1, NewOK, NewVariableKeeps
  <2>4. [s EXCEPT !.vars = With(s.vars, k, v)].vars = With(s.vars, k, v)
    BY DEF StoreOK, VarsOK, StoreFields
  <2>5. k \in DOMAIN With(s.vars, k, v)
    BY DEF With
  <2>. QED  BY <2>2, <2>3, <2>4, <2>5
<1>. QED  BY <1>1, <1>2

LEMMA RegisterVariableKeeps ==
    ASSUME NEW s, StoreOK(s), NEW k, NEW type \in Types
    PROVE  Grows(s, RegisterVariable(s, k, type))
<1>1. PICK v : v = [New("FLOAT", Num(0), TRUE) EXCEPT !.type = type]
  OBVIOUS
<1>2. /\ DOMAIN v = VarFields /\ v.type = type /\ v.text = Convert("FLOAT", Num(0))
      /\ v.system = TRUE /\ v.hooked = FALSE
  BY <1>1 DEF New, VarFields
<1>3. IsText(v.text)
  <2>1. IsText(Num(0)) /\ "FLOAT" \in Types
    BY DEF IsText, Num, Types
  <2>. QED  BY <1>2, <2>1, ConvertText
<1>4. VarOK(v) /\ ~ v.hooked
  BY <1>2, <1>3 DEF VarOK
<1>. QED  BY <1>1, <1>4, NewVariableKeeps DEF RegisterVariable, Grows

LEMMA SetSystemKeeps ==
    ASSUME NEW s, StoreOK(s), NEW k \in DOMAIN s.vars
    PROVE  /\ StoreOK(SetSystemVariable(s, k))
           /\ DOMAIN SetSystemVariable(s, k).vars = DOMAIN s.vars
           /\ SetSystemVariable(s, k).vars[k].system
<1>1. PICK v : v = [s.vars[k] EXCEPT !.system = TRUE]
  OBVIOUS
<1>2. PICK r : r = [s EXCEPT !.vars = [s.vars EXCEPT ![k] = v]]
  OBVIOUS
<1>3. SetSystemVariable(s, k) = r
  BY <1>1, <1>2 DEF SetSystemVariable
<1>4. /\ DOMAIN r = StoreFields
      /\ r.vars = [s.vars EXCEPT ![k] = v] /\ r.callbacks = s.callbacks
      /\ r.shown = s.shown /\ r.behind = s.behind
  BY <1>2 DEF StoreOK, VarsOK, StoreFields
<1>5. /\ DOMAIN v = VarFields /\ v.system = TRUE
      /\ v.type = s.vars[k].type /\ v.text = s.vars[k].text /\ v.hooked = s.vars[k].hooked
  BY <1>1 DEF StoreOK, VarsOK, VarOK, VarFields
<1>6. VarOK(v)
  BY <1>5 DEF StoreOK, VarsOK, VarOK
<1>7. DOMAIN r.vars = DOMAIN s.vars /\ \A j \in DOMAIN s.vars : r.vars[j] = IF j = k THEN v ELSE s.vars[j]
  BY <1>4
<1>8. VarsOK(r)
  BY <1>4, <1>6, <1>7 DEF StoreOK, VarsOK
<1>9. HooksOK(r)
  BY <1>4, <1>5, <1>7 DEF StoreOK, HooksOK
<1>10. ShowsAll(r)
  BY <1>4, <1>5, <1>7 DEF StoreOK, ShowsAll, Shows, HooksOK
<1>. QED  BY <1>3, <1>5, <1>7, <1>8, <1>9, <1>10 DEF StoreOK

LEMMA SetupVariableKeeps ==
    ASSUME NEW s, StoreOK(s), NEW k, NEW type \in Types \ {"LINEAR"}, NEW kind, NEW t, IsText(t)
    PROVE  Grows(s, SetupVariable(s, k, type, kind, t))
<1>1. PICK a : a = SetSystemVariable(AddVariable(s, k, type, t), k)
  OBVIOUS
<1>2. StoreOK(a) /\ k \in DOMAIN a.vars /\ a.vars[k].system /\ DOMAIN s.vars \subseteq DOMAIN a.vars
  <2>1. PICK b : b = AddVariable(s, k, type, t)
    OBVIOUS
  <2>2. StoreOK(b) /\ DOMAIN s.vars \subseteq DOMAIN b.vars /\ k \in DOMAIN b.vars
    BY <2>1, AddVariableKeeps DEF Grows
  <2>. QED  BY <1>1, <2>1, <2>2, SetSystemKeeps
<1>3. PICK v : v = [a.vars[k] EXCEPT !.hooked = TRUE]
  OBVIOUS
<1>4. PICK b : b = IF a.vars[k].text = Convert(a.vars[k].type, t) /\ ActsOn(kind, t)
                   THEN a.behind \ {k} ELSE a.behind \cup {k}
  OBVIOUS
<1>5. PICK r : r = [a EXCEPT !.vars = [a.vars EXCEPT ![k] = v],
                             !.callbacks = With(a.callbacks, k, kind),
                             !.shown = With(a.shown, k, t),
                             !.behind = b]
  OBVIOUS
<1>6. SetupVariable(s, k, type, kind, t) = r
  BY <1>1, <1>2, <1>3, <1>4, <1>5 DEF SetupVariable, StoreOK, VarsOK, StoreFields
<1>7. /\ DOMAIN r = StoreFields
      /\ r.vars = [a.vars EXCEPT ![k] = v] /\ r.callbacks = With(a.callbacks, k, kind)
      /\ r.shown = With(a.shown, k, t) /\ r.behind = b
  BY <1>2, <1>5 DEF StoreOK, VarsOK, StoreFields
<1>8. /\ DOMAIN v = VarFields /\ v.hooked = TRUE
      /\ v.type = a.vars[k].type /\ v.text = a.vars[k].text /\ v.system = a.vars[k].system
  BY <1>2, <1>3 DEF StoreOK, VarsOK, VarOK, VarFields
<1>9. VarOK(v)
  BY <1>2, <1>8 DEF StoreOK, VarsOK, VarOK
<1>10. DOMAIN r.vars = DOMAIN a.vars /\ \A j \in DOMAIN a.vars : r.vars[j] = IF j = k THEN v ELSE a.vars[j]
  BY <1>7
<1>11. VarsOK(r)
  BY <1>2, <1>7, <1>9, <1>10 DEF StoreOK, VarsOK
<1>12. /\ DOMAIN r.callbacks = DOMAIN a.callbacks \cup {k}
       /\ DOMAIN r.shown = DOMAIN a.shown \cup {k}
       /\ r.shown[k] = t
       /\ \A j \in DOMAIN a.shown \ {k} : r.shown[j] = a.shown[j]
  BY <1>7 DEF With
<1>13. HooksOK(r)
  BY <1>2, <1>4, <1>7, <1>8, <1>10, <1>12 DEF StoreOK, HooksOK
<1>14. ShowsAll(r)
  <2>1. ASSUME NEW j \in DOMAIN r.callbacks \ r.behind, j # k PROVE Shows(r, j)
    BY <1>2, <1>4, <1>7, <1>10, <1>12, <2>1 DEF StoreOK, HooksOK, ShowsAll, Shows
  <2>2. ASSUME k \notin r.behind PROVE Shows(r, k)
    BY <1>2, <1>4, <1>7, <1>8, <1>10, <1>12, <2>2 DEF Shows
  <2>. QED  BY <2>1, <2>2 DEF ShowsAll
<1>. QED  BY <1>2, <1>6, <1>10, <1>11, <1>13, <1>14 DEF Grows, StoreOK

\* changing the signals, or what was raised
LEMMA SignalsKeep ==
    ASSUME NEW s, StoreOK(s), NEW r, DOMAIN r = StoreFields,
           r.vars = s.vars, r.callbacks = s.callbacks, r.shown = s.shown, r.behind = s.behind
    PROVE  Grows(s, r)
BY DEF Grows, StoreOK, VarsOK, HooksOK, ShowsAll, Shows

(***************************************************************************)
(* Loading a file, and setting up the variables of a device, are folds: the *)
(* function they are the value of exists.                                  *)
(***************************************************************************)
LoadOne(doc, k, loaded) ==
    IF Has(loaded, k) THEN SetDirectly(loaded, k, doc[k].text)
    ELSE [loaded EXCEPT !.vars = With(@, k, New(doc[k].type, doc[k].text, FALSE))]
SetupOne(v, s) == SetupVariable(s, v.key, v.type, v.kind, v.text)

\* a fold over doc, or over a set of variables when there is none
One(of, doc, x, s) == IF of = "file" THEN LoadOne(doc, x, s) ELSE SetupOne(x, s)
Picked(K) == CHOOSE x \in K : TRUE
FoldStep(of, doc, s, at, K) ==
    IF K = {} THEN s ELSE One(of, doc, Picked(K), at[K \ {Picked(K)}])
IsFold(of, doc, s, D, at) == at = [K \in SUBSET D |-> FoldStep(of, doc, s, at, K)]

LEMMA Minimum ==
    ASSUME NEW S, S \subseteq Nat, S # {}
    PROVE  \E m \in S : \A n \in S : m <= n
<1>1. PICK m \in S : \A n \in S : ~ (<<n, m>> \in OpToRel(<, Nat))
  BY NatLessThanWellFounded, WFMin
<1>2. \A n \in S : ~ (n < m)
  BY <1>1 DEF OpToRel
<1>. QED  BY <1>2

LEMMA FoldExists ==
    ASSUME NEW of, NEW doc, NEW s, NEW D, IsFiniteSet(D)
    PROVE  \E at : IsFold(of, doc, s, D, at)
<1>. DEFINE Upto(n, at) == \A K \in SUBSET D :
                              Cardinality(K) <= n => at[K] = FoldStep(of, doc, s, at, K)
            T == {n \in Nat : ~ \E at : Upto(n, at)}
<1>1. \A K \in SUBSET D : IsFiniteSet(K) /\ Cardinality(K) \in Nat
  BY FS_Subset, FS_CardinalityType
<1>2. ASSUME NEW K \in SUBSET D, K # {}
      PROVE  K \ {Picked(K)} \in SUBSET D /\ Cardinality(K \ {Picked(K)}) = Cardinality(K) - 1
  BY <1>1, <1>2, FS_RemoveElement DEF Picked
<1>3. T = {}
  <2>. SUFFICES ASSUME T # {} PROVE FALSE
    OBVIOUS
  <2>1. PICK k \in T : \A m \in T : k <= m
    BY Minimum
  <2>2. k # 0
    <3>1. PICK f : f = [K \in SUBSET D |-> s]
      OBVIOUS
    <3>2. ASSUME NEW K \in SUBSET D, Cardinality(K) <= 0
          PROVE  f[K] = FoldStep(of, doc, s, f, K)
      <4>1. K = {}
        BY <1>1, <3>2, FS_EmptySet
      <4>. QED  BY <3>1, <4>1 DEF FoldStep
    <3>3. Upto(0, f)
      BY <3>2
    <3>. QED  BY <2>1, <3>3
  <2>3. PICK j \in Nat : j = k - 1 /\ j \notin T
    <3>1. k \in Nat
      BY <2>1
    <3>. HIDE DEF T
    <3>2. k - 1 \in Nat /\ ~ (k <= k - 1)
      BY <2>2, <3>1
    <3>. QED  BY <2>1, <3>2
  <2>4. PICK f : Upto(j, f)
    BY <2>3
  <2>5. PICK g : g = [K \in SUBSET D |-> IF Cardinality(K) = k THEN FoldStep(of, doc, s, f, K) ELSE f[K]]
    OBVIOUS
  <2>6. ASSUME NEW K \in SUBSET D, Cardinality(K) <= k
        PROVE  g[K] = FoldStep(of, doc, s, g, K)
    <3>1. k \in Nat /\ Cardinality(K) \in Nat
      BY <1>1, <2>1
    <3>2. FoldStep(of, doc, s, g, K) = FoldStep(of, doc, s, f, K)
      <4>1. CASE K = {}
        BY <4>1 DEF FoldStep
      <4>2. CASE K # {}
        <5>1. PICK L \in SUBSET D : L = K \ {Picked(K)} /\ Cardinality(L) = Cardinality(K) - 1
          BY <1>2, <4>2
        <5>2. Cardinality(L) # k
          BY <2>6, <3>1, <5>1
        <5>3. g[L] = f[L]
          BY <2>5, <5>2
        <5>. QED  BY <4>2, <5>1, <5>3 DEF FoldStep
      <4>. QED  BY <4>1, <4>2
    <3>3. CASE Cardinality(K) = k
      BY <2>5, <3>2, <3>3
    <3>4. CASE Cardinality(K) # k
      <4>1. Cardinality(K) <= j
        BY <2>3, <2>6, <3>1, <3>4
      <4>. QED  BY <2>4, <2>5, <3>2, <3>4, <4>1
    <3>. QED  BY <3>3, <3>4
  <2>7. Upto(k, g)
    BY <2>6
  <2>. QED  BY <2>1, <2>7
<1>4. Cardinality(D) \in Nat /\ \A K \in SUBSET D : Cardinality(K) <= Cardinality(D)
  BY <1>1, FS_Subset
<1>5. PICK f : Upto(Cardinality(D), f)
  BY <1>3, <1>4
<1>6. \A K \in SUBSET D : f[K] = FoldStep(of, doc, s, f, K)
  BY <1>4, <1>5
<1>7. PICK at : at = [K \in SUBSET D |-> f[K]]
  OBVIOUS
<1>8. ASSUME NEW K \in SUBSET D
      PROVE  at[K] = FoldStep(of, doc, s, at, K)
  <2>1. K \ {Picked(K)} \in SUBSET D
    OBVIOUS
  <2>2. at[K \ {Picked(K)}] = f[K \ {Picked(K)}]
    BY <1>7, <2>1
  <2>3. FoldStep(of, doc, s, at, K) = FoldStep(of, doc, s, f, K)
    BY <2>2 DEF FoldStep
  <2>. QED  BY <1>6, <1>7, <2>3
<1>9. at = [K \in SUBSET D |-> FoldStep(of, doc, s, at, K)]
  BY <1>7, <1>8
<1>. QED  BY <1>9 DEF IsFold

LEMMA LoadIsFold ==
    ASSUME NEW s, NEW doc, IsFiniteSet(DOMAIN doc)
    PROVE  \E at : IsFold("file", doc, s, DOMAIN doc, at) /\ LoadFromFile(s, doc) = at[DOMAIN doc]
<1>1. PICK at : at = CHOOSE g : IsFold("file", doc, s, DOMAIN doc, g)
  OBVIOUS
<1>2. IsFold("file", doc, s, DOMAIN doc, at)
  BY <1>1, FoldExists
<1>3. LoadFromFile(s, doc) = (CHOOSE g : IsFold("file", doc, s, DOMAIN doc, g))[DOMAIN doc]
  BY DEF LoadFromFile, FoldSet, MapThenFoldSet, IsFold, FoldStep, One, LoadOne, Picked
<1>. QED  BY <1>1, <1>2, <1>3

\* a file that saveToFile may have written
FileOK(doc) ==
    /\ IsFiniteSet(DOMAIN doc)
    /\ \A k \in DOMAIN doc : IsText(doc[k].text) /\ Saveable(doc[k].type, doc[k].text)

\* r is s after the variables K of the file
Loaded(s, doc, K, r) ==
    /\ StoreOK(r)
    /\ DOMAIN r.vars = DOMAIN s.vars \cup K
    /\ r.callbacks = s.callbacks
    /\ \A j \in DOMAIN s.vars \ K : r.vars[j] = s.vars[j]
    /\ \A j \in K \ DOMAIN s.vars : r.vars[j].text = doc[j].text
    /\ \A j \in K \cap DOMAIN s.vars :
          s.vars[j].type = "STRING" /\ ~ s.vars[j].hooked => r.vars[j].text = doc[j].text

LEMMA LoadOneKeeps ==
    ASSUME NEW s, NEW doc, FileOK(doc), NEW K \in SUBSET DOMAIN doc, NEW k \in K,
           NEW r, Loaded(s, doc, K \ {k}, r)
    PROVE  Loaded(s, doc, K, LoadOne(doc, k, r))
<1>1. k \in DOMAIN doc /\ IsText(doc[k].text) /\ Saveable(doc[k].type, doc[k].text)
  BY DEF FileOK
<1>2. CASE k \in DOMAIN s.vars
  <2>1. PICK l : l = SetDirectly(r, k, doc[k].text)
    OBVIOUS
  <2>2. k \in DOMAIN r.vars /\ r.vars[k] = s.vars[k] /\ StoreOK(r)
    BY <1>2 DEF Loaded
  <2>3. LoadOne(doc, k, r) = l
    BY <2>1, <2>2 DEF LoadOne, Has
  <2>4. /\ StoreOK(l) /\ DOMAIN l.vars = DOMAIN r.vars
        /\ \A j \in DOMAIN r.vars \ {k} : l.vars[j] = r.vars[j]
        /\ l.callbacks = r.callbacks
        /\ ~ r.vars[k].hooked /\ Takes(r.vars[k].type, doc[k].text) =>
              l.vars[k].text = Convert(r.vars[k].type, doc[k].text)
    BY <1>1, <2>1, <2>2, SetDirectlyKeeps
  <2>5. s.vars[k].type = "STRING" /\ ~ s.vars[k].hooked => l.vars[k].text = doc[k].text
    BY <2>2, <2>4 DEF Takes, Convert, AsString
  <2>. QED  BY <1>2, <2>2, <2>3, <2>4, <2>5 DEF Loaded
<1>3. CASE k \notin DOMAIN s.vars
  <2>1. PICK v : v = New(doc[k].type, doc[k].text, FALSE)
    OBVIOUS
  <2>2. PICK l : l = [r EXCEPT !.vars = With(r.vars, k, v)]
    OBVIOUS
  <2>3. ~ Has(r, k) /\ StoreOK(r)
    BY <1>3 DEF Loaded, Has
  <2>4. LoadOne(doc, k, r) = l
    BY <2>1, <2>2, <2>3 DEF LoadOne
  <2>5. VarOK(v) /\ ~ v.hooked
    BY <1>1, <2>1, NewOK DEF Saveable
  <2>6. StoreOK(l)
    BY <2>2, <2>3, <2>5, NewVariableKeeps DEF Grows
  <2>7. l.vars = With(r.vars, k, v) /\ l.callbacks = r.callbacks
    BY <2>2, <2>3 DEF StoreOK, VarsOK, StoreFields
  <2>8. /\ DOMAIN l.vars = DOMAIN r.vars \cup {k}
        /\ l.vars[k] = v
        /\ \A j \in DOMAIN r.vars : l.vars[j] = r.vars[j] /\ j # k
    BY <2>3, <2>7 DEF With, Has
  <2>9. v.text = doc[k].text
    BY <1>1, <2>1 DEF New, Saveable
  <2>. QED  BY <1>3, <2>4, <2>6, <2>7, <2>8, <2>9 DEF Loaded
<1>. QED  BY <1>2, <1>3

LEMMA LoadKeeps ==
    ASSUME NEW s, StoreOK(s), NEW doc, FileOK(doc)
    PROVE  Loaded(s, doc, DOMAIN doc, LoadFromFile(s, doc))
<1>1. PICK D : D = DOMAIN doc
  OBVIOUS
<1>2. IsFiniteSet(D)
  BY <1>1 DEF FileOK
<1>3. PICK at : IsFold("file", doc, s, D, at) /\ LoadFromFile(s, doc) = at[D]
  BY <1>1, <1>2, LoadIsFold
<1>. DEFINE T == {n \in Nat : \E K \in SUBSET D :
                                 Cardinality(K) = n /\ ~ Loaded(s, doc, K, at[K])}
<1>4. \A K \in SUBSET D : IsFiniteSet(K) /\ Cardinality(K) \in Nat
  BY <1>2, FS_Subset, FS_CardinalityType
<1>5. T = {}
  <2>. SUFFICES ASSUME T # {} PROVE FALSE
    OBVIOUS
  <2>1. PICK n \in T : \A m \in T : n <= m
    BY Minimum
  <2>2. PICK K \in SUBSET D : Cardinality(K) = n /\ ~ Loaded(s, doc, K, at[K])
    BY <2>1
  <2>3. at[K] = FoldStep("file", doc, s, at, K)
    BY <1>3 DEF IsFold
  <2>4. CASE K = {}
    <3>1. at[K] = s
      BY <2>3, <2>4 DEF FoldStep
    <3>. QED  BY <2>2, <2>4, <3>1 DEF Loaded
  <2>5. CASE K # {}
    <3>1. PICK k \in K : k = Picked(K)
      BY <2>5 DEF Picked
    <3>2. PICK L \in SUBSET D : L = K \ {k}
      OBVIOUS
    <3>3. Cardinality(L) = n - 1 /\ Cardinality(L) \in Nat /\ n \in Nat
      BY <1>4, <2>1, <2>2, <3>2, FS_RemoveElement
    <3>4. Loaded(s, doc, L, at[L])
      <4>1. Cardinality(L) \notin T
        <5>. HIDE DEF T
        <5>1. ~ (n <= Cardinality(L))
          BY <3>3
        <5>. QED  BY <2>1, <5>1
      <4>. QED  BY <3>3, <4>1
    <3>5. at[K] = LoadOne(doc, k, at[L])
      BY <2>3, <2>5, <3>1, <3>2 DEF FoldStep, One
    <3>. QED  BY <1>1, <2>2, <3>2, <3>4, <3>5, LoadOneKeeps
  <2>. QED  BY <2>4, <2>5
<1>6. Loaded(s, doc, D, at[D])
  BY <1>4, <1>5
<1>. QED  BY <1>1, <1>3, <1>6

\* the variables that a factory sets up
VariablesOK(V) ==
    /\ IsFiniteSet(V)
    /\ \A v \in V : v.type \in Types \ {"LINEAR"} /\ IsText(v.text)

LEMMA SetupKeeps ==
    ASSUME NEW s, StoreOK(s), NEW V, VariablesOK(V)
    PROVE  Grows(s, FoldSet(LAMBDA v, r : SetupVariable(r, v.key, v.type, v.kind, v.text), s, V))
<1>1. PICK at : at = CHOOSE g : IsFold("device", <<>>, s, V, g)
  OBVIOUS
<1>2. IsFold("device", <<>>, s, V, at)
  BY <1>1, FoldExists DEF VariablesOK
<1>3. FoldSet(LAMBDA v, r : SetupVariable(r, v.key, v.type, v.kind, v.text), s, V)
         = (CHOOSE g : IsFold("device", <<>>, s, V, g))[V]
  BY DEF FoldSet, MapThenFoldSet, IsFold, FoldStep, One, SetupOne, Picked
<1>. DEFINE T == {n \in Nat : \E K \in SUBSET V : Cardinality(K) = n /\ ~ Grows(s, at[K])}
<1>4. \A K \in SUBSET V : IsFiniteSet(K) /\ Cardinality(K) \in Nat
  BY FS_Subset, FS_CardinalityType DEF VariablesOK
<1>5. T = {}
  <2>. SUFFICES ASSUME T # {} PROVE FALSE
    OBVIOUS
  <2>1. PICK n \in T : \A m \in T : n <= m
    BY Minimum
  <2>2. PICK K \in SUBSET V : Cardinality(K) = n /\ ~ Grows(s, at[K])
    BY <2>1
  <2>3. at[K] = FoldStep("device", <<>>, s, at, K)
    BY <1>2 DEF IsFold
  <2>4. CASE K = {}
    BY <2>2, <2>3, <2>4 DEF FoldStep, Grows
  <2>5. CASE K # {}
    <3>1. PICK v \in K : v = Picked(K)
      BY <2>5 DEF Picked
    <3>2. PICK L \in SUBSET V : L = K \ {v}
      OBVIOUS
    <3>3. Cardinality(L) = n - 1 /\ Cardinality(L) \in Nat /\ n \in Nat
      BY <1>4, <2>1, <2>2, <3>2, FS_RemoveElement
    <3>4. Grows(s, at[L])
      <4>1. Cardinality(L) \notin T
        <5>. HIDE DEF T
        <5>1. ~ (n <= Cardinality(L))
          BY <3>3
        <5>. QED  BY <2>1, <5>1
      <4>. QED  BY <3>3, <4>1
    <3>5. at[K] = SetupVariable(at[L], v.key, v.type, v.kind, v.text)
      BY <2>3, <2>5, <3>1, <3>2 DEF FoldStep, One, SetupOne
    <3>6. v.type \in Types \ {"LINEAR"} /\ IsText(v.text)
      BY DEF VariablesOK
    <3>. QED  BY <2>2, <3>4, <3>5, <3>6, SetupVariableKeeps DEF Grows
  <2>. QED  BY <2>4, <2>5
<1>. QED  BY <1>1, <1>3, <1>4, <1>5

(***************************************************************************)
(* Signal handlers.                                                        *)
(***************************************************************************)
HandlerFields == {"filter", "command", "owned", "inLoop", "execute"}

\* "handlers" is a sequence of records
HandlersListed ==
    /\ \E S : handlers \in Seq(S)
    /\ \A p \in DOMAIN handlers : DOMAIN handlers[p] = HandlerFields

\* A task that is in the loop and destroyed is on the list of those to remove,
\* and that list is emptied before the loop begins again.
Removed ==
    /\ \A p \in DOMAIN handlers :
          handlers[p].inLoop /\ ~ handlers[p].owned => p \in tasksToKill
    /\ phase # "typed" => tasksToKill = {}

HandlerInv == HandlersListed /\ Removed

LEMMA FlaggedKeeps ==
    ASSUME HandlersListed, NEW sigs
    PROVE  /\ \E S : Flagged(sigs) \in Seq(S)
           /\ DOMAIN Flagged(sigs) = DOMAIN handlers
           /\ \A p \in DOMAIN handlers :
                 /\ DOMAIN Flagged(sigs)[p] = HandlerFields
                 /\ Flagged(sigs)[p].owned = handlers[p].owned
                 /\ Flagged(sigs)[p].inLoop = handlers[p].inLoop
                 /\ Flagged(sigs)[p].command = handlers[p].command
<1>1. PICK S : handlers \in Seq(S)
  BY DEF HandlersListed
<1>2. PICK f : f = Flagged(sigs)
  OBVIOUS
<1>3. f = [p \in DOMAIN handlers |->
             [handlers[p] EXCEPT !.execute = handlers[p].execute \/ p \in Woken(sigs)]]
  BY <1>2 DEF Flagged
<1>4. DOMAIN f = 1 .. Len(handlers) /\ Len(handlers) \in Nat
  BY <1>1, <1>3
<1>5. PICK T : T = {f[p] : p \in DOMAIN f}
  OBVIOUS
<1>6. f \in [1 .. Len(handlers) -> T]
  BY <1>3, <1>4, <1>5
<1>7. f \in Seq(T)
  BY <1>4, <1>6, SeqDef
<1>8. \A p \in DOMAIN handlers :
         /\ DOMAIN f[p] = HandlerFields
         /\ f[p].owned = handlers[p].owned
         /\ f[p].inLoop = handlers[p].inLoop
         /\ f[p].command = handlers[p].command
  BY <1>3 DEF HandlersListed, HandlerFields
<1>. QED  BY <1>2, <1>3, <1>7, <1>8

\* a step that raises signals disturbs nothing of this
LEMMA BecomesKeeps ==
    ASSUME HandlerInv, NEW s, NEW by, Becomes(s, by),
           tasksToKill \subseteq tasksToKill',
           phase' # "typed" => tasksToKill' = {}
    PROVE  HandlerInv'
<1>1. handlers' = Flagged(s.raised)
  BY DEF Becomes
<1>. QED  BY <1>1, FlaggedKeeps DEF HandlerInv, HandlersListed, Removed

LEMMA AddHandlerKeeps ==
    ASSUME HandlerInv, NEW c, NEW q, NEW by, AddHandler(c, q, by), phase' = "typed"
    PROVE  HandlerInv'
<1>1. PICK S : handlers \in Seq(S)
  BY DEF HandlerInv, HandlersListed
<1>2. PICK h : h = [filter |-> c.filter, command |-> c.command,
                    owned |-> TRUE, inLoop |-> TRUE, execute |-> FALSE]
  OBVIOUS
<1>3. handlers' = Append(handlers, h) /\ tasksToKill' = tasksToKill
  BY <1>2 DEF AddHandler
<1>4. handlers \in Seq(S \cup {h}) /\ h \in S \cup {h}
  BY <1>1
<1>5. /\ handlers' \in Seq(S \cup {h})
      /\ \A p \in DOMAIN handlers' : p \in DOMAIN handlers \/ handlers'[p] = h
      /\ \A p \in DOMAIN handlers : handlers'[p] = handlers[p]
  BY <1>3, <1>4
<1>6. DOMAIN h = HandlerFields /\ h.owned
  BY <1>2 DEF HandlerFields
<1>. QED  BY <1>3, <1>5, <1>6 DEF HandlerInv, HandlersListed, Removed

LEMMA SameLengthListed ==
    ASSUME HandlersListed, NEW g, DOMAIN g = DOMAIN handlers
    PROVE  (\E S : [p \in DOMAIN handlers |-> g[p]] \in Seq(S))
<1>1. PICK S : handlers \in Seq(S)
  BY DEF HandlersListed
<1>2. DOMAIN handlers = 1 .. Len(handlers) /\ Len(handlers) \in Nat
  BY <1>1
<1>3. PICK T : T = {g[p] : p \in DOMAIN handlers}
  OBVIOUS
<1>4. [p \in DOMAIN handlers |-> g[p]] \in [1 .. Len(handlers) -> T]
  BY <1>2, <1>3
<1>. QED  BY <1>2, <1>4, SeqDef

LEMMA StopHandlerKeeps ==
    ASSUME HandlerInv, NEW c, NEW q, NEW by, StopHandler(c, q, by), phase' = "typed"
    PROVE  HandlerInv'
<1>1. CASE c.pid \in DOMAIN handlers /\ handlers[c.pid].owned
  <2>1. /\ handlers' = [p \in DOMAIN handlers |->
                           IF p = c.pid THEN [handlers[p] EXCEPT !.owned = FALSE] ELSE handlers[p]]
        /\ tasksToKill' = tasksToKill \cup {c.pid}
    BY <1>1 DEF StopHandler
  <2>2. DOMAIN handlers' = DOMAIN handlers
    BY <2>1
  <2>3. \E S : handlers' \in Seq(S)
    <3>1. handlers' = [p \in DOMAIN handlers |-> handlers'[p]]
      BY <2>1
    <3>. QED  BY <2>2, <3>1, SameLengthListed DEF HandlerInv
  <2>4. ASSUME NEW p \in DOMAIN handlers
        PROVE  /\ DOMAIN handlers'[p] = HandlerFields
               /\ handlers'[p].inLoop = handlers[p].inLoop
               /\ p # c.pid => handlers'[p].owned = handlers[p].owned
    BY <2>1 DEF HandlerInv, HandlersListed, HandlerFields
  <2>. QED  BY <2>1, <2>2, <2>3, <2>4 DEF HandlerInv, HandlersListed, Removed
<1>2. CASE ~ (c.pid \in DOMAIN handlers /\ handlers[c.pid].owned)
  BY <1>2 DEF StopHandler, HandlerInv, HandlersListed, Removed
<1>. QED  BY <1>1, <1>2

LEMMA ExecuteLineKeeps ==
    ASSUME HandlerInv, NEW c, NEW q, NEW by, ExecuteLine(c, q, by), phase' = "typed"
    PROVE  HandlerInv'
<1>1. CASE ChangeStore(c, q, by)
  BY <1>1, BecomesKeeps DEF ChangeStore
<1>2. CASE OpenReadout(c, q, by)
  BY <1>2, BecomesKeeps DEF OpenReadout
<1>3. CASE StartTime(c, q, by)
  BY <1>3, BecomesKeeps DEF StartTime, Keeps
<1>4. CASE AddHandler(c, q, by)
  BY <1>4, AddHandlerKeeps
<1>5. CASE StopHandler(c, q, by)
  BY <1>5, StopHandlerKeeps
<1>6. CASE Kill(c, q, by)
  BY <1>6, BecomesKeeps DEF Kill, Keeps
<1>7. CASE SaveEnv(c, q, by)
  BY <1>7, BecomesKeeps DEF SaveEnv, Keeps
<1>8. CASE LoadEnv(c, q, by)
  BY <1>8, BecomesKeeps DEF LoadEnv
<1>9. CASE ChangeDirectory(c, q, by)
  BY <1>9, BecomesKeeps DEF ChangeDirectory, Keeps
<1>10. CASE Exec(c, q, by)
  BY <1>10, BecomesKeeps DEF Exec, Keeps
<1>. QED
  BY <1>1, <1>2, <1>3, <1>4, <1>5, <1>6, <1>7, <1>8, <1>9, <1>10 DEF ExecuteLine

LEMMA HandlerInvInit ==
    ASSUME Init
    PROVE  HandlerInv
BY DEF Init, HandlerInv, HandlersListed, Removed

LEMMA HandlerInvNext ==
    ASSUME HandlerInv, [Next]_vars
    PROVE  HandlerInv'
<1>1. CASE TimedTasksDone
  BY <1>1 DEF TimedTasksDone, command, HandlerInv, HandlersListed, Removed
<1>2. CASE RunHandler
  BY <1>2 DEF RunHandler, HandlerInv, HandlersListed, Removed
<1>3. CASE HandlerReturned
  <2>1. /\ handlers' = [p \in DOMAIN handlers |->
                           IF p = turn THEN [handlers[p] EXCEPT !.execute = FALSE] ELSE handlers[p]]
        /\ tasksToKill' = tasksToKill /\ phase = "returned" /\ phase' = "signals"
    BY <1>3 DEF HandlerReturned, command
  <2>2. \E S : handlers' \in Seq(S)
    <3>1. handlers' = [p \in DOMAIN handlers |-> handlers'[p]] /\ DOMAIN handlers' = DOMAIN handlers
      BY <2>1
    <3>. QED  BY <3>1, SameLengthListed DEF HandlerInv
  <2>3. ASSUME NEW p \in DOMAIN handlers
        PROVE  /\ DOMAIN handlers'[p] = HandlerFields
               /\ handlers'[p].inLoop = handlers[p].inLoop
               /\ handlers'[p].owned = handlers[p].owned
    BY <2>1 DEF HandlerInv, HandlersListed, HandlerFields
  <2>. QED  BY <2>1, <2>2, <2>3 DEF HandlerInv, HandlersListed, Removed
<1>4. CASE SignalsDone
  BY <1>4 DEF SignalsDone, command, HandlerInv, HandlersListed, Removed
<1>5. CASE ConsoleTurn
  <2>1. phase' = "typed"
    BY <1>5 DEF ConsoleTurn
  <2>2. CASE queue = <<>>
    BY <1>5, <2>2 DEF ConsoleTurn, command, HandlerInv, HandlersListed, Removed
  <2>3. CASE queue # <<>>
    BY <1>5, <2>1, <2>3, ExecuteLineKeeps DEF ConsoleTurn
  <2>. QED  BY <2>2, <2>3
<1>6. CASE FinishLoop
  <2>1. /\ handlers' = [p \in DOMAIN handlers |->
                           [handlers[p] EXCEPT !.inLoop = handlers[p].inLoop /\ p \notin tasksToKill]]
        /\ tasksToKill' = {}
    BY <1>6 DEF FinishLoop
  <2>2. \E S : handlers' \in Seq(S)
    <3>1. handlers' = [p \in DOMAIN handlers |-> handlers'[p]] /\ DOMAIN handlers' = DOMAIN handlers
      BY <2>1
    <3>. QED  BY <3>1, SameLengthListed DEF HandlerInv
  <2>3. ASSUME NEW p \in DOMAIN handlers
        PROVE  /\ DOMAIN handlers'[p] = HandlerFields
               /\ handlers'[p].inLoop = (handlers[p].inLoop /\ p \notin tasksToKill)
               /\ handlers'[p].owned = handlers[p].owned
    BY <2>1 DEF HandlerInv, HandlersListed, HandlerFields
  <2>. QED  BY <2>1, <2>2, <2>3 DEF HandlerInv, HandlersListed, Removed
<1>7. CASE TimedTask
  BY <1>7, BecomesKeeps DEF TimedTask, command, HandlerInv, Removed
<1>8. CASE TypedLine
  BY <1>8, ExecuteLineKeeps DEF TypedLine
<1>9. CASE Edge
  BY <1>9, BecomesKeeps DEF Edge, command, HandlerInv, Removed
<1>10. CASE PowerCycle
  BY <1>10 DEF PowerCycle, HandlerInv, HandlersListed, Removed
<1>11. CASE UNCHANGED vars
  BY <1>11 DEF vars, HandlerInv, HandlersListed, Removed
<1>. QED
  BY <1>1, <1>2, <1>3, <1>4, <1>5, <1>6, <1>7, <1>8, <1>9, <1>10, <1>11 DEF Next, LoopStep

\* When the loop comes to the signal tasks, each of them still has its object.
THEOREM HandlersLive == Spec => []LoopHoldsLiveHandlers
<1>1. HandlerInv => LoopHoldsLiveHandlers
  BY DEF HandlerInv, Removed, LoopHoldsLiveHandlers, InLoop
<1>. QED  BY <1>1, HandlerInvInit, HandlerInvNext, PTL DEF Spec

(***************************************************************************)
(* The console.                                                            *)
(***************************************************************************)
StoreInv ==
    /\ StoreOK(store) /\ store.raised = {}
    /\ \A t \in timedTasks : t.task = "readout" => t.key \in DOMAIN store.vars

FilesInv ==
    /\ currentDirectory \in Directories
    /\ DOMAIN files = Directories
    /\ \A d \in Directories : FileOK(files[d])
    /\ DOMAIN saved = DOMAIN files["root"]
    /\ \A k \in DOMAIN saved : saved[k] = files["root"][k].text

Issued == Commands \cup {Boot[1].command, Boot[2].command}
Queued == [command : Issued, by : Nat]

CommandInv ==
    /\ queue \in Seq(Queued)
    /\ \A p \in DOMAIN handlers : handlers[p].command \in Commands

BootInv ==
    booting =>
        /\ store = BootStore /\ handlers = <<>> /\ timedTasks = {} /\ queue = Boot
        /\ currentDirectory = "root"
        /\ phase \in {"timed", "signals", "console"}

ConsoleInv == HandlerInv /\ StoreInv /\ FilesInv /\ CommandInv

\* what a command says of itself
LEMMA CommandIs ==
    ASSUME NEW c \in Issued
    PROVE  /\ c.op \notin {"load", "exec"} => c \in Commands
           /\ c.op \in {"add", "set"} /\ c.from = "" => IsText(c.text)
           /\ c.op = "open" => VariablesOK(c.variables)
           /\ c.op = "handle" => c.command \in Commands
           /\ c.op = "cd" => c.directory \in Directories
<1>1. Boot[1].command.op = "load" /\ Boot[2].command.op = "exec"
  BY DEF Boot
<1>2. c.op \notin {"load", "exec"} => c \in Commands
  BY <1>1 DEF Issued
<1>. QED  BY <1>2, ShellAssumption DEF VariablesOK

LEMMA ValueIsText ==
    ASSUME StoreOK(store), NEW c \in Issued, c.op \in {"add", "set"}
    PROVE  IsText(Value(c))
<1>1. IsText(Word("$"))
  BY DEF Word, IsText
<1>2. \A k \in DOMAIN store.vars : IsText(store.vars[k].text)
  BY DEF StoreOK, VarsOK, VarOK
<1>. QED  BY <1>1, <1>2, CommandIs DEF Value, Lookup, Has

LEMMA OpenedGrows ==
    ASSUME StoreOK(store), NEW c \in Issued, c.op = "open"
    PROVE  Grows(store, Opened(c))
<1>1. PICK r : r = FoldSet(LAMBDA v, s : SetupVariable(s, v.key, v.type, v.kind, v.text),
                           store, c.variables)
  OBVIOUS
<1>2. VariablesOK(c.variables)
  BY CommandIs
<1>3. Grows(store, r)
  BY <1>1, <1>2, SetupKeeps
<1>4. Opened(c) = AddVariable(r, "lastOpenedDevice", "STRING", Word(c.device))
  BY <1>1 DEF Opened
<1>5. "STRING" \in Types \ {"LINEAR"} /\ IsText(Word(c.device))
  BY DEF Types, Word, IsText
<1>6. StoreOK(r)
  BY <1>3 DEF Grows
<1>7. Grows(r, AddVariable(r, "lastOpenedDevice", "STRING", Word(c.device)))
  BY <1>5, <1>6, AddVariableKeeps
<1>. QED  BY <1>3, <1>4, <1>7 DEF Grows

LEMMA RegisterSignalKeeps ==
    ASSUME NEW s, StoreOK(s), NEW k, NEW sig
    PROVE  Grows(s, RegisterSignal(s, k, sig))
<1>1. PICK e : e = With(s.signals, k, sig)
  OBVIOUS
<1>2. RegisterSignal(s, k, sig) = s \/ RegisterSignal(s, k, sig) = [s EXCEPT !.signals = e]
  BY <1>1 DEF RegisterSignal, StoreOK, VarsOK, StoreFields
<1>3. PICK r : r = RegisterSignal(s, k, sig)
  OBVIOUS
<1>4. /\ DOMAIN r = StoreFields
      /\ r.vars = s.vars /\ r.callbacks = s.callbacks /\ r.shown = s.shown /\ r.behind = s.behind
  BY <1>2, <1>3 DEF StoreOK, VarsOK, StoreFields
<1>. QED  BY <1>3, <1>4, SignalsKeep

LEMMA StoreAfterGrows ==
    ASSUME StoreOK(store), NEW c \in Issued,
           c.op \in {"add", "set", "create", "var", "emit", "open"}
    PROVE  Grows(store, StoreAfter(c))
<1>1. "STRING" \in Types \ {"LINEAR"} /\ "LINEAR" \in Types
  BY DEF Types
<1>2. CASE c.op = "add"
  <2>1. StoreAfter(c) = AddVariable(store, c.key, "STRING", Value(c))
    BY <1>2 DEF StoreAfter, Added
  <2>2. IsText(Value(c))
    BY <1>2, ValueIsText
  <2>. QED  BY <1>1, <2>1, <2>2, AddVariableKeeps
<1>3. CASE c.op = "set"
  <2>1. StoreAfter(c) = SetVariable(store, c.key, Value(c)).store
    BY <1>3 DEF StoreAfter, SetTo
  <2>2. IsText(Value(c))
    BY <1>3, ValueIsText
  <2>. QED  BY <2>1, <2>2, SetVariableKeeps DEF Grows
<1>4. CASE c.op = "create"
  <2>1. StoreAfter(c) = RegisterVariable(store, c.key, "LINEAR")
    BY <1>4 DEF StoreAfter, Created
  <2>. QED  BY <1>1, <2>1, RegisterVariableKeeps
<1>5. CASE c.op = "var"
  <2>1. StoreAfter(c) = RegisterSignal(store, c.key, c.signal)
    BY <1>5 DEF StoreAfter, Signalled
  <2>. QED  BY <2>1, RegisterSignalKeeps
<1>6. CASE c.op = "emit"
  <2>1. PICK r : r = StoreAfter(c)
    OBVIOUS
  <2>2. r = [store EXCEPT !.raised = {c.signal}]
    BY <1>6, <2>1 DEF StoreAfter, Emitted
  <2>3. /\ DOMAIN r = StoreFields
        /\ r.vars = store.vars /\ r.callbacks = store.callbacks
        /\ r.shown = store.shown /\ r.behind = store.behind
    BY <2>2 DEF StoreOK, VarsOK, StoreFields
  <2>. QED  BY <2>1, <2>3, SignalsKeep
<1>7. CASE c.op = "open"
  <2>1. StoreAfter(c) = Opened(c)
    BY <1>7 DEF StoreAfter
  <2>. QED  BY <1>7, <2>1, OpenedGrows
<1>. QED  BY <1>2, <1>3, <1>4, <1>5, <1>6, <1>7

LEMMA BecomesStore ==
    ASSUME StoreInv, HandlerInv, CommandInv,
           NEW s, Grows(store, s), NEW by, Becomes(s, by),
           \A t \in timedTasks' : t.task = "readout" => t \in timedTasks
    PROVE  StoreInv' /\ (\A p \in DOMAIN handlers' : handlers'[p].command \in Commands)
<1>1. store' = [s EXCEPT !.raised = {}] /\ handlers' = Flagged(s.raised)
  BY DEF Becomes
<1>2. PICK r : r = [s EXCEPT !.raised = {}]
  OBVIOUS
<1>3. /\ DOMAIN r = StoreFields /\ r.raised = {}
      /\ r.vars = s.vars /\ r.callbacks = s.callbacks /\ r.shown = s.shown /\ r.behind = s.behind
  BY <1>2 DEF Grows, StoreOK, VarsOK, StoreFields
<1>4. Grows(s, r)
  BY <1>3, SignalsKeep DEF Grows
<1>5. StoreOK(store') /\ DOMAIN store.vars \subseteq DOMAIN store'.vars
  BY <1>1, <1>2, <1>4 DEF Grows
<1>6. StoreInv'
  BY <1>1, <1>2, <1>3, <1>5 DEF StoreInv
<1>7. \A p \in DOMAIN handlers' : handlers'[p].command \in Commands
  BY <1>1, FlaggedKeeps DEF HandlerInv, CommandInv
<1>. QED  BY <1>6, <1>7

LEMMA SavedFileOK ==
    ASSUME NEW s, StoreOK(s)
    PROVE  FileOK(SaveToFile(s))
<1>1. PICK K : K = {k \in DOMAIN s.vars : ~ s.vars[k].system}
  OBVIOUS
<1>2. IsFiniteSet(K)
  BY <1>1, FS_Subset DEF StoreOK, VarsOK
<1>3. PICK doc : doc = [k \in K |-> [type |-> JsonType(s.vars[k]), text |-> s.vars[k].text]]
  OBVIOUS
<1>4. SaveToFile(s) = doc
  BY <1>1, <1>3 DEF SaveToFile
<1>5. ASSUME NEW k \in K
      PROVE  IsText(doc[k].text) /\ Saveable(doc[k].type, doc[k].text)
  <2>1. PICK v : v = s.vars[k]
    OBVIOUS
  <2>2. IsText(v.text) /\ Saveable(v.type, v.text)
    BY <1>1, <1>5, <2>1 DEF StoreOK, VarsOK, VarOK
  <2>3. doc[k].text = v.text /\ doc[k].type = JsonType(v)
    BY <1>3, <2>1
  <2>4. CASE v.type = "FLOAT" /\ v.text.halves % 2 = 0
    <3>1. JsonType(v) = "INT"
      BY <2>4 DEF JsonType
    <3>2. v.text = Num(v.text.halves)
      BY <2>2, <2>4 DEF Saveable, Convert, AsFloat
    <3>3. Truncated(v.text.halves) = v.text.halves
      BY <2>2, <2>4, TruncatedInt DEF IsText
    <3>4. Convert("INT", v.text) = v.text
      BY <3>2, <3>3 DEF Convert, AsInt
    <3>. QED  BY <2>2, <2>3, <3>1, <3>4 DEF Saveable, Types
  <2>5. CASE ~ (v.type = "FLOAT" /\ v.text.halves % 2 = 0)
    BY <2>2, <2>3, <2>5 DEF JsonType
  <2>. QED  BY <2>4, <2>5
<1>6. DOMAIN doc = K
  BY <1>3
<1>. QED  BY <1>2, <1>4, <1>5, <1>6 DEF FileOK

LEMMA SaveEnvKeeps ==
    ASSUME ConsoleInv, NEW c \in Issued, NEW q, NEW by, SaveEnv(c, q, by)
    PROVE  FilesInv'
<1>1. CASE UNCHANGED <<files, saved>>
  BY <1>1 DEF SaveEnv, ConsoleInv, FilesInv
<1>2. CASE ~ UNCHANGED <<files, saved>>
  <2>1. PICK doc : doc = SaveToFile(store)
    OBVIOUS
  <2>2. FileOK(doc)
    BY <2>1, SavedFileOK DEF ConsoleInv, StoreInv
  <2>3. /\ files' = [files EXCEPT ![currentDirectory] = doc]
        /\ currentDirectory' = currentDirectory
    BY <1>2, <2>1 DEF SaveEnv
  <2>4. /\ DOMAIN files' = Directories
        /\ \A d \in Directories : files'[d] = IF d = currentDirectory THEN doc ELSE files[d]
    BY <2>3 DEF ConsoleInv, FilesInv
  <2>5. \A d \in Directories : FileOK(files'[d])
    BY <2>2, <2>4 DEF ConsoleInv, FilesInv
  <2>6. CASE currentDirectory # "root"
    <3>1. saved' = saved /\ files'["root"] = files["root"]
      BY <1>2, <2>4, <2>6, ShellAssumption DEF SaveEnv
    <3>. QED  BY <2>3, <2>4, <2>5, <3>1 DEF ConsoleInv, FilesInv
  <2>7. CASE currentDirectory = "root"
    <3>1. PICK K : K = {k \in DOMAIN store.vars : ~ store.vars[k].system}
      OBVIOUS
    <3>2. saved' = [k \in K |-> store.vars[k].text]
      BY <1>2, <2>7, <3>1 DEF SaveEnv
    <3>3. doc = [k \in K |-> [type |-> JsonType(store.vars[k]), text |-> store.vars[k].text]]
      BY <2>1, <3>1 DEF SaveToFile
    <3>4. files'["root"] = doc
      BY <2>4, <2>7, ShellAssumption
    <3>5. /\ DOMAIN saved' = DOMAIN files'["root"]
          /\ \A k \in DOMAIN saved' : saved'[k] = files'["root"][k].text
      BY <3>2, <3>3, <3>4
    <3>. QED  BY <2>3, <2>4, <2>5, <3>5 DEF ConsoleInv, FilesInv
  <2>. QED  BY <2>6, <2>7
<1>. QED  BY <1>1, <1>2

LEMMA OpenReadoutKeeps ==
    ASSUME ConsoleInv, NEW c \in Issued, NEW q, NEW by, OpenReadout(c, q, by)
    PROVE  StoreInv' /\ (\A p \in DOMAIN handlers' : handlers'[p].command \in Commands)
<1>1. PICK a : a = AddVariable(store, c.key, "INT", Num(0))
  OBVIOUS
<1>2. PICK s : s = SetSystemVariable(a, c.key)
  OBVIOUS
<1>3. "INT" \in Types \ {"LINEAR"} /\ IsText(Num(0))
  BY DEF Types, Num, IsText
<1>4. Grows(store, a) /\ c.key \in DOMAIN a.vars
  BY <1>1, <1>3, AddVariableKeeps DEF ConsoleInv, StoreInv
<1>5. StoreOK(s) /\ DOMAIN s.vars = DOMAIN a.vars
  BY <1>2, <1>4, SetSystemKeeps DEF Grows
<1>6. store' = [s EXCEPT !.raised = {}] /\ handlers' = Flagged(s.raised)
  BY <1>1, <1>2 DEF OpenReadout, Becomes
<1>7. PICK r : r = [s EXCEPT !.raised = {}]
  OBVIOUS
<1>8. /\ DOMAIN r = StoreFields /\ r.raised = {}
      /\ r.vars = s.vars /\ r.callbacks = s.callbacks /\ r.shown = s.shown /\ r.behind = s.behind
  BY <1>5, <1>7 DEF StoreOK, VarsOK, StoreFields
<1>9. Grows(s, r)
  BY <1>5, <1>8, SignalsKeep
<1>10. timedTasks' = timedTasks \cup {[task |-> "readout", key |-> c.key]}
  BY DEF OpenReadout
<1>11. /\ StoreOK(store') /\ DOMAIN store.vars \subseteq DOMAIN store'.vars
       /\ c.key \in DOMAIN store'.vars
  BY <1>4, <1>5, <1>6, <1>7, <1>9 DEF Grows
<1>12. StoreInv'
  BY <1>6, <1>7, <1>8, <1>10, <1>11 DEF ConsoleInv, StoreInv
<1>13. \A p \in DOMAIN handlers' : handlers'[p].command \in Commands
  BY <1>6, FlaggedKeeps DEF ConsoleInv, HandlerInv, CommandInv
<1>. QED  BY <1>12, <1>13

LEMMA ExecuteLineConsole ==
    ASSUME ConsoleInv, NEW c \in Issued, NEW q \in Seq(Queued), NEW by, ExecuteLine(c, q, by)
    PROVE  StoreInv' /\ FilesInv' /\ CommandInv'
<1>. DEFINE Handled == \A p \in DOMAIN handlers' : handlers'[p].command \in Commands
<1>1. Grows(store, store)
  BY DEF ConsoleInv, StoreInv, Grows
<1>2. CASE ChangeStore(c, q, by)
  <2>1. PICK s : s = StoreAfter(c)
    OBVIOUS
  <2>2. Grows(store, s) /\ Becomes(s, by) /\ timedTasks' = timedTasks
    BY <1>2, <2>1, StoreAfterGrows DEF ChangeStore, ConsoleInv, StoreInv
  <2>3. StoreInv' /\ Handled
    BY <2>2, BecomesStore DEF ConsoleInv
  <2>. QED  BY <1>2, <2>3 DEF ChangeStore, ConsoleInv, FilesInv, CommandInv
<1>3. CASE OpenReadout(c, q, by)
  <2>1. StoreInv' /\ Handled
    BY <1>3, OpenReadoutKeeps
  <2>. QED  BY <1>3, <2>1 DEF OpenReadout, ConsoleInv, FilesInv, CommandInv
<1>4. CASE StartTime(c, q, by)
  <2>1. PICK s : s = SetVariable(store, c.key, Word("12:00")).store
    OBVIOUS
  <2>2. Grows(store, s)
    <3>1. IsText(Word("12:00"))
      BY DEF Word, IsText
    <3>. QED  BY <2>1, <3>1, SetVariableKeeps DEF ConsoleInv, StoreInv, Grows
  <2>3. CASE UNCHANGED timedTasks /\ Keeps(by)
    <3>1. StoreInv' /\ Handled
      BY <1>1, <2>3, BecomesStore DEF ConsoleInv, Keeps
    <3>. QED  BY <1>4, <3>1 DEF StartTime, ConsoleInv, FilesInv, CommandInv
  <2>4. CASE ~ (UNCHANGED timedTasks /\ Keeps(by))
    <3>1. /\ Becomes(s, by)
          /\ timedTasks' = timedTasks \cup {[task |-> "time", key |-> c.key]}
      BY <1>4, <2>1, <2>4 DEF StartTime
    <3>2. \A t \in timedTasks' : t.task = "readout" => t \in timedTasks
      BY <3>1
    <3>3. StoreInv' /\ Handled
      BY <2>2, <3>1, <3>2, BecomesStore DEF ConsoleInv
    <3>. QED  BY <1>4, <3>3 DEF StartTime, ConsoleInv, FilesInv, CommandInv
  <2>. QED  BY <2>3, <2>4
<1>5. CASE AddHandler(c, q, by)
  <2>1. PICK h : h = [filter |-> c.filter, command |-> c.command,
                    owned |-> TRUE, inLoop |-> TRUE, execute |-> FALSE]
    OBVIOUS
  <2>2. h.command \in Commands
    BY <1>5, <2>1, CommandIs DEF AddHandler
  <2>3. PICK S : handlers \in Seq(S)
    BY DEF ConsoleInv, HandlerInv, HandlersListed
  <2>4. handlers' = Append(handlers, h)
    BY <1>5, <2>1 DEF AddHandler
  <2>5. \A p \in DOMAIN handlers' :
           handlers'[p] = h \/ (p \in DOMAIN handlers /\ handlers'[p] = handlers[p])
    BY <2>3, <2>4
  <2>6. Handled
    BY <2>2, <2>5 DEF ConsoleInv, CommandInv
  <2>. QED  BY <1>5, <2>6 DEF AddHandler, ConsoleInv, StoreInv, FilesInv, CommandInv
<1>6. CASE StopHandler(c, q, by)
  <2>1. /\ DOMAIN handlers' = DOMAIN handlers
        /\ \A p \in DOMAIN handlers : handlers'[p].command = handlers[p].command
    <3>1. CASE c.pid \in DOMAIN handlers /\ handlers[c.pid].owned
      <4>1. handlers' = [p \in DOMAIN handlers |->
                            IF p = c.pid THEN [handlers[p] EXCEPT !.owned = FALSE] ELSE handlers[p]]
        BY <1>6, <3>1 DEF StopHandler
      <4>. QED  BY <4>1 DEF ConsoleInv, HandlerInv, HandlersListed, HandlerFields
    <3>2. CASE ~ (c.pid \in DOMAIN handlers /\ handlers[c.pid].owned)
      BY <1>6, <3>2 DEF StopHandler
    <3>. QED  BY <3>1, <3>2
  <2>. QED  BY <1>6, <2>1 DEF StopHandler, ConsoleInv, StoreInv, FilesInv, CommandInv
<1>7. CASE Kill(c, q, by)
  <2>1. StoreInv' /\ Handled
    BY <1>1, <1>7, BecomesStore DEF ConsoleInv, Keeps, Kill
  <2>. QED  BY <1>7, <2>1 DEF Kill, ConsoleInv, FilesInv, CommandInv
<1>8. CASE SaveEnv(c, q, by)
  <2>1. StoreInv' /\ Handled
    BY <1>1, <1>8, BecomesStore DEF ConsoleInv, Keeps, SaveEnv
  <2>2. FilesInv'
    BY <1>8, SaveEnvKeeps
  <2>. QED  BY <1>8, <2>1, <2>2 DEF SaveEnv, ConsoleInv, CommandInv
<1>9. CASE LoadEnv(c, q, by)
  <2>1. PICK doc : doc = files[currentDirectory]
    OBVIOUS
  <2>2. PICK s : s = LoadFromFile(store, doc)
    OBVIOUS
  <2>3. FileOK(doc) /\ StoreOK(store)
    BY <2>1 DEF ConsoleInv, FilesInv, StoreInv
  <2>4. Grows(store, s)
    BY <2>2, <2>3, LoadKeeps DEF Loaded, Grows
  <2>5. Becomes(s, by) /\ timedTasks' = timedTasks
    BY <1>9, <2>1, <2>2 DEF LoadEnv
  <2>6. StoreInv' /\ Handled
    BY <2>4, <2>5, BecomesStore DEF ConsoleInv
  <2>. QED  BY <1>9, <2>6 DEF LoadEnv, ConsoleInv, FilesInv, CommandInv
<1>10. CASE ChangeDirectory(c, q, by)
  <2>1. StoreInv' /\ Handled
    BY <1>1, <1>10, BecomesStore DEF ConsoleInv, Keeps, ChangeDirectory
  <2>2. c.directory \in Directories
    BY <1>10, CommandIs DEF ChangeDirectory
  <2>. QED  BY <1>10, <2>1, <2>2 DEF ChangeDirectory, ConsoleInv, FilesInv, CommandInv
<1>11. CASE Exec(c, q, by)
  <2>1. StoreInv' /\ Handled
    BY <1>1, <1>11, BecomesStore DEF ConsoleInv, Keeps, Exec
  <2>2. PICK body : body = IF Value(c).word \in DOMAIN Scripts THEN Scripts[Value(c).word] ELSE <<>>
    OBVIOUS
  <2>3. body \in Seq(Commands)
    <3>1. PICK n : n = Value(c).word
      OBVIOUS
    <3>2. \A i \in DOMAIN Scripts : Scripts[i] \in Seq(Commands)
      BY ShellAssumption
    <3>. QED  BY <2>2, <3>1, <3>2
  <2>4. PICK m : m = [i \in DOMAIN body |-> [command |-> body[i], by |-> Nobody]]
    OBVIOUS
  <2>5. m \in Seq(Queued)
    <3>1. DOMAIN body = 1 .. Len(body) /\ Len(body) \in Nat
      BY <2>3
    <3>2. \A i \in 1 .. Len(body) : body[i] \in Issued
      BY <2>3, <3>1 DEF Issued
    <3>3. m \in [1 .. Len(body) -> Queued]
      BY <2>4, <3>1, <3>2 DEF Queued, Nobody
    <3>. QED  BY <3>1, <3>3, SeqDef
  <2>6. queue' = q \o m
    BY <1>11, <2>2, <2>4 DEF Exec
  <2>7. queue' \in Seq(Queued)
    BY <2>5, <2>6
  <2>. QED  BY <1>11, <2>1, <2>7 DEF Exec, ConsoleInv, FilesInv, CommandInv
<1>. QED
  BY <1>2, <1>3, <1>4, <1>5, <1>6, <1>7, <1>8, <1>9, <1>10, <1>11 DEF ExecuteLine

LEMMA BootStoreOK ==
    /\ StoreOK(BootStore) /\ BootStore.raised = {}
    /\ DOMAIN BootStore.vars = {"init-script"}
    /\ BootStore.vars["init-script"].type = "STRING"
    /\ ~ BootStore.vars["init-script"].hooked
    /\ BootStore = [f \in StoreFields |-> BootStore[f]]
<1>1. PICK e : e = EmptyStore
  OBVIOUS
<1>2. /\ DOMAIN e = StoreFields /\ e.vars = <<>> /\ e.callbacks = <<>>
      /\ e.shown = <<>> /\ e.behind = {} /\ e.raised = {}
  BY <1>1 DEF EmptyStore, StoreFields
<1>3. DOMAIN <<>> = {} /\ IsFiniteSet({})
  BY FS_EmptySet
<1>4. StoreOK(e)
  BY <1>2, <1>3 DEF StoreOK, VarsOK, HooksOK, ShowsAll
<1>5. PICK w : w = Word("startup.sh")
  OBVIOUS
<1>6. "STRING" \in Types \ {"LINEAR"} /\ IsText(w)
  BY <1>5 DEF Types, Word, IsText
<1>7. StoreOK(AddVariable(e, "init-script", "STRING", w))
  BY <1>4, <1>6, AddVariableKeeps DEF Grows
<1>8. PICK v : v = New("STRING", w, FALSE)
  OBVIOUS
<1>9. PICK r : r = [e EXCEPT !.vars = With(e.vars, "init-script", v)]
  OBVIOUS
<1>10. BootStore = r
  BY <1>1, <1>2, <1>3, <1>5, <1>8, <1>9 DEF BootStore, AddVariable, Has
<1>11. v.type = "STRING" /\ v.hooked = FALSE
  BY <1>8 DEF New
<1>12. r.vars = With(e.vars, "init-script", v) /\ r.raised = {}
  BY <1>2, <1>9 DEF StoreFields
<1>13. DOMAIN r.vars = {"init-script"} /\ r.vars["init-script"] = v
  BY <1>2, <1>3, <1>12 DEF With
<1>14. r = [f \in StoreFields |-> r[f]]
  BY <1>2, <1>9
<1>. QED  BY <1>1, <1>5, <1>7, <1>10, <1>11, <1>12, <1>13, <1>14 DEF BootStore

LEMMA BootQueued == Boot \in Seq(Queued)
BY DEF Boot, Queued, Issued, Nobody

LEMMA ConsoleInvInit ==
    ASSUME Init
    PROVE  ConsoleInv /\ BootInv
<1>1. StoreInv
  BY BootStoreOK DEF Init, StoreInv
<1>2. FilesInv
  <2>1. PICK doc \in EnvFiles :
           /\ files = [d \in Directories |-> IF d = "root" THEN doc ELSE NoFile]
           /\ saved = [k \in DOMAIN doc |-> doc[k].text]
    BY DEF Init
  <2>2. FileOK(doc)
    BY <2>1, ShellAssumption DEF FileOK
  <2>3. FileOK(NoFile)
    <3>1. DOMAIN <<>> = {} /\ IsFiniteSet({})
      BY FS_EmptySet
    <3>. QED  BY <3>1 DEF FileOK, NoFile
  <2>4. files["root"] = doc
    BY <2>1, ShellAssumption
  <2>. QED  BY <2>1, <2>2, <2>3, <2>4, ShellAssumption DEF FilesInv, Init
<1>3. CommandInv
  BY BootQueued DEF Init, CommandInv
<1>4. BootInv
  BY DEF Init, BootInv
<1>. QED  BY <1>1, <1>2, <1>3, <1>4, HandlerInvInit DEF ConsoleInv

LEMMA MinDue ==
    ASSUME HandlersListed, Due # {}
    PROVE  Min(Due) \in Due /\ Min(Due) \in DOMAIN handlers /\ Min(Due) \in Nat
<1>1. PICK S : handlers \in Seq(S)
  BY DEF HandlersListed
<1>2. PICK D : D = Due
  OBVIOUS
<1>3. D \subseteq DOMAIN handlers /\ DOMAIN handlers = 1 .. Len(handlers) /\ Len(handlers) \in Nat
  BY <1>1, <1>2 DEF Due, InLoop
<1>4. D \subseteq Nat /\ D # {}
  BY <1>2, <1>3
<1>5. PICK m \in D : \A n \in D : m <= n
  BY <1>4, Minimum
<1>6. Min(D) \in D
  BY <1>5 DEF Min
<1>. QED  BY <1>2, <1>3, <1>4, <1>6

LEMMA ConsoleInvNext ==
    ASSUME ConsoleInv, [Next]_vars
    PROVE  ConsoleInv'
<1>. USE DEF ConsoleInv
<1>0. HandlerInv'
  BY HandlerInvNext
<1>1. CASE TimedTasksDone
  BY <1>0, <1>1 DEF TimedTasksDone, command, StoreInv, FilesInv, CommandInv
<1>2. CASE RunHandler
  <2>1. PICK p \in DOMAIN handlers : p = Min(Due) /\ p \in Nat
    BY <1>2, MinDue DEF RunHandler, HandlerInv
  <2>2. PICK e : e = [command |-> handlers[p].command, by |-> p]
    OBVIOUS
  <2>3. e \in Queued
    BY <2>1, <2>2 DEF CommandInv, Queued, Issued
  <2>4. queue' = Append(queue, e)
    BY <1>2, <2>1, <2>2 DEF RunHandler
  <2>5. queue' \in Seq(Queued)
    BY <2>3, <2>4 DEF CommandInv
  <2>. QED  BY <1>0, <1>2, <2>5 DEF RunHandler, StoreInv, FilesInv, CommandInv
<1>3. CASE HandlerReturned
  <2>1. handlers' = [p \in DOMAIN handlers |->
                        IF p = turn THEN [handlers[p] EXCEPT !.execute = FALSE] ELSE handlers[p]]
    BY <1>3 DEF HandlerReturned
  <2>2. /\ DOMAIN handlers' = DOMAIN handlers
        /\ \A p \in DOMAIN handlers : handlers'[p].command = handlers[p].command
    BY <2>1 DEF HandlerInv, HandlersListed, HandlerFields
  <2>. QED  BY <1>0, <1>3, <2>2 DEF HandlerReturned, command, StoreInv, FilesInv, CommandInv
<1>4. CASE SignalsDone
  BY <1>0, <1>4 DEF SignalsDone, command, StoreInv, FilesInv, CommandInv
<1>5. CASE ConsoleTurn
  <2>1. CASE queue = <<>>
    BY <1>0, <1>5, <2>1 DEF ConsoleTurn, command, StoreInv, FilesInv, CommandInv
  <2>2. CASE queue # <<>>
    <3>1. Head(queue) \in Queued /\ Tail(queue) \in Seq(Queued)
      BY <2>2 DEF CommandInv
    <3>2. Head(queue).command \in Issued
      BY <3>1 DEF Queued
    <3>3. ExecuteLine(Head(queue).command, Tail(queue), Head(queue).by)
      BY <1>5, <2>2 DEF ConsoleTurn
    <3>4. PICK c \in Issued, q \in Seq(Queued) : ExecuteLine(c, q, Head(queue).by)
      BY <3>1, <3>2, <3>3
    <3>. QED  BY <1>0, <3>4, ExecuteLineConsole
  <2>. QED  BY <2>1, <2>2
<1>6. CASE FinishLoop
  <2>1. handlers' = [p \in DOMAIN handlers |->
                        [handlers[p] EXCEPT !.inLoop = handlers[p].inLoop /\ p \notin tasksToKill]]
    BY <1>6 DEF FinishLoop
  <2>2. /\ DOMAIN handlers' = DOMAIN handlers
        /\ \A p \in DOMAIN handlers : handlers'[p].command = handlers[p].command
    BY <2>1 DEF HandlerInv, HandlersListed, HandlerFields
  <2>. QED  BY <1>0, <1>6, <2>2 DEF FinishLoop, StoreInv, FilesInv, CommandInv
<1>7. CASE TimedTask
  <2>1. PICK t \in timedTasks :
           \/ /\ t.task = "readout"
              /\ \E n \in Samples : Becomes(SetDirectly(store, t.key, Num(n)), Nobody)
           \/ /\ t.task = "time"
              /\ Becomes(SetVariable(store, t.key, Word("12:01")).store, Nobody)
    BY <1>7 DEF TimedTask
  <2>2. \E s : Grows(store, s) /\ Becomes(s, Nobody)
    <3>1. CASE /\ t.task = "readout"
               /\ \E n \in Samples : Becomes(SetDirectly(store, t.key, Num(n)), Nobody)
      <4>1. PICK n \in Samples : Becomes(SetDirectly(store, t.key, Num(n)), Nobody)
        BY <3>1
      <4>2. IsText(Num(n))
        BY ShellAssumption DEF Num, IsText
      <4>3. t.key \in DOMAIN store.vars
        BY <3>1 DEF StoreInv
      <4>4. Grows(store, SetDirectly(store, t.key, Num(n)))
        BY <4>2, <4>3, SetDirectlyKeeps DEF StoreInv, Grows
      <4>. QED  BY <4>1, <4>4
    <3>2. CASE Becomes(SetVariable(store, t.key, Word("12:01")).store, Nobody)
      <4>1. IsText(Word("12:01"))
        BY DEF Word, IsText
      <4>2. Grows(store, SetVariable(store, t.key, Word("12:01")).store)
        BY <4>1, SetVariableKeeps DEF StoreInv, Grows
      <4>. QED  BY <3>2, <4>2
    <3>. QED  BY <2>1, <3>1, <3>2
  <2>3. PICK s : Grows(store, s) /\ Becomes(s, Nobody)
    BY <2>2
  <2>4. UNCHANGED command
    BY <1>7 DEF TimedTask
  <2>5. StoreInv' /\ \A p \in DOMAIN handlers' : handlers'[p].command \in Commands
    BY <2>3, <2>4, BecomesStore DEF command
  <2>. QED  BY <1>0, <2>4, <2>5 DEF command, FilesInv, CommandInv
<1>8. CASE TypedLine
  <2>1. PICK c \in Typed : ExecuteLine(c, queue, Nobody)
    BY <1>8 DEF TypedLine
  <2>2. c \in Issued
    BY ShellAssumption DEF Issued
  <2>. QED  BY <1>0, <2>1, <2>2, ExecuteLineConsole DEF CommandInv
<1>9. CASE Edge
  <2>1. PICK s : s = [store EXCEPT !.raised = {"edge"}]
    OBVIOUS
  <2>2. /\ DOMAIN s = StoreFields
        /\ s.vars = store.vars /\ s.callbacks = store.callbacks
        /\ s.shown = store.shown /\ s.behind = store.behind
    BY <2>1 DEF StoreInv, StoreOK, VarsOK, StoreFields
  <2>3. Grows(store, s)
    BY <2>2, SignalsKeep DEF StoreInv
  <2>4. Becomes(s, Nobody) /\ UNCHANGED command
    BY <1>9, <2>1 DEF Edge
  <2>5. StoreInv' /\ \A p \in DOMAIN handlers' : handlers'[p].command \in Commands
    BY <2>3, <2>4, BecomesStore DEF command
  <2>. QED  BY <1>0, <2>4, <2>5 DEF command, FilesInv, CommandInv
<1>10. CASE PowerCycle
  <2>1. StoreInv'
    BY <1>10, BootStoreOK DEF PowerCycle, StoreInv
  <2>2. FilesInv'
    BY <1>10, ShellAssumption DEF PowerCycle, FilesInv
  <2>3. CommandInv'
    BY <1>10, BootQueued DEF PowerCycle, CommandInv
  <2>. QED  BY <1>0, <2>1, <2>2, <2>3
<1>11. CASE UNCHANGED vars
  BY <1>0, <1>11 DEF vars, StoreInv, FilesInv, CommandInv
<1>. QED
  BY <1>1, <1>2, <1>3, <1>4, <1>5, <1>6, <1>7, <1>8, <1>9, <1>10, <1>11 DEF Next, LoopStep

\* Until the console's first turn a board is as main() left it.
LEMMA BootInvNext ==
    ASSUME BootInv, [Next]_vars
    PROVE  BootInv'
<1>. SUFFICES ASSUME booting'
              PROVE  /\ store' = BootStore /\ handlers' = <<>> /\ timedTasks' = {} /\ queue' = Boot
                     /\ currentDirectory' = "root"
                     /\ phase' \in {"timed", "signals", "console"}
  BY DEF BootInv
<1>1. CASE PowerCycle
  BY <1>1 DEF PowerCycle
<1>2. CASE UNCHANGED vars
  BY <1>2 DEF vars, BootInv
<1>3. CASE Next /\ ~ PowerCycle
  <2>1. ~ ConsoleTurn
    BY DEF ConsoleTurn
  <2>2. booting
    BY <1>3, <2>1 DEF Next, LoopStep, TimedTasksDone, RunHandler, HandlerReturned,
                      SignalsDone, FinishLoop, TimedTask, TypedLine, Edge
  <2>3. /\ store = BootStore /\ handlers = <<>> /\ timedTasks = {} /\ queue = Boot
        /\ currentDirectory = "root"
        /\ phase \in {"timed", "signals", "console"}
    BY <2>2 DEF BootInv
  <2>4. InLoop = {}
    BY <2>3 DEF InLoop
  <2>5. CASE TimedTasksDone
    BY <2>3, <2>5 DEF TimedTasksDone, command
  <2>6. CASE SignalsDone
    BY <2>3, <2>6 DEF SignalsDone, command
  <2>7. CASE Edge
    <3>1. PICK s : s = [store EXCEPT !.raised = {"edge"}]
      OBVIOUS
    <3>2. store' = [s EXCEPT !.raised = {}] /\ handlers' = Flagged(s.raised)
      BY <2>7, <3>1 DEF Edge, Becomes
    <3>3. store' = store
      <4>1. store = [f \in StoreFields |-> store[f]] /\ store.raised = {}
        BY <2>3, BootStoreOK
      <4>2. store' = [f \in StoreFields |-> IF f = "raised" THEN {} ELSE store[f]]
        BY <3>1, <3>2, <4>1
      <4>. QED  BY <4>1, <4>2
    <3>4. handlers' = <<>>
      BY <2>3, <3>2 DEF Flagged
    <3>. QED  BY <2>3, <2>7, <3>3, <3>4 DEF Edge, command
  <2>8. ~ RunHandler
    BY <2>4 DEF RunHandler, Due
  <2>9. ~ HandlerReturned /\ ~ FinishLoop /\ ~ TimedTask /\ ~ TypedLine
    BY <2>3 DEF HandlerReturned, FinishLoop, TimedTask, TypedLine
  <2>. QED  BY <1>3, <2>1, <2>5, <2>6, <2>7, <2>8, <2>9 DEF Next, LoopStep
<1>. QED  BY <1>1, <1>2, <1>3

\* What a device shows is the value of its variable, unless it is one of the
\* keys that the code leaves behind.
THEOREM DevicesShowVariables == Spec => []DeviceShowsVariable
<1>1. ConsoleInv => DeviceShowsVariable
  BY DEF ConsoleInv, StoreInv, StoreOK, VarsOK, VarOK, HooksOK, ShowsAll, Shows,
         DeviceShowsVariable, HooksAgree
<1>. QED  BY <1>1, ConsoleInvInit, ConsoleInvNext, PTL DEF Spec

LEMMA FirstTurnLoads ==
    ASSUME ConsoleInv, BootInv, Next, booting, ~ booting'
    PROVE  \A k \in DOMAIN saved :
              k \in DOMAIN store'.vars /\ store'.vars[k].text = saved[k]
<1>1. /\ store = BootStore /\ queue = Boot /\ currentDirectory = "root"
      /\ phase \in {"timed", "signals", "console"}
  BY DEF BootInv
<1>2. ConsoleTurn
  BY <1>1 DEF Next, LoopStep, vars, TimedTasksDone, RunHandler, HandlerReturned,
              SignalsDone, FinishLoop, TimedTask, TypedLine, Edge, PowerCycle
<1>3. PICK c : c = Boot[1].command
  OBVIOUS
<1>4. Boot # <<>> /\ Head(Boot).command = c /\ c.op = "load"
  BY <1>3 DEF Boot
<1>5. ExecuteLine(c, Tail(queue), Head(queue).by)
  BY <1>1, <1>2, <1>4 DEF ConsoleTurn
<1>6. LoadEnv(c, Tail(queue), Head(queue).by)
  BY <1>4, <1>5 DEF ExecuteLine, ChangeStore, OpenReadout, StartTime, AddHandler, StopHandler,
                    Kill, SaveEnv, ChangeDirectory, Exec
<1>7. PICK doc : doc = files["root"]
  OBVIOUS
<1>8. PICK s : s = LoadFromFile(store, doc)
  OBVIOUS
<1>9. FileOK(doc) /\ StoreOK(store)
  BY <1>7, ShellAssumption DEF ConsoleInv, FilesInv, StoreInv
<1>10. Loaded(store, doc, DOMAIN doc, s)
  BY <1>8, <1>9, LoadKeeps
<1>11. \A k \in DOMAIN doc : k \in DOMAIN s.vars /\ s.vars[k].text = doc[k].text
  <2>1. DOMAIN store.vars = {"init-script"}
    BY <1>1, BootStoreOK
  <2>2. store.vars["init-script"].type = "STRING" /\ ~ store.vars["init-script"].hooked
    BY <1>1, BootStoreOK
  <2>. QED  BY <1>10, <2>1, <2>2 DEF Loaded
<1>12. store' = [s EXCEPT !.raised = {}]
  BY <1>1, <1>6, <1>7, <1>8 DEF LoadEnv, Becomes
<1>13. store'.vars = s.vars
  BY <1>10, <1>12 DEF Loaded, StoreOK, VarsOK, StoreFields
<1>. QED  BY <1>7, <1>11, <1>13 DEF ConsoleInv, FilesInv

\* What "env save" stored is there again after a restart, once the console has
\* had its first turn.
THEOREM EnvRestored == Spec => EnvComesBack
<1>1. /\ ConsoleInv /\ BootInv /\ [Next]_vars
      => [booting /\ ~ booting' =>
             \A k \in DOMAIN saved :
                k \in DOMAIN store'.vars /\ store'.vars[k].text = saved[k]]_vars
  BY FirstTurnLoads
<1>. QED  BY <1>1, ConsoleInvInit, ConsoleInvNext, BootInvNext, PTL DEF Spec, EnvComesBack
==============================================================================
