--------------------------- MODULE Configuration ---------------------------
(***************************************************************************)
(* What the program makes of its configuration file: the internal devices  *)
(* with their objects and properties, the data model's subjects, the       *)
(* mapping of subjects to properties of remote objects, and the default    *)
(* properties of each object type.                                         *)
(*                                                                         *)
(* An XML element is a record of its attributes and a sequence of its      *)
(* children.  Absent and NoNumber stand for an attribute that is missing   *)
(* or cannot be parsed; a variant or BACnet value is its type and a        *)
(* number, Bad when the text cannot be converted.  Elements that cannot be *)
(* used are left out, and what comes first wins.                           *)
(***************************************************************************)
EXTENDS Conversion

Absent == ""
NoNumber == -1
Bad == -2

-----------------------------------------------------------------------------
(* Classes of values. *)

\* typesMap and createDataProperty: the class made for a bac-type.
TypesMap ==
    "null" :> "Null" @@ "boolean" :> "Boolean" @@ "unsigned" :> "Unsigned"
    @@ "signed" :> "Signed" @@ "real" :> "Real" @@ "double" :> "Double"
    @@ "octetstring" :> "OctetString" @@ "characterstring" :> "CharacterString"
    @@ "bitstring" :> "BitString" @@ "enumerated" :> "Enumerated"
    @@ "date" :> "Date" @@ "time" :> "Time"
    @@ "bacnetobjectidentifier" :> "ObjectId"

-----------------------------------------------------------------------------
(* The data model's properties; dm gives the type of each subject taken. *)

\* createPropertySubject: an id is taken once.
SubjectTaken(dm, e) ==
    /\ e.intId # NoNumber
    /\ e.varType \in VariantTypes
    /\ e.intType \in {Absent, "subject"}
    /\ e.intId \notin DOMAIN dm
TakeSubject(dm, e) == (e.intId :> e.varType) @@ dm

\* createPropertyObserver: while the factory runs, the subject may come later.  A
\* converter needs a type, and a factor that is not 0 or a mask; <<>> is neither.
ConverterMade(e) ==
    /\ e.varType \in VariantTypes
    /\ \/ e.converter = "universal"
       \/ e.converter = "scaling" /\ e.factor # <<>> /\ e.factor[1] # 0
       \/ e.converter = "masking" /\ e.mask # <<>>
ObserverMade(e) ==
    /\ e.intId > 0
    /\ e.intType \in {Absent, "observer"}
    /\ e.converter \in {Absent, "none"} \/ ConverterMade(e)
Converter(e) ==
    IF e.intType = "subject" \/ e.converter \in {Absent, "none"} THEN Unconverted
    ELSE [kind |-> e.converter, type |-> e.varType,
          factor |-> IF e.converter = "scaling" THEN e.factor ELSE <<>>,
          mask |-> IF e.converter = "masking" THEN e.mask ELSE <<>>]

\* DataModel::createProperty names the kind of property explicitly.
PropertyMade(dm, e) == \/ e.intType = "observer" /\ ObserverMade(e)
                       \/ e.intType = "subject" /\ SubjectTaken(dm, e)

-----------------------------------------------------------------------------
(* Properties of internal objects. *)

NoProperty == [kind |-> "None"]

\* createSimpleProperty
SimpleProperty(e) ==
    IF e.bacType \in DOMAIN TypesMap /\ e.value # Bad
    THEN [kind |-> "Simple", class |-> TypesMap[e.bacType], data |-> e.value]
    ELSE NoProperty

\* createInternalProxyProperty
ProxyProperty(dm, e) ==
    IF e.bacType \in DOMAIN TypesMap /\ PropertyMade(dm, e)
    THEN [kind |-> "Proxy", class |-> TypesMap[e.bacType],
          subject |-> e.intId, owned |-> e.intType = "subject", conv |-> Converter(e)]
    ELSE NoProperty

\* createAbstractProperty of a simple or an internal property.
SingleProperty(dm, e) ==
    CASE e.propType = "simple" -> SimpleProperty(e)
      [] e.propType = "internal" -> ProxyProperty(dm, e)
      [] OTHER -> NoProperty

\* The data model after createAbstractProperty has made p of e.
DataModelAfter(dm, p, e) ==
    IF p.kind = "Proxy" /\ p.owned THEN TakeSubject(dm, e) ELSE dm

\* The elements of an array that could be made; the others leave no gap.
ArrayElements(dm, es) ==
    LET add(acc, e) ==
            LET p == SingleProperty(acc.dm, e)
            IN [dm |-> DataModelAfter(acc.dm, p, e),
                list |-> IF p = NoProperty THEN acc.list ELSE Append(acc.list, p)]
    IN FoldLeft(add, [dm |-> dm, list |-> <<>>], es)

\* createAbstractProperty: the property and the data model after it.
AbstractProperty(dm, e) ==
    IF e.propType = "array"
    THEN LET es == ArrayElements(dm, e.children)
         IN [dm |-> es.dm, prop |-> [kind |-> "Array", elements |-> es.list]]
    ELSE LET p == SingleProperty(dm, e)
         IN [dm |-> DataModelAfter(dm, p, e), prop |-> p]

\* addProperty: the first property made for an id stays.
AddProperty(acc, e) ==
    LET made == AbstractProperty(acc.dm, e)
    IN [dm |-> made.dm,
        props |-> IF made.prop = NoProperty THEN acc.props
                  ELSE acc.props @@ (e.id :> made.prop)]

\* populateWithProperties
Properties(dm, es) ==
    LET add(acc, e) == IF e.propType = Absent \/ e.id = Absent THEN acc
                       ELSE AddProperty(acc, e)
    IN FoldLeft(add, [dm |-> dm, props |-> <<>>], es)

\* createPropertiesMap takes simple and array properties only.
DefaultProperties(dm, es) ==
    LET add(acc, e) == IF \/ e.propType \notin {"simple", "array"}
                          \/ e.id \in DOMAIN acc.props \cup {Absent} THEN acc
                       ELSE AddProperty(acc, e)
    IN FoldLeft(add, [dm |-> dm, props |-> <<>>], es)

-----------------------------------------------------------------------------
(* Devices and their objects, known by type and instance number. *)

SupportedTypes == {"device", "analog-input", "analog-output", "analog-value",
                   "binary-input", "binary-output", "binary-value",
                   "multistate-input", "multistate-output", "multistate-value"}

\* createObjectForDevice for each child; addBacnetObject keeps the first of an id.
ChildObjects(dm, own, os) ==
    LET add(acc, o) ==
            LET made == Properties(acc.dm, o.properties)
            IN IF o.instance = NoNumber \/ o.type \notin SupportedTypes THEN acc
               ELSE [dm |-> made.dm,
                     objects |-> acc.objects @@ (<<o.type, o.instance>> :> made.props)]
    IN FoldLeft(add, [dm |-> dm, objects |-> own], os)

\* createDevice: the device is an object of its own.
Device(dm, d) ==
    LET own == Properties(dm, d.properties)
    IN ChildObjects(own.dm, <<"device", d.instance>> :> own.props, d.objects)

\* configureInternalHandler: no address and no instance number twice.
Devices(dm, ds) ==
    LET add(acc, d) ==
            LET made == Device(acc.dm, d)
                new == /\ d.address \notin DOMAIN acc.devices
                       /\ \A a \in DOMAIN acc.devices :
                              <<"device", d.instance>> \notin DOMAIN acc.devices[a]
            IN IF d.address = NoNumber \/ d.instance = NoNumber THEN acc
               ELSE [dm |-> made.dm,
                     devices |-> IF new THEN acc.devices @@ (d.address :> made.objects)
                                 ELSE acc.devices]
    IN FoldLeft(add, [dm |-> dm, devices |-> <<>>], ds)

\* configureDefaultDevice: a later element of a type replaces an earlier one.
Defaults(dm, os) ==
    LET add(acc, o) ==
            LET made == DefaultProperties(acc.dm, o.properties)
            IN IF o.type \notin SupportedTypes \/ made.props = <<>> THEN acc
               ELSE [dm |-> made.dm,
                     defaults |-> (o.type :> made.props) @@ acc.defaults]
    IN FoldLeft(add, [dm |-> dm, defaults |-> <<>>], os)

-----------------------------------------------------------------------------
(* Remote objects' properties, mapped to subjects. *)

\* createReadStrategy: an interval that is no number yields the simple one.
ReadStrategy(e) ==
    CASE e.read = "simple" \/ e.interval = Bad -> "simple"
      [] e.read = "simple-time" -> "timed"
      [] e.read \in {"cov", "cov-poll"} -> "cov"
      [] OTHER -> Absent

\* createWriteStrategy
WriteStrategy(e) == IF e.write = "simple" THEN "simple" ELSE Absent

\* populatePropertyMappings and addMappedProperty for one object of a device.
\* A subject whose strategies cannot be made stays taken.
Mappings(acc, object, es) ==
    LET add(m, e) ==
            IF e.id = Absent \/ e.idx = Bad \/ ~ SubjectTaken(m.dm, e) THEN m
            ELSE [dm |-> TakeSubject(m.dm, e),
                  mapping |-> IF Absent \in {ReadStrategy(e), WriteStrategy(e)} THEN m.mapping
                              ELSE m.mapping @@ (e.intId :>
                                  [object |-> object, property |-> e.id, idx |-> e.idx,
                                   strategy |-> ReadStrategy(e)])]
    IN FoldLeft(add, acc, es)

\* configureExternalHandler; an object's number that cannot be parsed counts as 0.
MappedProperties(dm, ds) ==
    LET addObject(m, o) ==
            IF o.type \notin SupportedTypes THEN m
            ELSE Mappings(m, <<o.type, IF o.instance = NoNumber THEN 0 ELSE o.instance>>,
                          o.properties)
        addDevice(m, d) ==
            IF d.instance = NoNumber THEN m ELSE FoldLeft(addObject, m, d.objects)
    IN FoldLeft(addDevice, [dm |-> dm, mapping |-> <<>>], ds)

\* createApplicationLayer: internal devices, remote objects, then defaults.
ApplicationLayer(cfg) ==
    LET int == Devices(<<>>, cfg.internal)
        ext == MappedProperties(int.dm, cfg.external)
        def == Defaults(ext.dm, cfg.defaults)
    IN [devices |-> int.devices, mapping |-> ext.mapping,
        defaults |-> def.defaults, subjects |-> def.dm]
=============================================================================
