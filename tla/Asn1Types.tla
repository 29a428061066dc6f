----------------------------- MODULE Asn1Types -----------------------------
(***************************************************************************)
(* The type descriptors asn1c generated from the MMS grammar (one file per *)
(* type in src/mms/iso_mms/asn1c), as the tables the run-time library      *)
(* interprets.  A descriptor is a record: which codec serves the type, its *)
(* tags, its members and the table from a tag to the member that may start *)
(* with it.  Members name their types, since the grammar is recursive; the *)
(* table Types gives a name its descriptor.                                *)
(*                                                                         *)
(* Left out: the entry points every descriptor repeats (each copies the    *)
(* functions of its base type and calls the one asked for), the XML and    *)
(* PER columns, and the sizes and offsets of the C structures.             *)
(***************************************************************************)
EXTENDS Integers, Sequences, FiniteSets

(* A tag is its number and, in the two low bits, its class. *)
Universal(n) == 4 * n
Context(n) == 4 * n + 2

(* The tag of a member whose type, an untagged CHOICE, has several. *)
NoTag == -1

(***************************************************************************)
(* Members.  tag_mode is -1 where the tag replaces the one of the type,    *)
(* 1 where it is put around it and 0 where the type keeps its own; a       *)
(* member that is not a pointer is part of the structure.  optional is the *)
(* number of members from this one on that may be missing.                 *)
(***************************************************************************)
Member(name, mode, tag, type) ==
    [name |-> name, tag_mode |-> mode, tag |-> tag, type |-> type,
     pointer |-> FALSE, optional |-> 0, within |-> <<>>]
Implicit(name, tag, type) == Member(name, -1, tag, type)
Explicit(name, tag, type) == Member(name, 1, tag, type)
Plain(name, tag, type) == Member(name, 0, tag, type)
Pointer(m) == [m EXCEPT !.pointer = TRUE]
Optional(k, m) == [m EXCEPT !.pointer = TRUE, !.optional = k]

(* memb_..._constraint: a NativeInteger member with a range of its own. *)
Within(m, lo, hi) == [m EXCEPT !.within = <<lo, hi>>]

(***************************************************************************)
(* Descriptors.  check is what check_constraints asks of a value; the      *)
(* table tag2el lists <<tag, member>> and is the members' own tags unless  *)
(* an untagged CHOICE among them makes it longer.                          *)
(***************************************************************************)
Descriptor(kind, tags, all_tags, elements, check) ==
    [kind |-> kind, tags |-> tags, all_tags |-> all_tags,
     elements |-> elements, check |-> check,
     tag2el |-> [i \in 1 .. Len(elements) |-> <<elements[i].tag, i>>]]

SEQUENCE(tags, elements) ==
    Descriptor("SEQUENCE", tags, tags, elements, <<"members">>)
CHOICE(elements) ==
    Descriptor("CHOICE", <<>>, <<>>, elements, <<"members">>)
SEQUENCE_OF(tags, element) ==
    Descriptor("SEQUENCE OF", tags, tags, <<element>>, <<"members">>)
Basic(kind, all_tags, check) ==
    Descriptor(kind, <<all_tags[1]>>, all_tags, <<>>, check)

Indexed(td, table) == [td EXCEPT !.tag2el = table]

(* ..._inherit_TYPE_descriptor: the functions of the base, other tags. *)
Inherit(td, tags) == [td EXCEPT !.tags = tags, !.all_tags = tags]

(* The generated ..._constraint functions. *)
Constrain(td, check) == [td EXCEPT !.check = check]
Signed(octets) == <<"signed", octets>>
Unsigned(octets) == <<"unsigned", octets>>
Size(octets) == <<"size", octets>>

asn_DEF_BOOLEAN == Basic("BOOLEAN", <<Universal(1)>>, <<"none">>)
asn_DEF_NULL == Basic("NULL", <<Universal(5)>>, <<"none">>)
asn_DEF_INTEGER == Basic("INTEGER", <<Universal(2)>>, <<"none">>)
asn_DEF_NativeInteger == Basic("NativeInteger", <<Universal(2)>>, <<"none">>)
asn_DEF_OCTET_STRING == Basic("OCTET STRING", <<Universal(4)>>, <<"none">>)
asn_DEF_BIT_STRING == Basic("BIT STRING", <<Universal(3)>>, <<"bits">>)
asn_DEF_VisibleString ==
    Basic("OCTET STRING", <<Universal(26), Universal(4)>>, <<"visible">>)
asn_DEF_UTF8String ==
    Basic("OCTET STRING", <<Universal(12), Universal(4)>>, <<"utf8">>)
asn_DEF_GeneralizedTime ==
    Basic("OCTET STRING", <<Universal(24), Universal(26), Universal(4)>>,
          <<"time">>)

asn_DEF_AccessResult ==
    CHOICE(<<
        Implicit("failure", Context(0), "DataAccessError"),
        Implicit("array", Context(1), "DataSequence"),
        Implicit("structure", Context(2), "DataSequence"),
        Implicit("boolean", Context(3), "BOOLEAN"),
        Implicit("bitstring", Context(4), "BIT_STRING"),
        Implicit("integer", Context(5), "INTEGER"),
        Implicit("unsigned", Context(6), "INTEGER"),
        Implicit("floatingpoint", Context(7), "FloatingPoint"),
        Implicit("octetstring", Context(9), "OCTET_STRING"),
        Implicit("visiblestring", Context(10), "VisibleString"),
        Implicit("generalizedtime", Context(11), "GeneralizedTime"),
        Implicit("binarytime", Context(12), "TimeOfDay"),
        Implicit("bcd", Context(13), "INTEGER"),
        Implicit("booleanArray", Context(14), "BIT_STRING"),
        Implicit("mMSString", Context(16), "MMSString"),
        Implicit("utctime", Context(17), "UtcTime")>>)

asn_DEF_Address ==
    CHOICE(<<
        Implicit("numericAddress", Context(0), "Unsigned32"),
        Implicit("symbolicAddress", Context(1), "VisibleString"),
        Implicit("unconstrainedAddress", Context(2), "OCTET_STRING")>>)

asn_DEF_AlternateAccess_named ==
    Indexed(SEQUENCE(<<Context(5)>>, <<
        Implicit("componentName", Context(0), "Identifier"),
        Pointer(Plain("access", NoTag, "AlternateAccessSelection"))>>), <<
        <<Context(0), 1>>, <<Context(0), 2>>, <<Context(1), 2>>,
        <<Context(2), 2>>, <<Context(3), 2>>, <<Context(4), 2>>>>)

asn_DEF_AlternateAccess_Member ==
    Indexed(CHOICE(<<
        Pointer(Plain("unnamed", NoTag, "AlternateAccessSelection")),
        Implicit("named", Context(5), "AlternateAccess_named")>>), <<
        <<Context(0), 1>>, <<Context(1), 1>>, <<Context(2), 1>>,
        <<Context(3), 1>>, <<Context(4), 1>>, <<Context(5), 2>>>>)

asn_DEF_AlternateAccess ==
    SEQUENCE_OF(<<Universal(16)>>,
        Pointer(Plain("", NoTag, "AlternateAccess_Member")))

asn_DEF_AlternateAccessSelection_indexRange_6 ==
    SEQUENCE(<<Context(2)>>, <<
        Implicit("lowIndex", Context(0), "Unsigned32"),
        Implicit("numberOfElements", Context(1), "Unsigned32")>>)

asn_DEF_AlternateAccessSelection_accessSelection ==
    CHOICE(<<
        Implicit("component", Context(0), "Identifier"),
        Implicit("index", Context(1), "Unsigned32"),
        Implicit("indexRange", Context(2), "AlternateAccessSelection_indexRange_6"),
        Implicit("allElements", Context(3), "NULL")>>)

asn_DEF_AlternateAccessSelection_selectAlternateAccess ==
    Indexed(SEQUENCE(<<Context(0)>>, <<
        Plain("accessSelection", NoTag, "AlternateAccessSelection_accessSelection"),
        Pointer(Plain("alternateAccess", Universal(16), "AlternateAccess"))>>), <<
        <<Universal(16), 2>>, <<Context(0), 1>>, <<Context(1), 1>>,
        <<Context(2), 1>>, <<Context(3), 1>>>>)

asn_DEF_AlternateAccessSelection_indexRange_14 ==
    SEQUENCE(<<Context(3)>>, <<
        Implicit("lowIndex", Context(0), "Unsigned32"),
        Implicit("numberOfElements", Context(1), "Unsigned32")>>)

asn_DEF_AlternateAccessSelection_selectAccess ==
    CHOICE(<<
        Implicit("component", Context(1), "Identifier"),
        Implicit("index", Context(2), "Unsigned32"),
        Implicit("indexRange", Context(3),
            "AlternateAccessSelection_indexRange_14"),
        Implicit("allElements", Context(4), "NULL")>>)

asn_DEF_AlternateAccessSelection ==
    Indexed(CHOICE(<<
        Implicit("selectAlternateAccess", Context(0),
            "AlternateAccessSelection_selectAlternateAccess"),
        Plain("selectAccess", NoTag, "AlternateAccessSelection_selectAccess")>>), <<
        <<Context(0), 1>>, <<Context(1), 2>>, <<Context(2), 2>>,
        <<Context(3), 2>>, <<Context(4), 2>>>>)

asn_DEF_ConcludeRequestPDU == Inherit(asn_DEF_NULL, <<Universal(5)>>)

asn_DEF_ConcludeResponsePDU == Inherit(asn_DEF_NULL, <<Universal(5)>>)

asn_DEF_ConfirmedErrorPDU ==
    SEQUENCE(<<Universal(16)>>, <<
        Implicit("invokeID", Context(0), "Unsigned32"),
        Implicit("serviceError", Context(2), "ServiceError")>>)

asn_DEF_ConfirmedRequestPdu ==
    Indexed(SEQUENCE(<<Universal(16)>>, <<
        Plain("invokeID", Universal(2), "Unsigned32"),
        Plain("confirmedServiceRequest", NoTag, "ConfirmedServiceRequest")>>), <<
        <<Universal(2), 1>>, <<Context(1), 2>>, <<Context(4), 2>>,
        <<Context(5), 2>>, <<Context(6), 2>>, <<Context(11), 2>>,
        <<Context(12), 2>>, <<Context(13), 2>>>>)

asn_DEF_ConfirmedResponsePdu ==
    Indexed(SEQUENCE(<<Universal(16)>>, <<
        Plain("invokeID", Universal(2), "Unsigned32"),
        Plain("confirmedServiceResponse", NoTag, "ConfirmedServiceResponse")>>), <<
        <<Universal(2), 1>>, <<Context(1), 2>>, <<Context(4), 2>>,
        <<Context(5), 2>>, <<Context(6), 2>>, <<Context(11), 2>>,
        <<Context(12), 2>>, <<Context(13), 2>>>>)

asn_DEF_ConfirmedServiceRequest ==
    CHOICE(<<
        Implicit("getNameList", Context(1), "GetNameListRequest"),
        Implicit("read", Context(4), "ReadRequest"),
        Implicit("write", Context(5), "WriteRequest"),
        Explicit("getVariableAccessAttributes", Context(6),
            "GetVariableAccessAttributesRequest"),
        Implicit("defineNamedVariableList", Context(11),
            "DefineNamedVariableListRequest"),
        Explicit("getNamedVariableListAttributes", Context(12),
            "GetNamedVariableListAttributesRequest"),
        Implicit("deleteNamedVariableList", Context(13),
            "DeleteNamedVariableListRequest")>>)

asn_DEF_ConfirmedServiceResponse ==
    CHOICE(<<
        Implicit("getNameList", Context(1), "GetNameListResponse"),
        Implicit("read", Context(4), "ReadResponse"),
        Implicit("write", Context(5), "WriteResponse"),
        Implicit("getVariableAccessAttributes", Context(6),
            "GetVariableAccessAttributesResponse"),
        Implicit("defineNamedVariableList", Context(11),
            "DefineNamedVariableListResponse"),
        Implicit("getNamedVariableListAttributes", Context(12),
            "GetNamedVariableListAttributesResponse"),
        Implicit("deleteNamedVariableList", Context(13),
            "DeleteNamedVariableListResponse")>>)

asn_DEF_Data ==
    CHOICE(<<
        Pointer(Implicit("array", Context(1), "DataSequence")),
        Pointer(Implicit("structure", Context(2), "DataSequence")),
        Implicit("boolean", Context(3), "BOOLEAN"),
        Implicit("bitstring", Context(4), "BIT_STRING"),
        Implicit("integer", Context(5), "INTEGER"),
        Implicit("unsigned", Context(6), "INTEGER"),
        Implicit("floatingpoint", Context(7), "FloatingPoint"),
        Implicit("octetstring", Context(9), "OCTET_STRING"),
        Implicit("visiblestring", Context(10), "VisibleString"),
        Implicit("generalizedtime", Context(11), "GeneralizedTime"),
        Implicit("binarytime", Context(12), "TimeOfDay"),
        Implicit("bcd", Context(13), "INTEGER"),
        Implicit("booleanArray", Context(14), "BIT_STRING"),
        Implicit("mMSString", Context(16), "MMSString"),
        Implicit("utctime", Context(17), "UtcTime")>>)

asn_DEF_DataAccessError == Inherit(asn_DEF_INTEGER, <<Universal(2)>>)

asn_DEF_DataSequence ==
    SEQUENCE_OF(<<Universal(16)>>,
        Pointer(Plain("", NoTag, "Data")))

asn_DEF_DefineNamedVariableListRequest_Member ==
    Indexed(SEQUENCE(<<Universal(16)>>, <<
        Plain("variableSpecification", NoTag, "VariableSpecification"),
        Optional(1, Implicit("alternateAccess", Context(5),
            "AlternateAccess"))>>), <<
        <<Context(0), 1>>, <<Context(1), 1>>, <<Context(2), 1>>,
        <<Context(3), 1>>, <<Context(4), 1>>, <<Context(5), 2>>>>)

asn_DEF_DefineNamedVariableListRequest_listOfVariable ==
    SEQUENCE_OF(<<Context(0)>>,
        Pointer(Plain("", Universal(16), "DefineNamedVariableListRequest_Member")))

asn_DEF_DefineNamedVariableListRequest ==
    Indexed(SEQUENCE(<<Universal(16)>>, <<
        Plain("variableListName", NoTag, "ObjectName"),
        Implicit("listOfVariable", Context(0),
            "DefineNamedVariableListRequest_listOfVariable")>>), <<
        <<Context(0), 1>>, <<Context(0), 2>>, <<Context(1), 1>>,
        <<Context(2), 1>>>>)

asn_DEF_DefineNamedVariableListResponse == Inherit(asn_DEF_NULL, <<Universal(5)>>)

asn_DEF_DeleteNamedVariableListRequest_listOfVariableListName ==
    SEQUENCE_OF(<<Context(1)>>,
        Pointer(Plain("", NoTag, "ObjectName")))

asn_DEF_DeleteNamedVariableListRequest ==
    SEQUENCE(<<Universal(16)>>, <<
        Optional(3, Implicit("scopeOfDelete", Context(0), "INTEGER")),
        Optional(2, Implicit("listOfVariableListName", Context(1),
            "DeleteNamedVariableListRequest_listOfVariableListName")),
        Optional(1, Implicit("domainName", Context(2), "Identifier"))>>)

asn_DEF_DeleteNamedVariableListResponse ==
    SEQUENCE(<<Universal(16)>>, <<
        Implicit("numberMatched", Context(0), "Unsigned32"),
        Implicit("numberDeleted", Context(1), "Unsigned32")>>)

asn_DEF_FloatingPoint == Inherit(asn_DEF_OCTET_STRING, <<Universal(4)>>)

asn_DEF_GetNameListRequest_objectScope ==
    CHOICE(<<
        Implicit("vmdSpecific", Context(0), "NULL"),
        Implicit("domainSpecific", Context(1), "Identifier"),
        Implicit("aaSpecific", Context(2), "NULL")>>)

asn_DEF_GetNameListRequest ==
    SEQUENCE(<<Universal(16)>>, <<
        Explicit("objectClass", Context(0), "ObjectClass"),
        Explicit("objectScope", Context(1), "GetNameListRequest_objectScope"),
        Optional(1, Implicit("continueAfter", Context(2), "Identifier"))>>)

asn_DEF_GetNameListResponse_listOfIdentifier ==
    SEQUENCE_OF(<<Context(0)>>,
        Pointer(Plain("", Universal(26), "Identifier")))

asn_DEF_GetNameListResponse ==
    SEQUENCE(<<Universal(16)>>, <<
        Implicit("listOfIdentifier", Context(0),
            "GetNameListResponse_listOfIdentifier"),
        Optional(1, Implicit("moreFollows", Context(1), "BOOLEAN"))>>)

asn_DEF_GetNamedVariableListAttributesResponse_Member ==
    Indexed(SEQUENCE(<<Universal(16)>>, <<
        Plain("variableSpecification", NoTag, "VariableSpecification"),
        Optional(1, Implicit("alternateAccess", Context(5),
            "AlternateAccess"))>>), <<
        <<Context(0), 1>>, <<Context(1), 1>>, <<Context(2), 1>>,
        <<Context(3), 1>>, <<Context(4), 1>>, <<Context(5), 2>>>>)

asn_DEF_GetNamedVariableListAttributesResponse_listOfVariable ==
    SEQUENCE_OF(<<Context(1)>>,
        Pointer(Plain("", Universal(16),
            "GetNamedVariableListAttributesResponse_Member")))

asn_DEF_GetNamedVariableListAttributesResponse ==
    SEQUENCE(<<Universal(16)>>, <<
        Implicit("mmsDeletable", Context(0), "BOOLEAN"),
        Implicit("listOfVariable", Context(1),
            "GetNamedVariableListAttributesResponse_listOfVariable")>>)

asn_DEF_GetVariableAccessAttributesRequest ==
    CHOICE(<<
        Explicit("name", Context(0), "ObjectName"),
        Explicit("address", Context(1), "Address")>>)

asn_DEF_GetVariableAccessAttributesResponse ==
    SEQUENCE(<<Universal(16)>>, <<
        Implicit("mmsDeletable", Context(0), "BOOLEAN"),
        Optional(1, Explicit("address", Context(1), "Address")),
        Explicit("typeSpecification", Context(2), "TypeSpecification")>>)

asn_DEF_Identifier == Inherit(asn_DEF_VisibleString, <<Universal(26)>>)

asn_DEF_IndexRangeSeq ==
    SEQUENCE(<<Universal(16)>>, <<
        Implicit("lowIndex", Context(0), "Unsigned32"),
        Implicit("numberOfElements", Context(1), "Unsigned32")>>)

asn_DEF_InformationReport_listOfAccessResult ==
    SEQUENCE_OF(<<Context(0)>>,
        Pointer(Plain("", NoTag, "AccessResult")))

asn_DEF_InformationReport ==
    Indexed(SEQUENCE(<<Universal(16)>>, <<
        Plain("variableAccessSpecification", NoTag, "VariableAccessSpecification"),
        Implicit("listOfAccessResult", Context(0),
            "InformationReport_listOfAccessResult")>>), <<
        <<Context(0), 1>>, <<Context(0), 2>>, <<Context(1), 1>>>>)

asn_DEF_InitRequestDetail ==
    SEQUENCE(<<Universal(16)>>, <<
        Implicit("proposedVersionNumber", Context(0), "Integer16"),
        Implicit("proposedParameterCBB", Context(1), "ParameterSupportOptions"),
        Implicit("servicesSupportedCalling", Context(2), "ServiceSupportOptions")>>)

asn_DEF_InitResponseDetail ==
    SEQUENCE(<<Universal(16)>>, <<
        Implicit("negotiatedVersionNumber", Context(0), "Integer16"),
        Implicit("negotiatedParameterCBB", Context(1), "ParameterSupportOptions"),
        Implicit("servicesSupportedCalled", Context(2), "ServiceSupportOptions")>>)

asn_DEF_InitiateRequestPdu ==
    SEQUENCE(<<Universal(16)>>, <<
        Optional(1, Implicit("localDetailCalling", Context(0), "Integer32")),
        Implicit("proposedMaxServOutstandingCalling", Context(1), "Integer16"),
        Implicit("proposedMaxServOutstandingCalled", Context(2), "Integer16"),
        Optional(1, Implicit("proposedDataStructureNestingLevel", Context(3),
            "Integer8")),
        Implicit("mmsInitRequestDetail", Context(4), "InitRequestDetail")>>)

asn_DEF_InitiateResponsePdu ==
    SEQUENCE(<<Universal(16)>>, <<
        Optional(1, Implicit("localDetailCalled", Context(0), "Integer32")),
        Implicit("negotiatedMaxServOutstandingCalling", Context(1), "Integer16"),
        Implicit("negotiatedMaxServOutstandingCalled", Context(2), "Integer16"),
        Optional(1, Implicit("negotiatedDataStructureNestingLevel", Context(3),
            "Integer8")),
        Implicit("mmsInitResponseDetail", Context(4), "InitResponseDetail")>>)

asn_DEF_Integer16 ==
    Constrain(Inherit(asn_DEF_NativeInteger, <<Universal(2)>>), Signed(2))

asn_DEF_Integer32 ==
    Constrain(Inherit(asn_DEF_NativeInteger, <<Universal(2)>>), Signed(4))

asn_DEF_Integer8 ==
    Constrain(Inherit(asn_DEF_NativeInteger, <<Universal(2)>>), Signed(1))

asn_DEF_ListOfVariableSeq ==
    Indexed(SEQUENCE(<<Universal(16)>>, <<
        Plain("variableSpecification", NoTag, "VariableSpecification"),
        Optional(1, Implicit("alternateAccess", Context(5),
            "AlternateAccess"))>>), <<
        <<Context(0), 1>>, <<Context(1), 1>>, <<Context(2), 1>>,
        <<Context(3), 1>>, <<Context(4), 1>>, <<Context(5), 2>>>>)

asn_DEF_MMSString == Inherit(asn_DEF_UTF8String, <<Universal(12)>>)

asn_DEF_MmsPdu ==
    CHOICE(<<
        Implicit("confirmedRequestPdu", Context(0), "ConfirmedRequestPdu"),
        Implicit("confirmedResponsePdu", Context(1), "ConfirmedResponsePdu"),
        Implicit("confirmedErrorPDU", Context(2), "ConfirmedErrorPDU"),
        Implicit("unconfirmedPDU", Context(3), "UnconfirmedPDU"),
        Implicit("rejectPDU", Context(4), "RejectPDU"),
        Implicit("initiateRequestPdu", Context(8), "InitiateRequestPdu"),
        Implicit("initiateResponsePdu", Context(9), "InitiateResponsePdu"),
        Implicit("initiateErrorPdu", Context(10), "InitiateErrorPdu"),
        Implicit("concludeRequestPDU", Context(11), "ConcludeRequestPDU"),
        Implicit("concludeResponsePDU", Context(12), "ConcludeResponsePDU")>>)

asn_DEF_ObjectClass ==
    CHOICE(<<
        Implicit("basicObjectClass", Context(0), "INTEGER")>>)

asn_DEF_ObjectName_domainspecific ==
    SEQUENCE(<<Context(1)>>, <<
        Plain("domainId", Universal(26), "Identifier"),
        Plain("itemId", Universal(26), "Identifier")>>)

asn_DEF_ObjectName ==
    CHOICE(<<
        Implicit("vmdspecific", Context(0), "Identifier"),
        Implicit("domainspecific", Context(1), "ObjectName_domainspecific"),
        Implicit("aaspecific", Context(2), "Identifier")>>)

asn_DEF_ParameterSupportOptions == Inherit(asn_DEF_BIT_STRING, <<Universal(3)>>)

asn_DEF_ReadRequest ==
    SEQUENCE(<<Universal(16)>>, <<
        Optional(1, Implicit("specificationWithResult", Context(0), "BOOLEAN")),
        Explicit("variableAccessSpecification", Context(1),
            "VariableAccessSpecification")>>)

asn_DEF_ReadResponse_listOfAccessResult ==
    SEQUENCE_OF(<<Context(1)>>,
        Pointer(Plain("", NoTag, "AccessResult")))

asn_DEF_ReadResponse ==
    SEQUENCE(<<Universal(16)>>, <<
        Optional(1, Explicit("variableAccessSpecification", Context(0),
            "VariableAccessSpecification")),
        Implicit("listOfAccessResult", Context(1),
            "ReadResponse_listOfAccessResult")>>)

asn_DEF_RejectPDU_rejectReason ==
    CHOICE(<<
        Within(Implicit("confirmedRequestPDU", Context(1), "NativeInteger"), 0, 9),
        Within(Implicit("confirmedResponsePDU", Context(2), "NativeInteger"), 0, 6),
        Within(Implicit("confirmedErrorPDU", Context(3), "NativeInteger"), 0, 4),
        Within(Implicit("unconfirmedPDU", Context(4), "NativeInteger"), 0, 4),
        Implicit("pduError", Context(5), "INTEGER"),
        Implicit("cancelRequestPDU", Context(6), "NULL"),
        Implicit("cancelResponsePDU", Context(7), "NULL"),
        Implicit("cancelErrorPDU", Context(8), "NULL"),
        Within(Implicit("concludeRequestPDU", Context(9), "NativeInteger"), 0, 1),
        Within(Implicit("concludeResponsePDU", Context(10), "NativeInteger"), 0, 1),
        Within(Implicit("concludeErrorPDU", Context(11), "NativeInteger"), 0, 2)>>)

asn_DEF_RejectPDU ==
    Indexed(SEQUENCE(<<Universal(16)>>, <<
        Optional(1, Implicit("originalInvokeID", Context(0), "Unsigned32")),
        Plain("rejectReason", NoTag, "RejectPDU_rejectReason")>>), <<
        <<Context(0), 1>>, <<Context(1), 2>>, <<Context(2), 2>>,
        <<Context(3), 2>>, <<Context(4), 2>>, <<Context(5), 2>>,
        <<Context(6), 2>>, <<Context(7), 2>>, <<Context(8), 2>>,
        <<Context(9), 2>>, <<Context(10), 2>>, <<Context(11), 2>>>>)

asn_DEF_ScatteredAccessDescription_Member ==
    SEQUENCE(<<Universal(16)>>, <<
        Optional(1, Implicit("componentName", Context(0), "Identifier")),
        Pointer(Explicit("variableSpecification", Context(1),
            "VariableSpecification")),
        Optional(1, Implicit("alternateAccess", Context(2), "AlternateAccess"))>>)

asn_DEF_ScatteredAccessDescription ==
    SEQUENCE_OF(<<Universal(16)>>,
        Pointer(Plain("", Universal(16), "ScatteredAccessDescription_Member")))

asn_DEF_ServiceError_errorClass ==
    CHOICE(<<
        Implicit("vmdstate", Context(0), "INTEGER"),
        Implicit("applicationreference", Context(1), "INTEGER"),
        Implicit("definition", Context(2), "INTEGER"),
        Implicit("resource", Context(3), "INTEGER"),
        Implicit("service", Context(4), "INTEGER"),
        Implicit("servicepreempt", Context(5), "INTEGER"),
        Implicit("timeresolution", Context(6), "INTEGER"),
        Implicit("access", Context(7), "INTEGER"),
        Implicit("initiate", Context(8), "INTEGER"),
        Implicit("conclude", Context(9), "INTEGER"),
        Implicit("cancel", Context(10), "INTEGER"),
        Implicit("file", Context(11), "INTEGER"),
        Implicit("others", Context(12), "INTEGER")>>)

asn_DEF_ServiceError ==
    SEQUENCE(<<Universal(16)>>, <<
        Explicit("errorClass", Context(0), "ServiceError_errorClass"),
        Optional(2, Implicit("additionalCode", Context(1), "INTEGER")),
        Optional(1, Implicit("additionalDescription", Context(2),
            "VisibleString"))>>)

asn_DEF_ServiceSupportOptions == Inherit(asn_DEF_BIT_STRING, <<Universal(3)>>)

asn_DEF_StructComponent ==
    SEQUENCE(<<Universal(16)>>, <<
        Optional(1, Implicit("componentName", Context(0), "Identifier")),
        Pointer(Explicit("componentType", Context(1), "TypeSpecification"))>>)

asn_DEF_TimeOfDay == Inherit(asn_DEF_OCTET_STRING, <<Universal(4)>>)

asn_DEF_TypeSpecification_array ==
    SEQUENCE(<<Context(1)>>, <<
        Optional(1, Implicit("packed", Context(0), "BOOLEAN")),
        Implicit("numberOfElements", Context(1), "Unsigned32"),
        Pointer(Explicit("elementType", Context(2), "TypeSpecification"))>>)

asn_DEF_TypeSpecification_components ==
    SEQUENCE_OF(<<Context(1)>>,
        Pointer(Plain("", Universal(16), "StructComponent")))

asn_DEF_TypeSpecification_structure ==
    SEQUENCE(<<Context(2)>>, <<
        Optional(1, Implicit("packed", Context(0), "BOOLEAN")),
        Implicit("components", Context(1), "TypeSpecification_components")>>)

asn_DEF_TypeSpecification_floatingpoint ==
    SEQUENCE(<<Context(7)>>, <<
        Plain("formatwidth", Universal(2), "Unsigned8"),
        Plain("exponentwidth", Universal(2), "Unsigned8")>>)

asn_DEF_TypeSpecification ==
    CHOICE(<<
        Explicit("typeName", Context(0), "ObjectName"),
        Implicit("array", Context(1), "TypeSpecification_array"),
        Implicit("structure", Context(2), "TypeSpecification_structure"),
        Implicit("boolean", Context(3), "NULL"),
        Implicit("bitstring", Context(4), "Integer32"),
        Implicit("integer", Context(5), "Unsigned8"),
        Implicit("unsigned", Context(6), "Unsigned8"),
        Implicit("floatingpoint", Context(7), "TypeSpecification_floatingpoint"),
        Implicit("octetstring", Context(9), "Integer32"),
        Implicit("visiblestring", Context(10), "Integer32"),
        Implicit("generalizedtime", Context(11), "NULL"),
        Implicit("binarytime", Context(12), "BOOLEAN"),
        Implicit("bcd", Context(13), "Unsigned8"),
        Implicit("objId", Context(15), "NULL"),
        Implicit("mMSString", Context(16), "Integer32"),
        Implicit("utctime", Context(17), "NULL")>>)

asn_DEF_UnconfirmedPDU ==
    Indexed(SEQUENCE(<<Universal(16)>>, <<
        Plain("unconfirmedService", NoTag, "UnconfirmedService")>>), <<
        <<Context(0), 1>>>>)

asn_DEF_UnconfirmedService ==
    CHOICE(<<
        Implicit("informationReport", Context(0), "InformationReport")>>)

asn_DEF_Unsigned16 ==
    Constrain(Inherit(asn_DEF_NativeInteger, <<Universal(2)>>), Unsigned(2))

asn_DEF_Unsigned32 ==
    Constrain(Inherit(asn_DEF_INTEGER, <<Universal(2)>>), Unsigned(4))

asn_DEF_Unsigned8 ==
    Constrain(Inherit(asn_DEF_NativeInteger, <<Universal(2)>>), Unsigned(1))

asn_DEF_UtcTime ==
    Constrain(Inherit(asn_DEF_OCTET_STRING, <<Universal(4)>>), Size(8))

asn_DEF_VariableAccessSpecification_listOfVariable ==
    SEQUENCE_OF(<<Context(0)>>,
        Pointer(Plain("", Universal(16), "ListOfVariableSeq")))

asn_DEF_VariableAccessSpecification ==
    CHOICE(<<
        Implicit("listOfVariable", Context(0),
            "VariableAccessSpecification_listOfVariable"),
        Explicit("variableListName", Context(1), "ObjectName")>>)

asn_DEF_VariableSpecification_variableDescription ==
    Indexed(SEQUENCE(<<Context(2)>>, <<
        Plain("address", NoTag, "Address"),
        Plain("typeSpecification", NoTag, "TypeSpecification")>>), <<
        <<Context(0), 1>>, <<Context(0), 2>>, <<Context(1), 1>>,
        <<Context(1), 2>>, <<Context(2), 1>>, <<Context(2), 2>>,
        <<Context(3), 2>>, <<Context(4), 2>>, <<Context(5), 2>>,
        <<Context(6), 2>>, <<Context(7), 2>>, <<Context(9), 2>>,
        <<Context(10), 2>>, <<Context(11), 2>>, <<Context(12), 2>>,
        <<Context(13), 2>>, <<Context(15), 2>>, <<Context(16), 2>>,
        <<Context(17), 2>>>>)

asn_DEF_VariableSpecification ==
    CHOICE(<<
        Explicit("name", Context(0), "ObjectName"),
        Explicit("address", Context(1), "Address"),
        Implicit("variableDescription", Context(2),
            "VariableSpecification_variableDescription"),
        Pointer(Implicit("scatteredAccessDescription", Context(3),
            "ScatteredAccessDescription")),
        Implicit("invalidated", Context(4), "NULL")>>)

asn_DEF_WriteRequest_listOfData ==
    SEQUENCE_OF(<<Context(0)>>,
        Pointer(Plain("", NoTag, "Data")))

asn_DEF_WriteRequest ==
    Indexed(SEQUENCE(<<Universal(16)>>, <<
        Plain("variableAccessSpecification", NoTag, "VariableAccessSpecification"),
        Implicit("listOfData", Context(0), "WriteRequest_listOfData")>>), <<
        <<Context(0), 1>>, <<Context(0), 2>>, <<Context(1), 1>>>>)

asn_DEF_WriteResponse_Member ==
    CHOICE(<<
        Implicit("failure", Context(0), "DataAccessError"),
        Implicit("success", Context(1), "NULL")>>)

asn_DEF_WriteResponse ==
    SEQUENCE_OF(<<Universal(16)>>,
        Pointer(Plain("", NoTag, "WriteResponse_Member")))

asn_DEF_GetNamedVariableListAttributesRequest == Inherit(asn_DEF_ObjectName, <<>>)

asn_DEF_InitiateErrorPdu == Inherit(asn_DEF_ServiceError, <<Universal(16)>>)

(***************************************************************************)
(* Every type by its name.                                                 *)
(***************************************************************************)
Types ==
    [BOOLEAN |-> asn_DEF_BOOLEAN,
     NULL |-> asn_DEF_NULL,
     INTEGER |-> asn_DEF_INTEGER,
     NativeInteger |-> asn_DEF_NativeInteger,
     OCTET_STRING |-> asn_DEF_OCTET_STRING,
     BIT_STRING |-> asn_DEF_BIT_STRING,
     VisibleString |-> asn_DEF_VisibleString,
     UTF8String |-> asn_DEF_UTF8String,
     GeneralizedTime |-> asn_DEF_GeneralizedTime,
     AccessResult |-> asn_DEF_AccessResult,
     Address |-> asn_DEF_Address,
     AlternateAccess_named |-> asn_DEF_AlternateAccess_named,
     AlternateAccess_Member |-> asn_DEF_AlternateAccess_Member,
     AlternateAccess |-> asn_DEF_AlternateAccess,
     AlternateAccessSelection_indexRange_6 |-> asn_DEF_AlternateAccessSelection_indexRange_6,
     AlternateAccessSelection_accessSelection |-> asn_DEF_AlternateAccessSelection_accessSelection,
     AlternateAccessSelection_selectAlternateAccess |-> asn_DEF_AlternateAccessSelection_selectAlternateAccess,
     AlternateAccessSelection_indexRange_14 |-> asn_DEF_AlternateAccessSelection_indexRange_14,
     AlternateAccessSelection_selectAccess |-> asn_DEF_AlternateAccessSelection_selectAccess,
     AlternateAccessSelection |-> asn_DEF_AlternateAccessSelection,
     ConcludeRequestPDU |-> asn_DEF_ConcludeRequestPDU,
     ConcludeResponsePDU |-> asn_DEF_ConcludeResponsePDU,
     ConfirmedErrorPDU |-> asn_DEF_ConfirmedErrorPDU,
     ConfirmedRequestPdu |-> asn_DEF_ConfirmedRequestPdu,
     ConfirmedResponsePdu |-> asn_DEF_ConfirmedResponsePdu,
     ConfirmedServiceRequest |-> asn_DEF_ConfirmedServiceRequest,
     ConfirmedServiceResponse |-> asn_DEF_ConfirmedServiceResponse,
     Data |-> asn_DEF_Data,
     DataAccessError |-> asn_DEF_DataAccessError,
     DataSequence |-> asn_DEF_DataSequence,
     DefineNamedVariableListRequest_Member |-> asn_DEF_DefineNamedVariableListRequest_Member,
     DefineNamedVariableListRequest_listOfVariable |-> asn_DEF_DefineNamedVariableListRequest_listOfVariable,
     DefineNamedVariableListRequest |-> asn_DEF_DefineNamedVariableListRequest,
     DefineNamedVariableListResponse |-> asn_DEF_DefineNamedVariableListResponse,
     DeleteNamedVariableListRequest_listOfVariableListName |-> asn_DEF_DeleteNamedVariableListRequest_listOfVariableListName,
     DeleteNamedVariableListRequest |-> asn_DEF_DeleteNamedVariableListRequest,
     DeleteNamedVariableListResponse |-> asn_DEF_DeleteNamedVariableListResponse,
     FloatingPoint |-> asn_DEF_FloatingPoint,
     GetNameListRequest_objectScope |-> asn_DEF_GetNameListRequest_objectScope,
     GetNameListRequest |-> asn_DEF_GetNameListRequest,
     GetNameListResponse_listOfIdentifier |-> asn_DEF_GetNameListResponse_listOfIdentifier,
     GetNameListResponse |-> asn_DEF_GetNameListResponse,
     GetNamedVariableListAttributesRequest |-> asn_DEF_GetNamedVariableListAttributesRequest,
     GetNamedVariableListAttributesResponse_Member |-> asn_DEF_GetNamedVariableListAttributesResponse_Member,
     GetNamedVariableListAttributesResponse_listOfVariable |-> asn_DEF_GetNamedVariableListAttributesResponse_listOfVariable,
     GetNamedVariableListAttributesResponse |-> asn_DEF_GetNamedVariableListAttributesResponse,
     GetVariableAccessAttributesRequest |-> asn_DEF_GetVariableAccessAttributesRequest,
     GetVariableAccessAttributesResponse |-> asn_DEF_GetVariableAccessAttributesResponse,
     Identifier |-> asn_DEF_Identifier,
     IndexRangeSeq |-> asn_DEF_IndexRangeSeq,
     InformationReport_listOfAccessResult |-> asn_DEF_InformationReport_listOfAccessResult,
     InformationReport |-> asn_DEF_InformationReport,
     InitRequestDetail |-> asn_DEF_InitRequestDetail,
     InitResponseDetail |-> asn_DEF_InitResponseDetail,
     InitiateErrorPdu |-> asn_DEF_InitiateErrorPdu,
     InitiateRequestPdu |-> asn_DEF_InitiateRequestPdu,
     InitiateResponsePdu |-> asn_DEF_InitiateResponsePdu,
     Integer16 |-> asn_DEF_Integer16,
     Integer32 |-> asn_DEF_Integer32,
     Integer8 |-> asn_DEF_Integer8,
     ListOfVariableSeq |-> asn_DEF_ListOfVariableSeq,
     MMSString |-> asn_DEF_MMSString,
     MmsPdu |-> asn_DEF_MmsPdu,
     ObjectClass |-> asn_DEF_ObjectClass,
     ObjectName_domainspecific |-> asn_DEF_ObjectName_domainspecific,
     ObjectName |-> asn_DEF_ObjectName,
     ParameterSupportOptions |-> asn_DEF_ParameterSupportOptions,
     ReadRequest |-> asn_DEF_ReadRequest,
     ReadResponse_listOfAccessResult |-> asn_DEF_ReadResponse_listOfAccessResult,
     ReadResponse |-> asn_DEF_ReadResponse,
     RejectPDU_rejectReason |-> asn_DEF_RejectPDU_rejectReason,
     RejectPDU |-> asn_DEF_RejectPDU,
     ScatteredAccessDescription_Member |-> asn_DEF_ScatteredAccessDescription_Member,
     ScatteredAccessDescription |-> asn_DEF_ScatteredAccessDescription,
     ServiceError_errorClass |-> asn_DEF_ServiceError_errorClass,
     ServiceError |-> asn_DEF_ServiceError,
     ServiceSupportOptions |-> asn_DEF_ServiceSupportOptions,
     StructComponent |-> asn_DEF_StructComponent,
     TimeOfDay |-> asn_DEF_TimeOfDay,
     TypeSpecification_array |-> asn_DEF_TypeSpecification_array,
     TypeSpecification_components |-> asn_DEF_TypeSpecification_components,
     TypeSpecification_structure |-> asn_DEF_TypeSpecification_structure,
     TypeSpecification_floatingpoint |-> asn_DEF_TypeSpecification_floatingpoint,
     TypeSpecification |-> asn_DEF_TypeSpecification,
     UnconfirmedPDU |-> asn_DEF_UnconfirmedPDU,
     UnconfirmedService |-> asn_DEF_UnconfirmedService,
     Unsigned16 |-> asn_DEF_Unsigned16,
     Unsigned32 |-> asn_DEF_Unsigned32,
     Unsigned8 |-> asn_DEF_Unsigned8,
     UtcTime |-> asn_DEF_UtcTime,
     VariableAccessSpecification_listOfVariable |-> asn_DEF_VariableAccessSpecification_listOfVariable,
     VariableAccessSpecification |-> asn_DEF_VariableAccessSpecification,
     VariableSpecification_variableDescription |-> asn_DEF_VariableSpecification_variableDescription,
     VariableSpecification |-> asn_DEF_VariableSpecification,
     WriteRequest_listOfData |-> asn_DEF_WriteRequest_listOfData,
     WriteRequest |-> asn_DEF_WriteRequest,
     WriteResponse_Member |-> asn_DEF_WriteResponse_Member,
     WriteResponse |-> asn_DEF_WriteResponse]

TypeNames == DOMAIN Types

(* elm->type *)
TypeOf(m) == Types[m.type]

Constructed == {"SEQUENCE", "CHOICE", "SEQUENCE OF"}

(* The tags an encoding of a type may start with. *)
RECURSIVE FirstTags(_)
FirstTags(type) ==
    LET td == Types[type] IN
    IF td.tags # <<>> THEN {td.tags[1]}
    ELSE UNION {IF td.elements[i].tag # NoTag THEN {td.elements[i].tag}
                ELSE FirstTags(td.elements[i].type) : i \in DOMAIN td.elements}

MemberTags(m) == IF m.tag # NoTag THEN {m.tag} ELSE FirstTags(m.type)

(***************************************************************************)
(* What the run-time library takes for granted of its tables: every member *)
(* has a type; a type has at most one tag and only an untagged CHOICE has  *)
(* none; only CHOICEs are wrapped in an explicit tag, so that no value     *)
(* ever has two tags to check; a table lists exactly the tags its members  *)
(* may start with, sorted by class and number as the search needs; and a   *)
(* CHOICE never has two alternatives with the same tag.                    *)
(***************************************************************************)
ASSUME TablesSound ==
    \A type \in TypeNames :
        LET td == Types[type]
            els == td.elements
            tab == td.tag2el
            Key(k) == <<tab[k][1] % 4, tab[k][1] \div 4, tab[k][2]>>
            Before(a, b) ==
                \/ a[1] < b[1]
                \/ a[1] = b[1] /\ a[2] < b[2]
                \/ a[1] = b[1] /\ a[2] = b[2] /\ a[3] < b[3]
        IN  /\ Len(td.tags) = (IF td.kind = "CHOICE" THEN 0 ELSE 1)
            /\ \A i \in DOMAIN els :
                  /\ els[i].type \in TypeNames
                  /\ els[i].tag_mode = 1 => Types[els[i].type].kind = "CHOICE"
                  /\ els[i].tag_mode = -1 => Types[els[i].type].kind # "CHOICE"
                  /\ els[i].tag = NoTag => Types[els[i].type].kind = "CHOICE"
            /\ td.kind \in {"SEQUENCE", "CHOICE"} =>
                  /\ {tab[k] : k \in DOMAIN tab} =
                        UNION {MemberTags(els[i]) \X {i} : i \in DOMAIN els}
                  /\ td.kind = "CHOICE" =>
                        Cardinality({tab[k][1] : k \in DOMAIN tab}) = Len(tab)
                  /\ \A k \in 1 .. Len(tab) - 1 : Before(Key(k), Key(k + 1))
=============================================================================
