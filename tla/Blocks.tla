------------------------------- MODULE Blocks -------------------------------
(***************************************************************************)
(* Values and heaps (byterun/mlvalues.h).  A heap is a sequence of blocks; *)
(* a pointer carries the distance in words to the start of its closure     *)
(* when it is an infix one.                                                *)
(***************************************************************************)
LOCAL INSTANCE Integers

Long(n) == <<"long", n, 0>>
Ptr(b) == <<"ptr", b, 0>>
InfixPtr(b, ofs) == <<"ptr", b, ofs>>
CodePtr(ofs) == <<"code", ofs, 0>>
OutsideAt(addr) == <<"outside", addr, 0>>
RawWord(n) == <<"raw", n, 0>>

Is_long(v) == v[1] = "long"
Is_in_value_area(v) == v[1] = "ptr"

Lazy_tag == 246
Closure_tag == 247
Object_tag == 248
Infix_tag == 249
Forward_tag == 250
Abstract_tag == 251
No_scan_tag == 251
String_tag == 252
Double_tag == 253
Double_array_tag == 254
Custom_tag == 255

Make_header(wosize, tag) == wosize * 1024 + tag
Tag_hd(hd) == hd % 256
Wosize_hd(hd) == hd \div 1024
InfixHeader(ofs) == Long((Make_header(ofs, Infix_tag) - 1) \div 2)
=============================================================================
