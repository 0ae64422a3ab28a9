----------------------------- MODULE EnumTables -----------------------------
(***************************************************************************)
(* The enumerations of the file formats (include/elf.hh, include/macho.hh, *)
(* include/xcoff.hh) and the tables that give their values names (elf.cc,  *)
(* macho.cc, xcoff.cc).                                                    *)
(*                                                                         *)
(* x_t is the sequence of the values of the enumerators of x_t, in their   *)
(* order: numbers, or sets of bits for an enumeration with EnableBitmask.  *)
(* A word of 32 bits is written as a signed number.  x_s is the table of   *)
(* that name, with its entries in their order.  Names only matter as far   *)
(* as they are equal: a name is the number of the first entry that has it, *)
(* and Null for the null pointer of an entry that the array's size leaves  *)
(* without an initialiser.                                                 *)
(***************************************************************************)
EXTENDS Integers, SequencesExt

Null == 0

Run(a, b) == [i \in 1..(b - a + 1) |-> a + i - 1]
Bits(a, b) == [i \in 1..(b - a + 1) |-> {a + i - 1}]
Pick(values, order) == [i \in DOMAIN order |-> values[order[i]]]

Named(values) == [i \in DOMAIN values |-> [value |-> values[i], name |-> i]]
Padding(zero, n) == [i \in 1..n |-> [value |-> zero, name |-> Null]]

-----------------------------------------------------------------------------
(* ELF *)

elf_class_t == Run(0, 2)
elf_class_s == Named(elf_class_t)
elf_data_t == Run(0, 2)
elf_data_s == Named(elf_data_t)
elf_ident_version_t == <<0, 1>>
elf_ident_version_s == Named(elf_ident_version_t)
elf_osabi_t == Run(0, 17) \o <<64, 82, 97, 255>>
elf_osabi_s == Named(elf_osabi_t)
elf_version_t == <<0, 1>>
elf_version_s == Named(elf_version_t)
elf_type_t == Run(0, 4) \o <<100, 200, \hFE00, \hFEFF, \hFF00, \hFFFF>>
elf_type_s == Named(elf_type_t)
elf_machine_t ==
    Run(0, 10) \o <<15>> \o Run(17, 23) \o Run(36, 120) \o Run(131, 144) \o Run(160, 181)
    \o <<183>> \o Run(185, 204) \o Run(210, 224) \o <<243, 247, \h666, \h9026>>
elf_machine_s == [Named(elf_machine_t) EXCEPT ![180].name = 25]
elf_flag_t ==
    <<{}, {1}, {2}, {3}, {4}, 24..31, {5}, {6}, {7}, {8}, (0..3) \cup (16..23), 24..31>>
elf_flag_s == Named(elf_flag_t)
elf_shns_t ==
    <<0, \hFF00, \hFF00, \hFF00, \hFF01, \hFF1F, \hFF20, \hFF3F, \hFFF1, \hFFF2, \hFFFF, \hFFFF>>
elf_shns_s == Named(Pick(elf_shns_t, Run(1, 3) \o <<6, 7, 4, 5>> \o Run(8, 12)))
elf_shtype_t ==
    Run(0, 11) \o Run(14, 18) \o <<\h60000000>> \o Run(\h6FFFFFF5, \h6FFFFFF8)
    \o Run(\h6FFFFFFA, \h6FFFFFFF)
    \o <<\h6FFFFFFF, \h70000000, \h7FFFFFFF, -2147483647 - 1, -1>>
elf_shtype_s == Named(elf_shtype_t)
elf32_shflags_t == <<{}>> \o Bits(0, 2) \o Bits(4, 11) \o <<{30}, {31}>>
elf32_shflags_s == Named(elf32_shflags_t)
elf64_shflags_t == <<{}>> \o Bits(0, 2) \o Bits(4, 11) \o <<{30}, {31}>>
elf64_shflags_s == Named(elf64_shflags_t)
elf_shgroup_t == <<{}, {0}, 20..27, 28..31>>
elf_shgroup_s == Named(elf_shgroup_t)
elf_symbol_binding_t == Run(0, 2) \o <<10, 12, 13, 15>>
elf_symbol_binding_s == Named(elf_symbol_binding_t)
elf_symbol_type_t == Run(0, 6) \o <<10, 12, 13, 15>>
elf_symbol_type_s == Named(elf_symbol_type_t)
elf_symbol_visibility_t == Run(0, 3)
elf_symbol_visibility_s == Named(elf_symbol_visibility_t)
elf_syminfo_bound_t == <<0, \hFF00, \hFFFE, \hFFFF>>
elf_syminfo_bound_s == [Named(elf_syminfo_bound_t) EXCEPT ![2].name = 1]
elf_syminfo_flag_t == <<{}, {0}, {1}, {2}, {3}>>
elf_syminfo_flag_s == Named(elf_syminfo_flag_t)
elf_phdr_type_t ==
    Run(0, 7) \o <<\h60000000>> \o Run(\h6474E550, \h6474E552)
    \o <<\h6FFFFFFA, \h6FFFFFFB, \h6FFFFFFF, \h70000000, \h7FFFFFFF>>
elf_phdr_type_s == Named(elf_phdr_type_t)
elf_phdr_flags_t == <<{}, {0}, {1}, {2}, 20..27, 28..31>>
elf_phdr_flags_s == Named(elf_phdr_flags_t)
elf_note_desc_t ==
    Run(0, 10) \o Run(13, 17) \o <<20>> \o Run(\h100, \h110) \o Run(\h200, \h202)
    \o Run(\h300, \h30D) \o Run(\h400, \h405) \o <<\h46494C45, \h46E62B7F, \h53494749>>
elf_note_desc_s == Named(elf_note_desc_t)
elf32_dyn_tag_t ==
    Run(0, 6) \o <<6>> \o Run(8, 34) \o <<\h6000000D, \h6FFFF000>>
    \o Run(\h6FFFFDF5, \h6FFFFE00) \o Run(\h6FFFFEF5, \h6FFFFF00)
    \o Run(\h6FFFFFF9, \h70000000) \o <<\h7FFFFFFD, \h7FFFFFFF>>
elf32_dyn_tag_s == Named(RemoveAt(elf32_dyn_tag_t, 35)) \o Padding(0, 1)
elf64_dyn_tag_t ==
    Run(0, 6) \o <<6>> \o Run(8, 34) \o <<\h6000000D, \h6FFFF000>>
    \o Run(\h6FFFFDF5, \h6FFFFE00) \o Run(\h6FFFFEF5, \h6FFFFF00)
    \o Run(\h6FFFFFF9, \h70000000) \o <<\h7FFFFFFD, \h7FFFFFFF>>
elf64_dyn_tag_s == Named(RemoveAt(elf64_dyn_tag_t, 35)) \o Padding(0, 1)
elf_dyn_flags_t == <<{}, {0}, {1}, {2}, {3}, {4}>>
elf_dyn_flags_s == Named(elf_dyn_flags_t)
elf_dyn_eflags_t == <<{}>> \o Bits(0, 27)
elf_dyn_eflags_s == Named(elf_dyn_eflags_t)
elf_dyn_feature_t == <<{}, {0}, {1}>>
elf_dyn_feature_s == Named(elf_dyn_feature_t)
elf_dyn_posflag_t == <<{}, {0}, {1}>>
elf_dyn_posflag_s == Named(elf_dyn_posflag_t)
elf_chdr_type_t == <<0, 1, \h60000000, \h6FFFFFFF, \h70000000, \h7FFFFFFF>>
elf_chdr_type_s == Named(elf_chdr_type_t)
elf_verdef_revision_t == <<0, 1>>
elf_verdef_revision_s == Named(elf_verdef_revision_t)
elf_verdef_flag_t == <<{}, {0}, {1}>>
elf_verdef_flag_s == Named(elf_verdef_flag_t)
elf_verdef_index_t == <<0, 0, \hFF00, \hFF01>>
elf_verdef_index_s == Named(elf_verdef_index_t)
elf_vernaux_flag_t == <<{}, {1}>>
elf_vernaux_s == Named(elf_vernaux_flag_t)
elf_auxv_type_t == Run(0, 40)
elf_auxv_type_s == Named(elf_auxv_type_t)
elf_note_os_t == Run(0, 3)
elf_note_os_s == Named(elf_note_os_t)
elf_note_type_t == Run(0, 5)
elf_note_type_s == Named(elf_note_type_t)

(* Mach-O *)

mach_cpu_t ==
    Run(-1, 1) \o <<6, 7, \h1000007, 8>> \o Run(10, 12) \o <<\h100000C>> \o Run(13, 16)
    \o <<18, \h1000012>>
mach_cpu_s == Named(mach_cpu_t)
mach_cpu_sub_t == Run(-1, 1)
mach_cpu_sub_s == Named(mach_cpu_sub_t)
mach_flags_t == <<{}>> \o Bits(0, 25)
mach_flags_s == Named(mach_flags_t)

(* XCOFF *)

xcoff_hdr_flags_t == <<{}>> \o Bits(0, 15)
xcoff_hdr_flags_s == Named(xcoff_hdr_flags_t)
xcoff_opthdr_flags_t == <<{}>>
xcoff_opthdr_flags_s == Named(xcoff_opthdr_flags_t) \o Padding({}, 16)

-----------------------------------------------------------------------------
(* The tables by name, with the value static_cast makes of 0, a value that *)
(* no entry has, and the width of the words of the enumerations of bits.   *)

Numbers(entries) == [entries |-> entries, zero |-> 0, stray |-> -2]
Flags(entries, width) ==
    [entries |-> entries, zero |-> {}, stray |-> {width - 2, width - 1}, width |-> width]

NumberTables ==
    [elf_class_s |-> Numbers(elf_class_s), elf_data_s |-> Numbers(elf_data_s),
     elf_ident_version_s |-> Numbers(elf_ident_version_s),
     elf_osabi_s |-> Numbers(elf_osabi_s), elf_version_s |-> Numbers(elf_version_s),
     elf_type_s |-> Numbers(elf_type_s), elf_machine_s |-> Numbers(elf_machine_s),
     elf_shns_s |-> Numbers(elf_shns_s), elf_shtype_s |-> Numbers(elf_shtype_s),
     elf_symbol_binding_s |-> Numbers(elf_symbol_binding_s),
     elf_symbol_type_s |-> Numbers(elf_symbol_type_s),
     elf_symbol_visibility_s |-> Numbers(elf_symbol_visibility_s),
     elf_syminfo_bound_s |-> Numbers(elf_syminfo_bound_s),
     elf_phdr_type_s |-> Numbers(elf_phdr_type_s),
     elf_note_desc_s |-> Numbers(elf_note_desc_s),
     elf32_dyn_tag_s |-> Numbers(elf32_dyn_tag_s),
     elf64_dyn_tag_s |-> Numbers(elf64_dyn_tag_s),
     elf_chdr_type_s |-> Numbers(elf_chdr_type_s),
     elf_verdef_revision_s |-> Numbers(elf_verdef_revision_s),
     elf_verdef_index_s |-> Numbers(elf_verdef_index_s),
     elf_auxv_type_s |-> Numbers(elf_auxv_type_s),
     elf_note_os_s |-> Numbers(elf_note_os_s),
     elf_note_type_s |-> Numbers(elf_note_type_s), mach_cpu_s |-> Numbers(mach_cpu_s),
     mach_cpu_sub_s |-> Numbers(mach_cpu_sub_s)]

FlagTables ==
    [elf_flag_s |-> Flags(elf_flag_s, 32), elf32_shflags_s |-> Flags(elf32_shflags_s, 32),
     elf64_shflags_s |-> Flags(elf64_shflags_s, 64),
     elf_shgroup_s |-> Flags(elf_shgroup_s, 32),
     elf_syminfo_flag_s |-> Flags(elf_syminfo_flag_s, 16),
     elf_phdr_flags_s |-> Flags(elf_phdr_flags_s, 32),
     elf_dyn_flags_s |-> Flags(elf_dyn_flags_s, 8),
     elf_dyn_eflags_s |-> Flags(elf_dyn_eflags_s, 32),
     elf_dyn_feature_s |-> Flags(elf_dyn_feature_s, 32),
     elf_dyn_posflag_s |-> Flags(elf_dyn_posflag_s, 32),
     elf_verdef_flag_s |-> Flags(elf_verdef_flag_s, 16),
     elf_vernaux_s |-> Flags(elf_vernaux_s, 16), mach_flags_s |-> Flags(mach_flags_s, 32),
     xcoff_hdr_flags_s |-> Flags(xcoff_hdr_flags_s, 16),
     xcoff_opthdr_flags_s |-> Flags(xcoff_opthdr_flags_s, 16)]
=============================================================================
